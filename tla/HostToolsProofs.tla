-------------------------- MODULE HostToolsProofs --------------------------
(***************************************************************************)
(* What the host programs promise when any one of them is run.             *)
(*                                                                         *)
(* The first part is about the capture programs, for every block, transfer *)
(* and queue length, every planned stream and every bound: an exit code 0  *)
(* means the whole stream of this run, with its status line, and blocks    *)
(* validated where the stream has its blocks.                              *)
(*                                                                         *)
(* The second part carries this and the theorems of StreamReadersProofs,   *)
(* FlashLinkProofs and GrayValidatorProofs over to MCHostTools.            *)
(***************************************************************************)
EXTENDS MCHostTools, SequenceTheorems, FiniteSetTheorems, TLAPS

\* The units of data, the transfers, and the three parts of the state.
Units == {"own", "old"} \X Int
Data == Seq(Units)
Requests == [want : Int, got : Data, who : {"stream", "read"}]
Results == [want : Int, got : Data, who : {"stream", "read"}, how : {"ok", "failed", "cancelled"}]
Samples == [start : Nat, data : Data]
HostRecord ==
  [at : {"arm", "stream", "cancel", "drain", "status", "verdict", "exit"}, tool : Tools,
   total : Nat, every : {1, 2}, drain : BOOLEAN, planned : Int, received : Nat, error : BOOLEAN,
   captured : Data, last : Data, completed : Nat, samples : Seq(Samples), checked : SUBSET Data,
   tries : Int, status : Data, exit : {-1, 0, 1, 2}]
WireRecord == [flight : Seq(Requests), done : Seq(Results)]
DevRecord ==
  [left : Seq(Data), armed : BOOLEAN, replied : BOOLEAN, says : BOOLEAN, sent : Nat,
   stopped : BOOLEAN, said : BOOLEAN, clean : BOOLEAN, shorts : Nat, quiet : BOOLEAN]

Types == host \in HostRecord /\ wire \in WireRecord /\ dev \in DevRecord

\* The board of this program answers with data at once, and says the status line unasked; an
\* endpoint that was found or made empty has only that.
BoardInv ==
  /\ dev.replied /\ dev.says
  /\ dev.quiet => dev.left = <<>>
  /\ host.at = "arm" =>
       /\ wire.flight = <<>> /\ wire.done = <<>> /\ dev.sent = 0 /\ ~dev.said
       /\ host.captured = <<>> /\ ~host.error

\* Only the first transfer in flight has received anything.
FirstOnly == \A j \in 2 .. Len(wire.flight) : wire.flight[j].got = <<>>

\* Until the stream has ended nothing else is read, and afterwards, without an error, nothing of it.
Reads ==
  /\ host.at \in {"arm", "stream"} =>
       /\ \A i \in 1 .. Len(wire.flight) : wire.flight[i].who = "stream"
       /\ \A i \in 1 .. Len(wire.done) : wire.done[i].who = "stream"
  /\ host.at \in {"status", "verdict"} /\ ~host.error =>
       /\ \A i \in 1 .. Len(wire.flight) : wire.flight[i].who = "read"
       /\ \A i \in 1 .. Len(wire.done) : wire.done[i].who = "read"
  /\ host.at \in {"cancel", "drain"} => host.error

Phase ==
  /\ host.received = Len(host.captured)
  /\ host.at \in {"arm", "stream"} => host.status = <<>>
  /\ host.exit # -1 => host.at = "exit"
  /\ host.exit = 0 =>
       /\ ~host.error /\ host.received = host.total
       /\ \E k \in 1 .. Len(host.status) : host.status[k] \in {Status("old"), Status("own")}

\* What the board has sent of its run, and data that are these units from position p on.
Delivered == dev.sent + (IF dev.said THEN 1 ELSE 0)
Sits(data, p, source) ==
  \A i \in 1 .. Len(data) :
    \/ data[i] = <<"own", p + i>> /\ p + i <= source.sent
    \/ data[i] = Status("own") /\ p + i = source.sent + 1 /\ source.said

\* Of the transfers that have ended the first n did so well.
Well(n) == \A j \in 1 .. n : wire.done[j].how = "ok"

\* Without an error what the board has sent is in the captured data, then in the transfers that
\* have ended, in their order, and then in the first in flight, up to the first failure.
FlowsAt(pos) ==
  /\ pos[1] = Len(host.captured)
  /\ \A i \in 1 .. Len(wire.done) :
       Well(i) => /\ Sits(wire.done[i].got, pos[i], dev)
                  /\ pos[i + 1] = pos[i] + Len(wire.done[i].got)
  /\ Well(Len(wire.done)) =>
       IF wire.flight = <<>> THEN pos[Len(wire.done) + 1] = Delivered
       ELSE /\ Sits(wire.flight[1].got, pos[Len(wire.done) + 1], dev)
            /\ pos[Len(wire.done) + 1] + Len(wire.flight[1].got) = Delivered
Flow ==
  host.at = "stream" /\ dev.quiet /\ ~host.error =>
    \E pos \in [1 .. Len(wire.done) + 1 -> Nat] : FlowsAt(pos)

\* What was captured is the beginning of that, and a status line in it is in no other transfer.
Lacks(data, u) == \A k \in 1 .. Len(data) : data[k] # u
LacksAll(u) ==
  /\ \A i \in 1 .. Len(wire.flight) : Lacks(wire.flight[i].got, u)
  /\ \A i \in 1 .. Len(wire.done) : Lacks(wire.done[i].got, u)
  /\ Lacks(host.status, u)
Whole ==
  dev.quiet /\ ~host.error =>
    /\ Sits(host.captured, 0, dev)
    /\ host.at \in {"status", "verdict", "exit"} =>
         Lacks(host.captured, Status("own")) \/ (dev.said /\ LacksAll(Status("own")))
    /\ LacksAll(Status("old"))

\* A block for the validator begins with a unit at a multiple of Block; samples are cut out of the
\* captured data where they say.
Aligned(b, captured) == \E k \in 1 .. Len(captured) : b[1] = captured[k] /\ (k - 1) % Block = 0
Cut(sample, captured) ==
  /\ sample.start + Len(sample.data) <= Len(captured)
  /\ \A j \in 1 .. Len(sample.data) : sample.data[j] = captured[sample.start + j]
Checking ==
  /\ \A b \in host.checked : Aligned(b, host.captured)
  /\ \A i \in 1 .. Len(host.samples) : Cut(host.samples[i], host.captured)

IInv == Types /\ BoardInv /\ FirstOnly /\ Reads /\ Phase /\ Flow /\ Whole /\ Checking

LEMMA Constants ==
  /\ Block \in Nat \ {0} /\ Transfer \in Nat /\ Depth \in Nat
  /\ Totals \subseteq Nat /\ Pieces \in Nat
  BY StreamAssumption, CaptureAssumption

----------------------------------------------------------------------------
(* Sequences.                                                              *)

LEMMA TailElements ==
  ASSUME NEW S, NEW s \in Seq(S), s # <<>>
  PROVE  /\ Len(s) \in Nat \ {0} /\ Head(s) = s[1] /\ s[1] \in S
         /\ Tail(s) \in Seq(S) /\ Len(Tail(s)) = Len(s) - 1
         /\ \A i \in 1 .. Len(s) - 1 : Tail(s)[i] = s[i + 1]
  BY HeadTailProperties, EmptySeq

LEMMA AppendElements ==
  ASSUME NEW S, NEW s \in Seq(S), NEW e \in S
  PROVE  /\ Append(s, e) \in Seq(S) /\ Len(Append(s, e)) = Len(s) + 1 /\ Len(s) \in Nat
         /\ \A i \in 1 .. Len(s) : Append(s, e)[i] = s[i]
         /\ Append(s, e)[Len(s) + 1] = e
  BY AppendProperties

LEMMA ConcatElements ==
  ASSUME NEW S, NEW a \in Seq(S), NEW b \in Seq(S)
  PROVE  /\ a \o b \in Seq(S) /\ Len(a \o b) = Len(a) + Len(b)
         /\ Len(a) \in Nat /\ Len(b) \in Nat
         /\ \A k \in 1 .. Len(a) : (a \o b)[k] = a[k]
         /\ \A k \in 1 .. Len(b) : (a \o b)[Len(a) + k] = b[k]
<1>1. Len(a) \in Nat /\ Len(b) \in Nat OBVIOUS
<1>2. /\ a \o b \in Seq(S) /\ Len(a \o b) = Len(a) + Len(b)
      /\ \A i \in 1 .. Len(a) + Len(b) : (a \o b)[i] = IF i <= Len(a) THEN a[i] ELSE b[i - Len(a)]
  BY ConcatProperties
<1>3. \A k \in 1 .. Len(a) : (a \o b)[k] = a[k] BY <1>1, <1>2
<1>4. ASSUME NEW k \in 1 .. Len(b) PROVE (a \o b)[Len(a) + k] = b[k]
  <2>1. Len(a) + k \in 1 .. Len(a) + Len(b) /\ ~(Len(a) + k <= Len(a)) /\ Len(a) + k - Len(a) = k
    BY <1>1
  <2> QED BY <1>2, <2>1
<1> QED BY <1>1, <1>2, <1>3, <1>4

----------------------------------------------------------------------------
(* The board.                                                              *)

LEMMA LeftoversType ==
  ASSUME NEW left \in Leftovers
  PROVE  left \in Seq(Data)
<1>1. <<"old", 1>> \in Units /\ <<"old", 2>> \in Units /\ Status("old") \in Units
  BY DEF Units, Status
<1>2. <<<<"old", 1>>, <<"old", 2>>>> \in Data /\ <<Status("old")>> \in Data BY <1>1 DEF Data
<1> DEFINE stream == <<<<"old", 1>>, <<"old", 2>>>>
           answer == <<Status("old")>>
<1>3. Leftovers = {<<>>, <<stream>>, <<answer>>, <<stream, answer>>} BY DEF Leftovers
<1> HIDE DEF stream, answer
<1>4. stream \in Data /\ answer \in Data BY <1>2 DEF stream, answer
<1> HIDE DEF Data
<1>5. <<>> \in Seq(Data) /\ <<stream>> \in Seq(Data) /\ <<answer>> \in Seq(Data)
      /\ <<stream, answer>> \in Seq(Data)
  BY <1>4
<1> QED BY <1>3, <1>5

LEMMA PacketData ==
  ASSUME Types, NEW p \in NextPackets
  PROVE  p \in Data
<1>1. dev.left \in Seq(Data) /\ dev.sent \in Nat BY DEF Types, DevRecord
<1>2. \A k \in Int : <<"own", k>> \in Units BY DEF Units
<1>3. dev.sent + 1 \in Int /\ dev.sent + 2 \in Int BY <1>1
<1>4. /\ <<"own", dev.sent + 1>> \in Units /\ <<"own", dev.sent + 2>> \in Units
      /\ Status("own") \in Units /\ Accept("own") \in Units /\ Reject("own") \in Units
  BY <1>2, <1>3 DEF Status, Accept, Reject
<1>5. CASE dev.left # <<>>
  <2>1. p = Head(dev.left) BY <1>5 DEF NextPackets
  <2> QED BY <1>1, <1>5, <2>1, TailElements
<1>6. CASE dev.left = <<>>
  <2>1. p \in {<<Accept("own")>>, <<Reject("own")>>, <<Status("own")>>, <<<<"own", dev.sent + 1>>>>,
              <<<<"own", dev.sent + 1>>, <<"own", dev.sent + 2>>>>}
    BY <1>6 DEF NextPackets
  <2>2. \A a \in Units, b \in Units : <<a>> \in Data /\ <<a, b>> \in Data BY DEF Data
  <2> QED BY <1>4, <2>1, <2>2
<1> QED BY <1>5, <1>6

\* What a packet does to the board.
LEMMA SentType ==
  ASSUME Types, NEW p \in Data, Sent(p)
  PROVE  dev' \in DevRecord /\ dev'.quiet = dev.quiet /\ dev'.replied \in {dev.replied, TRUE} 
         /\ dev'.says = dev.says /\ (dev.left = <<>> => dev'.left = <<>>)
<1>1. dev \in DevRecord /\ dev.left \in Seq(Data) /\ dev.sent \in Nat /\ dev.shorts \in Nat
  BY DEF Types, DevRecord
<1>2. Len(p) \in Nat BY DEF Data
<1>3. CASE dev.left # <<>>
  <2>1. Tail(dev.left) \in Seq(Data) BY <1>1, <1>3, TailElements
  <2> QED BY <1>1, <1>3, <2>1 DEF Sent, DevRecord
<1>4. CASE dev.left = <<>> /\ p = <<Status("own")>>
  BY <1>1, <1>4 DEF Sent, DevRecord
<1>5. CASE dev.left = <<>> /\ p # <<Status("own")>> /\ p \in {<<Accept("own")>>, <<Reject("own")>>}
  <2>1. (p = <<Reject("own")>>) \in BOOLEAN OBVIOUS
  <2> QED BY <1>1, <1>5, <2>1 DEF Sent, DevRecord
<1>6. CASE dev.left = <<>> /\ p # <<Status("own")>> /\ p \notin {<<Accept("own")>>, <<Reject("own")>>}
  <2>1. dev.sent + Len(p) \in Nat /\ dev.shorts + 1 \in Nat BY <1>1, <1>2
  <2> QED BY <1>1, <1>6, <2>1 DEF Sent, DevRecord
<1> QED BY <1>3, <1>4, <1>5, <1>6

----------------------------------------------------------------------------
(* The transfers.                                                          *)

\* The transfer at the head has ended; it has received some more.
Moved(r) ==
  /\ r \in Results /\ r.who = wire.flight[1].who
  /\ wire'.flight = Tail(wire.flight) /\ wire'.done = Append(wire.done, r)

Grown(got) ==
  /\ Len(wire'.flight) = Len(wire.flight) /\ wire'.done = wire.done
  /\ wire'.flight[1].got = got /\ wire'.flight[1].who = wire.flight[1].who
  /\ \A i \in 2 .. Len(wire.flight) : wire'.flight[i] = wire.flight[i]

LEMMA WireTypes ==
  ASSUME Types
  PROVE  /\ wire = [flight |-> wire.flight, done |-> wire.done]
         /\ wire.flight \in Seq(Requests) /\ wire.done \in Seq(Results)
         /\ Len(wire.flight) \in Nat /\ Len(wire.done) \in Nat
         /\ (wire.flight = <<>> <=> Len(wire.flight) = 0)
         /\ (wire.done = <<>> <=> Len(wire.done) = 0)
         /\ \A i \in 1 .. Len(wire.flight) : wire.flight[i] \in Requests
         /\ \A i \in 1 .. Len(wire.done) : wire.done[i] \in Results
<1>1. wire \in WireRecord BY DEF Types
<1>2. wire = [flight |-> wire.flight, done |-> wire.done]
      /\ wire.flight \in Seq(Requests) /\ wire.done \in Seq(Results)
  BY <1>1 DEF WireRecord
<1> QED BY <1>2, EmptySeq

LEMMA RequestFields ==
  ASSUME NEW t \in Requests
  PROVE  /\ t.want \in Int /\ t.got \in Data /\ t.who \in {"stream", "read"} /\ Len(t.got) \in Nat
         /\ \A got \in Data : [t EXCEPT !.got = got] \in Requests
                             /\ [t EXCEPT !.got = got].got = got
                             /\ [t EXCEPT !.got = got].who = t.who
                             /\ [t EXCEPT !.got = got].want = t.want
         /\ \A how \in {"ok", "failed", "cancelled"} :
              /\ Result(t, how) \in Results /\ Result(t, how).how = how
              /\ Result(t, how).got = t.got /\ Result(t, how).who = t.who
<1>1. t.want \in Int /\ t.got \in Data /\ t.who \in {"stream", "read"} BY DEF Requests
<1>2. Len(t.got) \in Nat BY <1>1 DEF Data
<1>3. \A got \in Data : [t EXCEPT !.got = got] \in Requests
                       /\ [t EXCEPT !.got = got].got = got
                       /\ [t EXCEPT !.got = got].who = t.who
                       /\ [t EXCEPT !.got = got].want = t.want
  BY <1>1 DEF Requests
<1>4. \A how \in {"ok", "failed", "cancelled"} :
              /\ Result(t, how) \in Results /\ Result(t, how).how = how
              /\ Result(t, how).got = t.got /\ Result(t, how).who = t.who
  BY <1>1 DEF Result, Results
<1> QED BY <1>1, <1>2, <1>3, <1>4

LEMMA ResultFields ==
  ASSUME NEW t \in Results
  PROVE  /\ t.want \in Int /\ t.got \in Data /\ t.who \in {"stream", "read"} /\ Len(t.got) \in Nat
         /\ t.how \in {"ok", "failed", "cancelled"}
<1>1. t.want \in Int /\ t.got \in Data /\ t.who \in {"stream", "read"}
      /\ t.how \in {"ok", "failed", "cancelled"}
  BY DEF Results
<1> QED BY <1>1 DEF Data

LEMMA EndedEffect ==
  ASSUME Types, wire.flight # <<>>, NEW t \in Requests, t.who = wire.flight[1].who,
         NEW how \in {"ok", "failed"}, wire' = Ended(t, how)
  PROVE  wire' \in WireRecord /\ Moved(Result(t, how))
<1> DEFINE r == Result(t, how)
<1>1. r \in Results /\ r.who = t.who BY RequestFields
<1>2. wire.flight \in Seq(Requests) /\ wire.done \in Seq(Results) BY WireTypes
<1>3. Tail(wire.flight) \in Seq(Requests) BY <1>2, TailElements
<1> HIDE DEF r
<1>4. Append(wire.done, r) \in Seq(Results) BY <1>1, <1>2, AppendElements
<1>5. wire'.flight = Tail(wire.flight) /\ wire'.done = Append(wire.done, r)
      /\ wire' = [flight |-> Tail(wire.flight), done |-> Append(wire.done, r)]
  BY WireTypes DEF Ended, r
<1>6. wire' \in WireRecord BY <1>3, <1>4, <1>5 DEF WireRecord
<1> QED BY <1>1, <1>5, <1>6 DEF Moved, r

LEMMA PacketEffect ==
  ASSUME Types, Packet
  PROVE  \E p \in NextPackets : \E got \in Data :
           /\ p \in Data /\ Sent(p) /\ UNCHANGED host
           /\ wire.flight # <<>> /\ got = wire.flight[1].got \o p
           /\ wire' \in WireRecord
           /\ \/ Grown(got)
              \/ \E r \in Results : Moved(r) /\ r.got = got /\ r.how = "ok"
              \/ \E r \in Results : Moved(r) /\ r.got = wire.flight[1].got /\ r.how = "failed"
<1> DEFINE first == wire.flight[1]
<1>1. PICK p \in NextPackets :
        LET head == [Head(wire.flight) EXCEPT !.got = @ \o p] IN
          /\ wire' = IF Len(head.got) > head.want THEN Ended(Head(wire.flight), "failed")
                     ELSE IF Len(head.got) = head.want \/ Len(p) = 1 THEN Ended(head, "ok")
                     ELSE [wire EXCEPT !.flight[1] = head]
          /\ Sent(p)
  BY DEF Packet
<1>2. wire.flight # <<>> /\ UNCHANGED host BY DEF Packet
<1>3. p \in Data BY PacketData
<1>4. wire.flight \in Seq(Requests) /\ wire.done \in Seq(Results) BY WireTypes
<1>5. Head(wire.flight) = first /\ first \in Requests /\ Len(wire.flight) \in Nat \ {0}
  BY <1>2, <1>4, TailElements
<1> DEFINE got == first.got \o p
           head == [first EXCEPT !.got = got]
<1>6. got \in Data
  <2>1. first.got \in Data BY <1>5, RequestFields
  <2> QED BY <1>3, <2>1, ConcatElements DEF Data
<1>7. head \in Requests /\ head.got = got /\ head.who = first.who BY <1>5, <1>6, RequestFields
<1>8. \/ wire' = Ended(first, "failed")
      \/ wire' = Ended(head, "ok")
      \/ wire' = [wire EXCEPT !.flight[1] = head]
  BY <1>1, <1>5
<1> HIDE DEF got, head, first
<1>9. CASE wire' = Ended(first, "failed")
  <2>1. wire' \in WireRecord /\ Moved(Result(first, "failed"))
    BY <1>2, <1>5, <1>9, EndedEffect DEF first
  <2>2. Result(first, "failed") \in Results /\ Result(first, "failed").got = first.got
        /\ Result(first, "failed").how = "failed"
    BY <1>5, RequestFields
  <2> QED BY <1>1, <1>2, <1>3, <1>6, <2>1, <2>2 DEF first, got
<1>10. CASE wire' = Ended(head, "ok")
  <2>1. wire' \in WireRecord /\ Moved(Result(head, "ok"))
    BY <1>2, <1>5, <1>7, <1>10, EndedEffect DEF first
  <2>2. Result(head, "ok") \in Results /\ Result(head, "ok").got = got
        /\ Result(head, "ok").how = "ok"
    BY <1>7, RequestFields
  <2> QED BY <1>1, <1>2, <1>3, <1>6, <2>1, <2>2 DEF first, got
<1>11. CASE wire' = [wire EXCEPT !.flight[1] = head]
  <2> DEFINE flight == [wire.flight EXCEPT ![1] = head]
  <2>1. wire' = [flight |-> flight, done |-> wire.done] BY <1>11, WireTypes
  <2>2. flight \in Seq(Requests) /\ Len(flight) = Len(wire.flight) /\ flight[1] = head
        /\ \A i \in 2 .. Len(wire.flight) : flight[i] = wire.flight[i]
    BY <1>4, <1>5, <1>7
  <2> HIDE DEF flight
  <2>3. wire' \in WireRecord BY <1>4, <2>1, <2>2 DEF WireRecord
  <2>4. Grown(got) BY <1>7, <2>1, <2>2 DEF Grown, first
  <2> QED BY <1>1, <1>2, <1>3, <1>6, <2>3, <2>4 DEF first, got
<1> QED BY <1>8, <1>9, <1>10, <1>11

LEMMA TimedOutEffect ==
  ASSUME Types, TimedOut
  PROVE  /\ wire' \in WireRecord /\ wire.flight # <<>> /\ UNCHANGED <<host, dev>>
         /\ \E r \in Results : Moved(r) /\ r.got = wire.flight[1].got /\ r.how = "failed"
<1> DEFINE first == wire.flight[1]
<1>1. wire.flight # <<>> /\ wire' = Ended(Head(wire.flight), "failed") BY DEF TimedOut
<1>2. Head(wire.flight) = first /\ first \in Requests BY <1>1, WireTypes, TailElements
<1>3. wire' \in WireRecord /\ Moved(Result(first, "failed"))
  BY <1>1, <1>2, EndedEffect
<1>4. Result(first, "failed") \in Results /\ Result(first, "failed").got = first.got
      /\ Result(first, "failed").how = "failed"
  BY <1>2, RequestFields
<1> QED BY <1>1, <1>3, <1>4 DEF TimedOut

----------------------------------------------------------------------------
(* The program.                                                            *)

LEMMA HostTypes ==
  ASSUME Types
  PROVE  /\ host \in HostRecord
         /\ host.captured \in Data /\ host.last \in Data /\ host.status \in Data
         /\ host.samples \in Seq(Samples) /\ host.checked \in SUBSET Data
         /\ host.total \in Nat /\ host.received \in Nat /\ host.completed \in Nat
         /\ host.planned \in Int /\ host.error \in BOOLEAN /\ host.tries \in Int
         /\ host.tool \in Tools /\ host.every \in {1, 2} /\ host.drain \in BOOLEAN
  BY DEF Types, HostRecord

\* What a completed transfer changes nothing of.
Aside ==
  /\ host'.at = host.at /\ host'.total = host.total /\ host'.every = host.every
  /\ host'.checked = host.checked /\ host'.status = host.status /\ host'.exit = host.exit

\* The data of a transfer are taken, and perhaps another one is submitted.
Taken(t) ==
  /\ host'.captured = host.captured \o t.got
  /\ host'.received = host.received + Len(t.got)
  /\ host'.samples = Sampled(host, t.got)
  /\ host'.error = host.error

Resubmitted(rest) ==
  /\ wire'.done = rest.done
  /\ \/ wire'.flight = rest.flight
     \/ \E r \in Requests : r.got = <<>> /\ r.who = "stream" /\ wire'.flight = Append(rest.flight, r)

LEMMA SampledType ==
  ASSUME Types, NEW data \in Data
  PROVE  /\ Sampled(host, data) \in Seq(Samples)
         /\ \/ Sampled(host, data) = host.samples
            \/ Sampled(host, data) = Append(host.samples, [start |-> host.received, data |-> data])
<1>1. host.samples \in Seq(Samples) /\ host.received \in Nat BY HostTypes
<1>2. [start |-> host.received, data |-> data] \in Samples BY <1>1 DEF Samples
<1>3. Append(host.samples, [start |-> host.received, data |-> data]) \in Seq(Samples)
  BY <1>1, <1>2, AppendElements
<1>4. \/ Sampled(host, data) = host.samples
      \/ Sampled(host, data) = Append(host.samples, [start |-> host.received, data |-> data])
  BY DEF Sampled
<1> QED BY <1>1, <1>3, <1>4

LEMMA TookType ==
  ASSUME Types, NEW t \in Results, NEW h, h = Took(t)
  PROVE  /\ h \in HostRecord
         /\ h.captured = host.captured \o t.got /\ h.received = host.received + Len(t.got)
         /\ h.samples = Sampled(host, t.got) /\ h.error = host.error
         /\ h.at = host.at /\ h.total = host.total /\ h.every = host.every
         /\ h.checked = host.checked /\ h.status = host.status /\ h.exit = host.exit
<1>1. t.got \in Data /\ Len(t.got) \in Nat BY ResultFields
<1>2. host \in HostRecord /\ host.received + Len(t.got) \in Nat /\ host.completed + 1 \in Nat
  BY <1>1, HostTypes
<1>3. host.captured \o t.got \in Data BY <1>1, HostTypes, ConcatElements DEF Data
<1>4. Sampled(host, t.got) \in Seq(Samples) BY <1>1, SampledType
<1> DEFINE captured == host.captured \o t.got
           received == host.received + Len(t.got)
           samples == Sampled(host, t.got)
           completed == host.completed + 1
<1>5. h = [host EXCEPT !.captured = captured, !.last = t.got, !.samples = samples,
                       !.completed = completed, !.received = received]
  BY DEF Took
<1> DEFINE got == t.got
<1>6. captured \in Data /\ received \in Nat /\ samples \in Seq(Samples) /\ completed \in Nat
      /\ got \in Data
  BY <1>1, <1>2, <1>3, <1>4
<1>7. h = [host EXCEPT !.captured = captured, !.last = got, !.samples = samples,
                       !.completed = completed, !.received = received]
  BY <1>5
<1> HIDE DEF captured, received, samples, completed, got
<1>8. h \in HostRecord BY <1>2, <1>6, <1>7 DEF HostRecord
<1>9. /\ h.captured = captured /\ h.received = received /\ h.samples = samples
      /\ h.error = host.error
      /\ h.at = host.at /\ h.total = host.total /\ h.every = host.every
      /\ h.checked = host.checked /\ h.status = host.status /\ h.exit = host.exit
  BY <1>2, <1>7 DEF HostRecord
<1> QED BY <1>8, <1>9 DEF captured, received, samples

LEMMA SubmitEffect ==
  ASSUME Types, NEW h \in HostRecord, NEW size \in Int, NEW new \in BOOLEAN, NEW rest \in WireRecord,
         Submit(h, size, new, rest)
  PROVE  /\ host' \in HostRecord /\ wire' \in WireRecord /\ Resubmitted(rest)
         /\ \E planned \in Int : host' = [h EXCEPT !.planned = planned]
<1>1. h.planned \in Int /\ rest.flight \in Seq(Requests) /\ rest.done \in Seq(Results)
      /\ rest = [flight |-> rest.flight, done |-> rest.done]
  BY DEF HostRecord, WireRecord
<1>2. h.planned + size \in Int BY <1>1
<1>3. h = [h EXCEPT !.planned = h.planned] BY DEF HostRecord
<1>4. \E planned \in Int : host' = [h EXCEPT !.planned = planned]
  BY <1>1, <1>2, <1>3 DEF Submit, Planned
<1>5. host' \in HostRecord BY <1>4 DEF HostRecord
<1> DEFINE r == Request(size, "stream")
<1>6. r \in Requests /\ r.got = <<>> /\ r.who = "stream" BY DEF Request, Requests, Data
<1>7. wire' = [rest EXCEPT !.flight = Append(rest.flight, r)] BY DEF Submit
<1> HIDE DEF r
<1>8. Append(rest.flight, r) \in Seq(Requests) BY <1>1, <1>6, AppendElements
<1>9. wire' = [flight |-> Append(rest.flight, r), done |-> rest.done] BY <1>1, <1>7
<1>10. wire' \in WireRecord BY <1>1, <1>8, <1>9 DEF WireRecord
<1>11. Resubmitted(rest) BY <1>6, <1>9 DEF Resubmitted
<1> QED BY <1>4, <1>5, <1>10, <1>11

LEMMA CompleteEffect ==
  ASSUME Types, NEW t \in Results, NEW rest \in WireRecord, Complete(t, rest)
  PROVE  /\ host' \in HostRecord /\ wire' \in WireRecord /\ Aside /\ Resubmitted(rest)
         /\ \/ /\ t.how # "ok" /\ host'.error
               /\ host'.captured = host.captured /\ host'.received = host.received
               /\ host'.samples = host.samples
            \/ t.how = "ok" /\ Taken(t)
<1>1. CASE t.how # "ok" /\ host' = [host EXCEPT !.error = TRUE] /\ wire' = rest
  <2>1. host \in HostRecord BY HostTypes
  <2>2. host' \in HostRecord /\ host'.error BY <1>1, <2>1 DEF HostRecord
  <2>3. Aside /\ host'.captured = host.captured /\ host'.received = host.received
               /\ host'.samples = host.samples
    BY <1>1, <2>1 DEF HostRecord, Aside
  <2> QED BY <1>1, <2>2, <2>3 DEF Resubmitted
<1> DEFINE h == Took(t)
<1>2. /\ h \in HostRecord
      /\ h.captured = host.captured \o t.got /\ h.received = host.received + Len(t.got)
      /\ h.samples = Sampled(host, t.got) /\ h.error = host.error
      /\ h.at = host.at /\ h.total = host.total /\ h.every = host.every
      /\ h.checked = host.checked /\ h.status = host.status /\ h.exit = host.exit
  BY TookType
<1> HIDE DEF h
<1>3. ASSUME t.how = "ok", NEW size \in Int, NEW new \in BOOLEAN, Submit(h, size, new, rest)
      PROVE  /\ host' \in HostRecord /\ wire' \in WireRecord /\ Aside /\ Resubmitted(rest) /\ Taken(t)
  <2>1. host' \in HostRecord /\ wire' \in WireRecord /\ Resubmitted(rest) BY <1>2, <1>3, SubmitEffect
  <2>2. PICK planned \in Int : host' = [h EXCEPT !.planned = planned] BY <1>2, <1>3, SubmitEffect
  <2>3. /\ host'.captured = h.captured /\ host'.received = h.received
        /\ host'.samples = h.samples /\ host'.error = h.error
        /\ host'.at = h.at /\ host'.total = h.total /\ host'.every = h.every
        /\ host'.checked = h.checked /\ host'.status = h.status /\ host'.exit = h.exit
    BY <1>2, <2>2 DEF HostRecord
  <2> QED BY <1>2, <2>1, <2>3 DEF Aside, Taken
<1>4. CASE t.how = "ok" /\ Missing(t) > 0 /\ Submit(h, Missing(t), FALSE, rest)
  <2>1. Missing(t) \in Int BY ResultFields DEF Missing
  <2> QED BY <1>3, <1>4, <2>1
<1>5. CASE /\ t.how = "ok" /\ Missing(t) = 0 /\ host.planned < host.total
           /\ Submit(h, Piece(host.total - host.planned), TRUE, rest)
  <2>1. Piece(host.total - host.planned) \in Int BY HostTypes, Constants DEF Piece
  <2> QED BY <1>3, <1>5, <2>1
<1>6. CASE t.how = "ok" /\ Missing(t) = 0 /\ host.planned = host.total /\ host' = h /\ wire' = rest
  BY <1>2, <1>6 DEF Aside, Taken, Resubmitted
<1> QED BY <1>1, <1>4, <1>5, <1>6 DEF Complete, h

----------------------------------------------------------------------------
(* The first requests, and the blocks for the validator.                   *)

LEMMA FirstRequestsType ==
  ASSUME NEW total \in Nat
  PROVE  /\ FirstRequests(total) \in Seq(Requests)
         /\ \A i \in 1 .. Len(FirstRequests(total)) :
              FirstRequests(total)[i].got = <<>> /\ FirstRequests(total)[i].who = "stream"
<1> DEFINE pieces == {i \in 1 .. Depth : Transfer * (i - 1) < total}
           n == Cardinality(pieces)
           r(i) == Request(Piece(total - Transfer * (i - 1)), "stream")
<1>1. IsFiniteSet(1 .. Depth) BY Constants, FS_Interval
<1>2. pieces \subseteq 1 .. Depth OBVIOUS
<1>3. n \in Nat BY <1>1, <1>2, FS_Subset, FS_CardinalityType
<1>4. FirstRequests(total) = [i \in 1 .. n |-> r(i)] BY DEF FirstRequests
<1> HIDE DEF n
<1>5. ASSUME NEW i \in 1 .. n
      PROVE  r(i) \in Requests /\ r(i).got = <<>> /\ r(i).who = "stream"
  <2>1. Transfer * (i - 1) \in Int /\ Transfer \in Int BY <1>3, Constants
  <2>2. Piece(total - Transfer * (i - 1)) \in Int BY <2>1 DEF Piece
  <2> QED BY <2>2 DEF Request, Requests, Data
<1> HIDE DEF r
<1>6. [i \in 1 .. n |-> r(i)] \in Seq(Requests) /\ Len([i \in 1 .. n |-> r(i)]) = n
  BY <1>3, <1>5
<1> QED BY <1>4, <1>5, <1>6

LEMMA DivMod ==
  ASSUME NEW a \in Nat, NEW n \in Nat \ {0}
  PROVE  /\ a \div n \in Nat /\ a % n \in 0 .. n - 1
         /\ a = (a \div n) * n + (a % n)
  BY SMT

LEMMA MultipleMod ==
  ASSUME NEW q \in Nat, NEW n \in Nat \ {0}
  PROVE  (n * q) % n = 0
  BY SMTT(20)

LEMMA SmallMod ==
  ASSUME NEW n \in Nat \ {0}, NEW m \in 0 .. n - 1
  PROVE  (n - m) % n = IF m = 0 THEN 0 ELSE n - m
  BY SMTT(20)

LEMMA SkipSum ==
  ASSUME NEW x \in Int, NEW y \in Int, NEW n \in Nat, NEW m \in Nat,
         NEW skip, skip = IF m = 0 THEN 0 ELSE n - m
  PROVE  (x + m) + (skip + y) = x + y \/ (x + m) + (skip + y) = x + y + n
<1>1. CASE m = 0 BY <1>1
<1>2. CASE m # 0 BY <1>2
<1> QED BY <1>1, <1>2

\* Where the validator starts in a transfer that begins at unit start of the stream.
Skip(n, start) == (n - (start % n)) % n

LEMMA SkipAligned ==
  ASSUME NEW n \in Nat \ {0}, NEW start \in Nat, NEW i \in Nat
  PROVE  /\ Skip(n, start) \in Nat /\ n * i \in Nat /\ n * (i + 1) = n * i + n
         /\ (start + (Skip(n, start) + n * i)) % n = 0
<1> DEFINE q == start \div n
           m == start % n
           skip == Skip(n, start)
<1>1. q \in Nat /\ m \in 0 .. n - 1 /\ start = q * n + m BY DivMod
<1>2. n * i \in Nat /\ n * (i + 1) = n * i + n BY SMT
<1> HIDE DEF q, m
<1>3. skip = IF m = 0 THEN 0 ELSE n - m BY <1>1, SmallMod DEF m, Skip
<1> HIDE DEF skip
<1>4. skip \in Nat BY <1>1, <1>3
<1>5. q * n \in Int /\ n * (q + i) = q * n + n * i /\ n * (q + i + 1) = q * n + n * i + n
  BY <1>1, SMT
<1>6. start + (skip + n * i) = n * (q + i) \/ start + (skip + n * i) = n * (q + i + 1)
  <2>1. PICK x \in Int : x = q * n BY <1>5
  <2>2. PICK y \in Nat : y = n * i BY <1>2
  <2>3. n * (q + i) = x + y /\ n * (q + i + 1) = x + y + n /\ start = x + m BY <1>1, <1>5, <2>1, <2>2
  <2>4. start + (skip + y) = x + y \/ start + (skip + y) = x + y + n BY <1>1, <1>3, <2>1, <2>2, <2>3, SkipSum
  <2> QED BY <2>2, <2>3, <2>4
<1>7. q + i \in Nat /\ q + i + 1 \in Nat BY <1>1
<1>8. (start + (skip + n * i)) % n = 0 BY <1>6, <1>7, MultipleMod
<1> QED BY <1>2, <1>4, <1>8 DEF skip

LEMMA BlocksStart ==
  ASSUME NEW start \in Nat, NEW data \in Data, NEW b \in BlocksFrom(start, data)
  PROVE  /\ b \in Data
         /\ \E j \in 1 .. Len(data) : b[1] = data[j] /\ (start + j - 1) % Block = 0
<1> DEFINE skip == Skip(Block, start)
<1>1. Block \in Nat \ {0} /\ Len(data) \in Nat BY Constants DEF Data
<1>2. PICK i \in 0 .. Len(data) :
        skip + Block * (i + 1) <= Len(data) /\ b = SubSeq(data, skip + Block * i + 1, skip + Block * (i + 1))
  BY DEF BlocksFrom, Skip
<1>3. i \in Nat BY <1>1, <1>2
<1> HIDE DEF skip
<1>4. /\ skip \in Nat /\ Block * i \in Nat /\ Block * (i + 1) = Block * i + Block
      /\ (start + (skip + Block * i)) % Block = 0
  BY <1>1, <1>3, SkipAligned DEF skip
<1> DEFINE from == skip + Block * i
<1>5. PICK f \in Nat : f = from BY <1>4
<1>6. f + Block <= Len(data) /\ b = SubSeq(data, f + 1, f + Block)
  <2>1. skip + Block * (i + 1) = f + Block BY <1>1, <1>4, <1>5
  <2>2. skip + Block * i + 1 = f + 1 BY <1>5
  <2> QED BY <1>2, <2>1, <2>2
<1>7. (start + f) % Block = 0 BY <1>4, <1>5
<1> HIDE DEF from
<1>8. f + 1 \in 1 .. Len(data) /\ f + Block \in 1 .. Len(data) /\ f + 1 <= f + Block
      /\ start + (f + 1) - 1 = start + f
  BY <1>1, <1>5, <1>6
<1>9. \A k \in f + 1 .. f + Block : data[k] \in Units BY <1>1, <1>6 DEF Data
<1>10. b \in Seq(Units) /\ b[1] = data[f + 1]
  <2>1. f + 1 \in Int /\ f + Block \in Int /\ 1 \in 1 .. (f + Block) - (f + 1) + 1
        /\ (f + 1) + 1 - 1 = f + 1
    BY <1>1, <1>5
  <2> DEFINE lo == f + 1
             hi == f + Block
  <2>2. \A k \in lo .. hi : data[k] \in Units BY <1>9
  <2>3. lo \in Int /\ hi \in Int /\ 1 \in 1 .. hi - lo + 1 /\ lo + 1 - 1 = lo BY <2>1
  <2>4. b = SubSeq(data, lo, hi) BY <1>6
  <2> HIDE DEF lo, hi
  <2>5. b \in Seq(Units) /\ \A k \in 1 .. hi - lo + 1 : b[k] = data[lo + k - 1]
    BY <2>2, <2>3, <2>4, SubSeqProperties
  <2>6. b[1] = data[lo] BY <2>3, <2>5
  <2> QED BY <2>5, <2>6 DEF lo
<1> QED BY <1>7, <1>8, <1>10 DEF Data

LEMMA BlocksType ==
  ASSUME NEW start \in Nat, NEW data \in Data
  PROVE  BlocksFrom(start, data) \in SUBSET Data
  BY BlocksStart

LEMMA ValidatedType ==
  ASSUME Types
  PROVE  Validated \in SUBSET Data
<1>1. host.checked \in SUBSET Data /\ host.captured \in Data /\ host.samples \in Seq(Samples)
  BY HostTypes
<1>2. \A sample \in Samples : sample.start \in Nat /\ sample.data \in Data BY DEF Samples
<1>3. \A sample \in Range(host.samples) : sample \in Samples BY <1>1 DEF Range
<1>4. \A sample \in Range(host.samples) : BlocksFrom(sample.start, sample.data) \in SUBSET Data
  BY <1>2, <1>3, BlocksType
<1>5. BlocksFrom(0, host.captured) \in SUBSET Data BY <1>1, BlocksType
<1> QED BY <1>1, <1>4, <1>5 DEF Validated

----------------------------------------------------------------------------
(* What the other actions do.                                              *)

\* The fields that only Took changes.
SameData ==
  /\ host'.captured = host.captured /\ host'.received = host.received
  /\ host'.total = host.total /\ host'.every = host.every

LEMMA ArmEffect ==
  ASSUME Types, Arm
  PROVE  /\ Types' /\ SameData /\ host.at = "arm" /\ host'.at = "stream"
         /\ host'.samples = host.samples /\ host'.checked = host.checked
         /\ host'.error = host.error /\ host'.exit = host.exit /\ host'.status = host.status
         /\ wire'.done = wire.done
         /\ \A i \in 1 .. Len(wire'.flight) : wire'.flight[i].got = <<>> /\ wire'.flight[i].who = "stream"
         /\ dev'.replied = dev.replied /\ dev'.says = dev.says /\ dev'.sent = dev.sent
         /\ dev'.said = dev.said /\ (dev.left = <<>> => dev'.left = <<>>)
         /\ (dev'.quiet => dev.quiet \/ dev'.left = <<>>)
<1>1. host \in HostRecord /\ host.total \in Nat /\ host.planned \in Int /\ host.drain \in BOOLEAN
  BY HostTypes
<1>2. PICK n \in Int : n = IF Transfer * Depth < host.total THEN Transfer * Depth ELSE host.total
  BY <1>1, Constants
<1>3. host' = [host EXCEPT !.at = "stream", !.planned = n] /\ host.at = "arm" BY <1>2 DEF Arm
<1>4. host' \in HostRecord BY <1>1, <1>3 DEF HostRecord
<1>5. /\ SameData /\ host'.at = "stream"
      /\ host'.samples = host.samples /\ host'.checked = host.checked
      /\ host'.error = host.error /\ host'.exit = host.exit /\ host'.status = host.status
  BY <1>1, <1>3 DEF HostRecord, SameData
<1> DEFINE flight == FirstRequests(host.total)
<1>6. /\ flight \in Seq(Requests)
      /\ \A i \in 1 .. Len(flight) : flight[i].got = <<>> /\ flight[i].who = "stream"
  BY <1>1, FirstRequestsType
<1>7. wire' = [wire EXCEPT !.flight = flight] BY DEF Arm
<1> HIDE DEF flight
<1>8. wire' = [flight |-> flight, done |-> wire.done] /\ wire.done \in Seq(Results) BY <1>7, WireTypes
<1>9. wire' \in WireRecord BY <1>6, <1>8 DEF WireRecord
<1>10. /\ dev \in DevRecord /\ dev.quiet \in BOOLEAN /\ dev.left \in Seq(Data) /\ <<>> \in Seq(Data)
  BY DEF Types, DevRecord
<1>11. dev' = [dev EXCEPT !.armed = TRUE, !.left = IF host.drain THEN <<>> ELSE dev.left,
                          !.quiet = dev.quiet \/ host.drain]
  BY DEF Arm
<1>12. PICK left \in Seq(Data) : left = IF host.drain THEN <<>> ELSE dev.left BY <1>10
<1>13. PICK quiet \in BOOLEAN : quiet = (dev.quiet \/ host.drain) BY <1>1, <1>10
<1>14. dev' = [dev EXCEPT !.armed = TRUE, !.left = left, !.quiet = quiet] BY <1>11, <1>12, <1>13
<1>15. /\ dev' \in DevRecord
       /\ dev'.replied = dev.replied /\ dev'.says = dev.says /\ dev'.sent = dev.sent
       /\ dev'.said = dev.said /\ dev'.left = left /\ dev'.quiet = quiet
  BY <1>10, <1>14 DEF DevRecord
<1>16. (dev.left = <<>> => left = <<>>) /\ (quiet => dev.quiet \/ left = <<>>)
  BY <1>12, <1>13
<1> QED BY <1>3, <1>4, <1>5, <1>6, <1>8, <1>9, <1>15, <1>16 DEF Types

LEMMA CallbackEffect ==
  ASSUME Types, wire.done # <<>>,
         Complete(Head(wire.done), [wire EXCEPT !.done = Tail(@)]), UNCHANGED dev
  PROVE  /\ Types' /\ Aside /\ UNCHANGED dev
         /\ wire'.done = Tail(wire.done)
         /\ \/ wire'.flight = wire.flight
            \/ \E r \in Requests : r.got = <<>> /\ r.who = "stream" /\ wire'.flight = Append(wire.flight, r)
         /\ \/ /\ host'.error
               /\ host'.captured = host.captured /\ host'.received = host.received
               /\ host'.samples = host.samples
            \/ wire.done[1].how = "ok" /\ Taken(wire.done[1])
<1> DEFINE rest == [flight |-> wire.flight, done |-> Tail(wire.done)]
           t == wire.done[1]
<1>1. wire.flight \in Seq(Requests) /\ wire.done \in Seq(Results) BY WireTypes
<1>2. Head(wire.done) = t /\ t \in Results /\ Tail(wire.done) \in Seq(Results) BY <1>1, TailElements
<1>3. [wire EXCEPT !.done = Tail(@)] = rest
  <2>1. PICK done \in Seq(Results) : done = Tail(wire.done) BY <1>2
  <2>2. wire \in WireRecord BY DEF Types
  <2>3. [wire EXCEPT !.done = done] = [flight |-> wire.flight, done |-> done] BY <2>2 DEF WireRecord
  <2> QED BY <2>1, <2>3
<1>4. rest \in WireRecord BY <1>1, <1>2 DEF WireRecord
<1>5. rest.flight = wire.flight /\ rest.done = Tail(wire.done) OBVIOUS
<1> HIDE DEF rest, t
<1>6. Complete(t, rest) BY <1>2, <1>3
<1>7. /\ host' \in HostRecord /\ wire' \in WireRecord /\ Aside /\ Resubmitted(rest)
      /\ \/ /\ t.how # "ok" /\ host'.error
            /\ host'.captured = host.captured /\ host'.received = host.received
            /\ host'.samples = host.samples
         \/ t.how = "ok" /\ Taken(t)
  BY <1>2, <1>4, <1>6, CompleteEffect
<1>8. dev' \in DevRecord BY DEF Types
<1> QED BY <1>5, <1>7, <1>8 DEF Types, Resubmitted, t

LEMMA WorkerEffect ==
  ASSUME Types, Worker
  PROVE  /\ Types' /\ SameData /\ UNCHANGED <<wire, dev>>
         /\ host'.at = host.at /\ host'.error = host.error /\ host'.exit = host.exit
         /\ host'.status = host.status
         /\ host.samples # <<>> /\ host'.samples = Tail(host.samples)
         /\ host'.checked = host.checked \cup BlocksFrom(host.samples[1].start, host.samples[1].data)
<1>1. host \in HostRecord /\ host.samples \in Seq(Samples) /\ host.checked \in SUBSET Data
  BY HostTypes
<1>2. host.samples # <<>> /\ UNCHANGED <<wire, dev>> BY DEF Worker
<1>3. /\ Head(host.samples) = host.samples[1] /\ host.samples[1] \in Samples
      /\ Tail(host.samples) \in Seq(Samples)
  BY <1>1, <1>2, TailElements
<1> DEFINE checked == host.checked \cup BlocksFrom(host.samples[1].start, host.samples[1].data)
           samples == Tail(host.samples)
<1>4. checked \in SUBSET Data
  <2>1. host.samples[1].start \in Nat /\ host.samples[1].data \in Data BY <1>3 DEF Samples
  <2> QED BY <1>1, <2>1, BlocksType
<1>5. host' = [host EXCEPT !.checked = checked, !.samples = samples] BY <1>3 DEF Worker
<1>6. samples \in Seq(Samples) BY <1>3
<1> HIDE DEF checked, samples
<1>7. host' \in HostRecord BY <1>1, <1>4, <1>5, <1>6 DEF HostRecord
<1>8. /\ SameData
      /\ host'.at = host.at /\ host'.error = host.error /\ host'.exit = host.exit
      /\ host'.status = host.status /\ host'.samples = samples /\ host'.checked = checked
  BY <1>1, <1>5 DEF HostRecord, SameData
<1> QED BY <1>2, <1>7, <1>8 DEF Types, samples, checked

LEMMA EndStreamEffect ==
  ASSUME Types, EndStream
  PROVE  /\ Types' /\ SameData /\ UNCHANGED dev /\ host.at = "stream"
         /\ host'.error = host.error /\ host'.status = host.status
         /\ \/ /\ ~host.error /\ wire.flight = <<>> /\ wire.done = <<>> /\ UNCHANGED wire
               /\ host'.at = "status" /\ host'.exit = host.exit
               /\ host'.samples = <<>> /\ host'.checked = Validated
            \/ /\ host.error /\ host'.at \in {"cancel", "exit"} /\ host'.exit \in {host.exit, 1}
               /\ (host'.exit = 1 => host'.at = "exit" \/ host.exit = 1)
               /\ host'.samples = host.samples /\ host'.checked = host.checked
               /\ wire'.flight \in {wire.flight, <<>>}
<1>1. host \in HostRecord /\ wire \in WireRecord /\ dev' \in DevRecord /\ UNCHANGED dev /\ host.at = "stream"
  BY DEF Types, EndStream
<1>2. Validated \in SUBSET Data BY ValidatedType
<1>3. CASE /\ ~host.error
           /\ wire.flight = <<>> /\ wire.done = <<>>
           /\ host' = [host EXCEPT !.at = "status", !.checked = Validated, !.samples = <<>>,
                                   !.tries = IF host.total = 0 THEN 1 ELSE 4]
           /\ UNCHANGED wire
  <2> DEFINE checked == Validated
  <2>1. PICK tries \in Int : tries = IF host.total = 0 THEN 1 ELSE 4 OBVIOUS
  <2>2. host' = [host EXCEPT !.at = "status", !.checked = checked, !.samples = <<>>, !.tries = tries]
    BY <1>3, <2>1
  <2>3. <<>> \in Seq(Samples) /\ checked \in SUBSET Data BY <1>2
  <2> HIDE DEF checked
  <2>4. host' \in HostRecord BY <1>1, <2>1, <2>2, <2>3 DEF HostRecord
  <2>5. /\ SameData /\ host'.error = host.error /\ host'.status = host.status
        /\ host'.at = "status" /\ host'.exit = host.exit /\ host'.samples = <<>> /\ host'.checked = checked
    BY <1>1, <2>2 DEF HostRecord, SameData
  <2> QED BY <1>1, <1>3, <2>4, <2>5 DEF Types, checked
<1>4. CASE /\ host.error
           /\ host' = [host EXCEPT !.at = "exit", !.exit = 1]
           /\ UNCHANGED wire
  <2>1. host' \in HostRecord BY <1>1, <1>4 DEF HostRecord
  <2>2. /\ SameData /\ host'.error = host.error /\ host'.status = host.status
        /\ host'.at = "exit" /\ host'.exit = 1 /\ host'.samples = host.samples
        /\ host'.checked = host.checked
    BY <1>1, <1>4 DEF HostRecord, SameData
  <2> QED BY <1>1, <1>4, <2>1, <2>2 DEF Types
<1>5. CASE /\ host.error
           /\ host' = [host EXCEPT !.at = "cancel"]
           /\ wire' = CancelAll(wire)
  <2>1. host' \in HostRecord BY <1>1, <1>5 DEF HostRecord
  <2>2. /\ SameData /\ host'.error = host.error /\ host'.status = host.status
        /\ host'.at = "cancel" /\ host'.exit = host.exit /\ host'.samples = host.samples
        /\ host'.checked = host.checked
    BY <1>1, <1>5 DEF HostRecord, SameData
  <2> DEFINE ended == [i \in DOMAIN wire.flight |-> Result(wire.flight[i], "cancelled")]
  <2>3. wire' = [flight |-> <<>>, done |-> wire.done \o ended] BY <1>5 DEF CancelAll
  <2>4. DOMAIN wire.flight = 1 .. Len(wire.flight) BY WireTypes
  <2>5. \A i \in 1 .. Len(wire.flight) : Result(wire.flight[i], "cancelled") \in Results
    BY WireTypes, RequestFields
  <2>6. ended \in Seq(Results) BY <2>4, <2>5, WireTypes
  <2> HIDE DEF ended
  <2>7. wire.done \o ended \in Seq(Results) BY <2>6, WireTypes, ConcatElements
  <2>8. wire' \in WireRecord BY <2>3, <2>7 DEF WireRecord
  <2>9. wire'.flight = <<>> BY <2>3
  <2> QED BY <1>1, <1>5, <2>1, <2>2, <2>8, <2>9 DEF Types
<1> QED BY <1>3, <1>4, <1>5 DEF EndStream

LEMMA EndCancelEffect ==
  ASSUME Types, EndCancel
  PROVE  /\ Types' /\ SameData /\ UNCHANGED <<wire, dev>> /\ host.at = "cancel" /\ host'.at = "drain"
         /\ host'.error = host.error /\ host'.exit = host.exit /\ host'.status = host.status
         /\ host'.samples = host.samples /\ host'.checked = host.checked
<1>1. host \in HostRecord /\ Pieces \in Int BY HostTypes, Constants
<1>2. host' = [host EXCEPT !.at = "drain", !.tries = Pieces] /\ UNCHANGED <<wire, dev>> /\ host.at = "cancel"
  BY DEF EndCancel
<1>3. host' \in HostRecord BY <1>1, <1>2 DEF HostRecord
<1>4. /\ SameData /\ host'.at = "drain"
      /\ host'.error = host.error /\ host'.exit = host.exit /\ host'.status = host.status
      /\ host'.samples = host.samples /\ host'.checked = host.checked
  BY <1>1, <1>2 DEF HostRecord, SameData
<1> QED BY <1>2, <1>3, <1>4 DEF Types

\* One more request, of bulkRead.
LEMMA ReadEffect ==
  ASSUME Types, Read
  PROVE  /\ Types' /\ UNCHANGED <<host, dev>> /\ host.at \in {"drain", "status"}
         /\ wire'.done = wire.done
         /\ \E r \in Requests : r.got = <<>> /\ r.who = "read" /\ wire'.flight = Append(wire.flight, r)
<1>1. PICK size \in Int : Ask(size) BY DEF Read
<1>2. wire' = [wire EXCEPT !.flight = Append(@, Request(size, "read"))] /\ UNCHANGED <<host, dev>>
  BY <1>1 DEF Ask
<1> DEFINE r == Request(size, "read")
<1>3. r \in Requests /\ r.got = <<>> /\ r.who = "read" BY DEF Request, Requests, Data
<1>4. wire' = [wire EXCEPT !.flight = Append(wire.flight, r)] BY <1>2
<1> HIDE DEF r
<1>5. wire \in WireRecord /\ wire.flight \in Seq(Requests) BY WireTypes DEF Types
<1>6. Append(wire.flight, r) \in Seq(Requests) BY <1>3, <1>5, AppendElements
<1>7. wire'.flight = Append(wire.flight, r) /\ wire'.done = wire.done /\ wire' \in WireRecord
  BY <1>4, <1>5, <1>6 DEF WireRecord
<1>8. host.at \in {"drain", "status"} BY DEF Read
<1> QED BY <1>2, <1>3, <1>7, <1>8 DEF Types

\* A bulkRead has returned: the drain goes on or ends, the status line is there or asked for again.
LEMMA AnswerReadEffect ==
  ASSUME Types, Answer, wire.done[1].who # "stream"
  PROVE  /\ Types' /\ SameData /\ UNCHANGED dev /\ host.at \in {"drain", "status"}
         /\ host'.error = host.error /\ host'.samples = host.samples /\ host'.checked = host.checked
         /\ wire.done # <<>> /\ wire'.flight = wire.flight /\ wire'.done = Tail(wire.done)
         /\ host'.exit \in {host.exit, 1, 2} /\ (host'.exit # host.exit => host'.at = "exit")
         /\ host.at = "status" =>
              host'.at \in {"status", "verdict", "exit"} /\ host'.status \in {host.status, wire.done[1].got}
         /\ host.at = "drain" => host'.at \in {"drain", "status", "exit"}
<1> DEFINE t == wire.done[1]
           found == IF host.every = 1 /\ Found(host.captured) THEN host.captured
                    ELSE IF Found(host.last) THEN host.last
                    ELSE IF t.how = "ok" /\ Found(t.got) THEN t.got
                    ELSE host.status
<1>1. wire.done # <<>> /\ UNCHANGED dev /\ host.at \in {"drain", "status"} BY DEF Answer
<1>2. wire.done \in Seq(Results) BY WireTypes
<1>3. Head(wire.done) = t /\ t \in Results /\ Tail(wire.done) \in Seq(Results)
  BY <1>1, <1>2, TailElements
<1>4. t.got \in Data BY <1>3, ResultFields
<1>5. host \in HostRecord /\ host.tries \in Int /\ host.status \in Data /\ found \in Data
  BY <1>4, HostTypes
<1>6. wire' = [wire EXCEPT !.done = Tail(@)]
      /\ \/ /\ host.at = "drain"
            /\ host' = IF t.how = "ok" /\ host.tries > 1 THEN [Tries(host) EXCEPT !.status = found]
                       ELSE DrainEnds(found)
         \/ /\ host.at = "status"
            /\ host' = IF t.how = "ok" THEN [host EXCEPT !.at = "verdict", !.status = t.got]
                       ELSE IF ~host.error /\ (~host.tool.tolerant \/ host.total = 0)
                       THEN [host EXCEPT !.at = "exit", !.exit = 1]
                       ELSE IF host.tries = 1 THEN [host EXCEPT !.at = "verdict"]
                       ELSE Tries(host)
  BY <1>3 DEF Answer
<1> HIDE DEF found, t
<1>7. wire' \in WireRecord /\ wire'.flight = wire.flight /\ wire'.done = Tail(wire.done)
  <2>1. PICK done \in Seq(Results) : done = Tail(wire.done) BY <1>3
  <2>2. wire' = [wire EXCEPT !.done = done] BY <1>6, <2>1
  <2>3. wire \in WireRecord BY DEF Types
  <2> QED BY <2>1, <2>2, <2>3 DEF WireRecord
<1>8. PICK tries \in Int : tries = host.tries - 1 BY <1>5
<1>9. Tries(host) = [host EXCEPT !.tries = tries] BY <1>5, <1>8 DEF Tries
<1>10. \/ host.at = "drain" /\ host' = [[host EXCEPT !.tries = tries] EXCEPT !.status = found]
       \/ host.at = "drain" /\ host' = [host EXCEPT !.at = "exit", !.exit = 2, !.status = found]
       \/ host.at = "drain" /\ host' = [host EXCEPT !.at = "status", !.tries = 3]
       \/ host.at = "status" /\ host' = [host EXCEPT !.at = "verdict", !.status = t.got]
       \/ host.at = "status" /\ host' = [host EXCEPT !.at = "exit", !.exit = 1]
       \/ host.at = "status" /\ host' = [host EXCEPT !.at = "verdict"]
       \/ host.at = "status" /\ host' = [host EXCEPT !.tries = tries]
  BY <1>6, <1>9 DEF DrainEnds
<1>11. host' \in HostRecord
  <2>1. CASE host.at = "drain" /\ host' = [[host EXCEPT !.tries = tries] EXCEPT !.status = found]
    BY <1>4, <1>5, <1>8, <2>1 DEF HostRecord
  <2>2. CASE host.at = "drain" /\ host' = [host EXCEPT !.at = "exit", !.exit = 2, !.status = found]
    BY <1>4, <1>5, <1>8, <2>2 DEF HostRecord
  <2>3. CASE host.at = "drain" /\ host' = [host EXCEPT !.at = "status", !.tries = 3]
    <3>1. PICK n \in Int : n = 3 OBVIOUS
    <3>2. host' = [host EXCEPT !.at = "status", !.tries = n] BY <2>3, <3>1
    <3> QED BY <1>5, <3>2 DEF HostRecord
  <2>4. CASE host.at = "status" /\ host' = [host EXCEPT !.at = "verdict", !.status = t.got]
    BY <1>4, <1>5, <1>8, <2>4 DEF HostRecord
  <2>5. CASE host.at = "status" /\ host' = [host EXCEPT !.at = "exit", !.exit = 1]
    BY <1>4, <1>5, <1>8, <2>5 DEF HostRecord
  <2>6. CASE host.at = "status" /\ host' = [host EXCEPT !.at = "verdict"]
    BY <1>4, <1>5, <1>8, <2>6 DEF HostRecord
  <2>7. CASE host.at = "status" /\ host' = [host EXCEPT !.tries = tries]
    BY <1>4, <1>5, <1>8, <2>7 DEF HostRecord
  <2> QED BY <1>10, <2>1, <2>2, <2>3, <2>4, <2>5, <2>6, <2>7
<1>12. /\ SameData /\ host'.error = host.error /\ host'.samples = host.samples
       /\ host'.checked = host.checked
       /\ host'.exit \in {host.exit, 1, 2} /\ (host'.exit # host.exit => host'.at = "exit")
       /\ host.at = "status" =>
            host'.at \in {"status", "verdict", "exit"} /\ host'.status \in {host.status, t.got}
       /\ host.at = "drain" => host'.at \in {"drain", "status", "exit"}
  <2>1. CASE host.at = "drain" /\ host' = [[host EXCEPT !.tries = tries] EXCEPT !.status = found]
    BY <1>5, <2>1 DEF HostRecord, SameData
  <2>2. CASE host.at = "drain" /\ host' = [host EXCEPT !.at = "exit", !.exit = 2, !.status = found]
    BY <1>5, <2>2 DEF HostRecord, SameData
  <2>3. CASE host.at = "drain" /\ host' = [host EXCEPT !.at = "status", !.tries = 3]
    BY <1>5, <2>3 DEF HostRecord, SameData
  <2>4. CASE host.at = "status" /\ host' = [host EXCEPT !.at = "verdict", !.status = t.got]
    BY <1>5, <2>4 DEF HostRecord, SameData
  <2>5. CASE host.at = "status" /\ host' = [host EXCEPT !.at = "exit", !.exit = 1]
    BY <1>5, <2>5 DEF HostRecord, SameData
  <2>6. CASE host.at = "status" /\ host' = [host EXCEPT !.at = "verdict"]
    BY <1>5, <2>6 DEF HostRecord, SameData
  <2>7. CASE host.at = "status" /\ host' = [host EXCEPT !.tries = tries]
    BY <1>5, <2>7 DEF HostRecord, SameData
  <2> QED BY <1>10, <2>1, <2>2, <2>3, <2>4, <2>5, <2>6, <2>7
<1>13. Types' BY <1>1, <1>7, <1>11 DEF Types
<1> HIDE DEF Types, SameData
<1> QED BY <1>1, <1>7, <1>12, <1>13 DEF t

LEMMA VerdictEffect ==
  ASSUME Types, Verdict
  PROVE  /\ Types' /\ SameData /\ UNCHANGED <<wire, dev>> /\ host.at = "verdict" /\ host'.at = "exit"
         /\ host'.error = host.error /\ host'.status = host.status
         /\ host'.samples = host.samples /\ host'.checked = host.checked
         /\ (host'.exit = 0 => Good /\ ~host.error)
<1>1. host \in HostRecord BY HostTypes
<1>2. PICK exit \in {0, 2} : exit = IF Good /\ ~host.error THEN 0 ELSE 2 OBVIOUS
<1>3. host' = [host EXCEPT !.at = "exit", !.exit = exit] /\ UNCHANGED <<wire, dev>> /\ host.at = "verdict"
  BY <1>2 DEF Verdict
<1>4. host' \in HostRecord BY <1>1, <1>3 DEF HostRecord
<1>5. /\ SameData /\ host'.at = "exit" /\ host'.exit = exit
      /\ host'.error = host.error /\ host'.status = host.status
      /\ host'.samples = host.samples /\ host'.checked = host.checked
  BY <1>1, <1>3 DEF HostRecord, SameData
<1>6. exit = 0 => Good /\ ~host.error BY <1>2
<1> QED BY <1>3, <1>4, <1>5, <1>6 DEF Types

LEMMA StopEffect ==
  ASSUME Types, Stop
  PROVE  /\ Types' /\ UNCHANGED <<host, wire>> /\ dev' = [dev EXCEPT !.stopped = TRUE]
         /\ dev'.replied = dev.replied /\ dev'.says = dev.says /\ dev'.sent = dev.sent
         /\ dev'.said = dev.said /\ dev'.left = dev.left /\ dev'.quiet = dev.quiet
<1>1. dev \in DevRecord BY DEF Types
<1> QED BY <1>1 DEF Stop, DevRecord, Types

\* A stream transfer that ends while a bulkRead waits is called back too.
LEMMA AnswerStream ==
  ASSUME Types, Answer, wire.done[1].who = "stream"
  PROVE  /\ host.at \in {"drain", "status"} /\ wire.done # <<>> /\ UNCHANGED dev
         /\ Complete(Head(wire.done), [wire EXCEPT !.done = Tail(@)])
<1>1. wire.done # <<>> BY DEF Answer
<1>2. Head(wire.done) = wire.done[1] BY <1>1, WireTypes, TailElements
<1> QED BY <1>1, <1>2 DEF Answer

LEMMA InitTypes == Init => Types
<1> SUFFICES ASSUME Init PROVE Types OBVIOUS
<1>1. host \in HostRecord
  <2>1. PICK tool \in Tools, total \in Totals, every \in {1, 2}, drain \in BOOLEAN :
          host = [at |-> "arm", tool |-> tool, total |-> total, every |-> every,
                  drain |-> drain, planned |-> 0, received |-> 0, error |-> FALSE,
                  captured |-> <<>>, last |-> <<>>, completed |-> 0, samples |-> <<>>, checked |-> {},
                  tries |-> 0, status |-> <<>>, exit |-> -1]
    BY DEF Init
  <2>2. total \in Nat /\ <<>> \in Data /\ <<>> \in Seq(Samples) /\ -1 \in {-1, 0, 1, 2}
    BY Constants DEF Data
  <2> QED BY <2>1, <2>2 DEF HostRecord
<1>2. wire \in WireRecord BY DEF Init, WireRecord
<1>3. dev \in DevRecord
  <2>1. PICK left \in Leftovers : dev = Board(left, FALSE, TRUE) BY DEF Init
  <2>2. left \in Seq(Data) BY LeftoversType
  <2>3. PICK quiet \in BOOLEAN : quiet = (left = <<>>) OBVIOUS
  <2>4. dev = [left |-> left, armed |-> FALSE, replied |-> TRUE, says |-> TRUE, sent |-> 0,
               stopped |-> FALSE, said |-> FALSE, clean |-> FALSE, shorts |-> 0, quiet |-> quiet]
    BY <2>1, <2>3 DEF Board
  <2> QED BY <2>2, <2>4 DEF DevRecord
<1> QED BY <1>1, <1>2, <1>3 DEF Types

LEMMA TypesStep == Types /\ [Next]_vars => Types'
<1> SUFFICES ASSUME Types, [Next]_vars PROVE Types' OBVIOUS
<1>1. CASE Arm BY <1>1, ArmEffect
<1>2. CASE Callback BY <1>2, CallbackEffect DEF Callback
<1>3. CASE Worker BY <1>3, WorkerEffect
<1>4. CASE EndStream BY <1>4, EndStreamEffect
<1>5. CASE EndCancel BY <1>5, EndCancelEffect
<1>6. CASE Read BY <1>6, ReadEffect
<1>7. CASE Answer
  <2>1. CASE wire.done[1].who = "stream" BY <1>7, <2>1, AnswerStream, CallbackEffect
  <2>2. CASE wire.done[1].who # "stream" BY <1>7, <2>2, AnswerReadEffect
  <2> QED BY <2>1, <2>2
<1>8. CASE Verdict BY <1>8, VerdictEffect
<1>9. CASE Packet
  <2>1. PICK p \in Data : Sent(p) /\ UNCHANGED host /\ wire' \in WireRecord BY <1>9, PacketEffect
  <2> QED BY <2>1, SentType DEF Types
<1>10. CASE Stop BY <1>10, StopEffect
<1>11. CASE TimedOut BY <1>11, TimedOutEffect DEF Types
<1>12. CASE Done \/ UNCHANGED vars BY <1>12 DEF Done, vars, Types
<1> QED
  BY <1>1, <1>2, <1>3, <1>4, <1>5, <1>6, <1>7, <1>8, <1>9, <1>10, <1>11, <1>12 DEF Next, Host

----------------------------------------------------------------------------
(* The queues, element by element.                                         *)

LEMMA MovedElements ==
  ASSUME Types, wire.flight # <<>>, NEW r \in Results, Moved(r)
  PROVE  /\ Len(wire.flight) \in Nat \ {0} /\ Len(wire.done) \in Nat
         /\ Len(wire'.flight) = Len(wire.flight) - 1
         /\ \A i \in 1 .. Len(wire.flight) - 1 : wire'.flight[i] = wire.flight[i + 1]
         /\ Len(wire'.done) = Len(wire.done) + 1 /\ wire'.done[Len(wire.done) + 1] = r
         /\ \A i \in 1 .. Len(wire.done) : wire'.done[i] = wire.done[i]
<1>1. wire.flight \in Seq(Requests) /\ wire.done \in Seq(Results) BY WireTypes
<1>2. wire'.flight = Tail(wire.flight) /\ wire'.done = Append(wire.done, r) BY DEF Moved
<1> QED BY <1>1, <1>2, TailElements, AppendElements

LEMMA PoppedElements ==
  ASSUME Types, wire.done # <<>>, wire'.done = Tail(wire.done)
  PROVE  /\ Len(wire.done) \in Nat \ {0} /\ Len(wire'.done) = Len(wire.done) - 1
         /\ \A i \in 1 .. Len(wire.done) - 1 : wire'.done[i] = wire.done[i + 1]
         /\ wire.done[1] \in Results
<1>1. wire.done \in Seq(Results) BY WireTypes
<1> QED BY <1>1, TailElements

LEMMA AppendedElements ==
  ASSUME Types, NEW r \in Requests, wire'.flight = Append(wire.flight, r)
  PROVE  /\ Len(wire.flight) \in Nat /\ Len(wire'.flight) = Len(wire.flight) + 1
         /\ wire'.flight[Len(wire.flight) + 1] = r
         /\ \A i \in 1 .. Len(wire.flight) : wire'.flight[i] = wire.flight[i]
<1>1. wire.flight \in Seq(Requests) BY WireTypes
<1> QED BY <1>1, AppendElements

\* Packets of a quiet endpoint are those of this run.
LEMMA QuietPacket ==
  ASSUME Types, BoardInv, dev.quiet, NEW p \in Data, p \in NextPackets, Sent(p)
  PROVE  /\ ~dev.said /\ dev.sent \in Nat /\ dev'.sent \in Nat /\ dev'.said \in BOOLEAN
         /\ \/ /\ p = <<Status("own")>> /\ dev'.said /\ dev'.sent = dev.sent
            \/ /\ p = <<<<"own", dev.sent + 1>>>> /\ ~dev'.said /\ dev'.sent = dev.sent + 1
            \/ /\ p = <<<<"own", dev.sent + 1>>, <<"own", dev.sent + 2>>>>
               /\ ~dev'.said /\ dev'.sent = dev.sent + 2
<1>1. dev \in DevRecord /\ dev.sent \in Nat /\ dev.left = <<>> /\ dev.replied /\ dev.says
      /\ dev.shorts \in Nat /\ dev.said \in BOOLEAN
  BY DEF Types, DevRecord, BoardInv
<1>2. ~dev.said BY <1>1 DEF NextPackets
<1> DEFINE one == <<<<"own", dev.sent + 1>>>>
           two == <<<<"own", dev.sent + 1>>, <<"own", dev.sent + 2>>>>
<1>3. p \in {<<Status("own")>>, one, two} BY <1>1 DEF NextPackets
<1>4. CASE p = <<Status("own")>>
  BY <1>1, <1>2, <1>4 DEF Sent, DevRecord
<1>5. CASE p = one
  <2>1. p # <<Status("own")>> /\ p \notin {<<Accept("own")>>, <<Reject("own")>>} /\ Len(p) = 1
    BY <1>1, <1>5 DEF Status, Accept, Reject
  <2>2. dev'.sent = dev.sent + 1 /\ dev'.said = dev.said BY <1>1, <2>1 DEF Sent, DevRecord
  <2>3. dev'.sent \in Nat /\ dev'.said \in BOOLEAN /\ ~dev'.said BY <1>1, <1>2, <2>2
  <2> QED BY <1>1, <1>2, <1>5, <2>2, <2>3
<1>6. CASE p = two
  <2>1. Len(p) = 2 BY <1>6
  <2>2. p # <<Status("own")>> /\ p \notin {<<Accept("own")>>, <<Reject("own")>>} BY <2>1
  <2>3. dev'.sent = dev.sent + 2 /\ dev'.said = dev.said BY <1>1, <2>1, <2>2 DEF Sent, DevRecord
  <2>4. dev'.sent \in Nat /\ dev'.said \in BOOLEAN /\ ~dev'.said BY <1>1, <1>2, <2>3
  <2> QED BY <1>1, <1>2, <1>6, <2>3, <2>4
<1> QED BY <1>3, <1>4, <1>5, <1>6

\* They come at the end of what was delivered, and move nothing of it.
LEMMA PacketSits ==
  ASSUME Types, BoardInv, dev.quiet, NEW p \in Data, p \in NextPackets, Sent(p),
         NEW q \in Nat, q = Delivered
  PROVE  Sits(p, q, dev') /\ Delivered' = q + Len(p)
<1>1. /\ ~dev.said /\ dev.sent \in Nat /\ dev'.sent \in Nat /\ dev'.said \in BOOLEAN
      /\ \/ /\ p = <<Status("own")>> /\ dev'.said /\ dev'.sent = dev.sent
         \/ /\ p = <<<<"own", dev.sent + 1>>>> /\ ~dev'.said /\ dev'.sent = dev.sent + 1
         \/ /\ p = <<<<"own", dev.sent + 1>>, <<"own", dev.sent + 2>>>>
            /\ ~dev'.said /\ dev'.sent = dev.sent + 2
  BY QuietPacket
<1>2. q = dev.sent /\ Delivered' = dev'.sent + (IF dev'.said THEN 1 ELSE 0) BY <1>1 DEF Delivered
<1>3. CASE p = <<Status("own")>> /\ dev'.said /\ dev'.sent = dev.sent
  <2>1. Len(p) = 1 /\ p[1] = Status("own") BY <1>3
  <2> QED BY <1>1, <1>2, <1>3, <2>1 DEF Sits
<1>4. CASE p = <<<<"own", dev.sent + 1>>>> /\ ~dev'.said /\ dev'.sent = dev.sent + 1
  <2>1. Len(p) = 1 /\ p[1] = <<"own", dev.sent + 1>> BY <1>4
  <2> QED BY <1>1, <1>2, <1>4, <2>1 DEF Sits
<1>5. CASE /\ p = <<<<"own", dev.sent + 1>>, <<"own", dev.sent + 2>>>>
           /\ ~dev'.said /\ dev'.sent = dev.sent + 2
  <2>1. Len(p) = 2 /\ p[1] = <<"own", dev.sent + 1>> /\ p[2] = <<"own", dev.sent + 2>> BY <1>5
  <2>2. \A i \in 1 .. Len(p) : i = 1 \/ i = 2 BY <2>1
  <2> QED BY <1>1, <1>2, <1>5, <2>1, <2>2 DEF Sits
<1> QED BY <1>1, <1>3, <1>4, <1>5

LEMMA PacketGrows ==
  ASSUME Types, BoardInv, dev.quiet, NEW p \in Data, p \in NextPackets, Sent(p)
  PROVE  /\ ~dev.said /\ dev.sent \in Nat /\ dev'.sent \in Nat /\ dev.sent <= dev'.sent
         /\ Lacks(p, Status("old"))
<1>1. /\ ~dev.said /\ dev.sent \in Nat /\ dev'.sent \in Nat /\ dev.sent <= dev'.sent
  BY QuietPacket
<1>2. p \in {<<Status("own")>>, <<<<"own", dev.sent + 1>>>>, <<<<"own", dev.sent + 1>>, <<"own", dev.sent + 2>>>>}
  BY QuietPacket
<1>3. \A k \in Int : <<"own", k>> # Status("old") BY DEF Status
<1>4. \A k \in 1 .. Len(p) : p[k] \in {Status("own"), <<"own", dev.sent + 1>>, <<"own", dev.sent + 2>>}
  BY <1>2
<1>5. Status("own") # Status("old") /\ <<"own", dev.sent + 1>> # Status("old")
      /\ <<"own", dev.sent + 2>> # Status("old")
  BY <1>1, <1>3 DEF Status
<1> QED BY <1>1, <1>4, <1>5 DEF Lacks

LEMMA SitsGrows ==
  ASSUME NEW d, NEW e, d.sent \in Nat, e.sent \in Nat, d.sent <= e.sent, ~d.said,
         NEW data \in Data, NEW q \in Nat, Sits(data, q, d)
  PROVE  Sits(data, q, e)
<1>1. Len(data) \in Nat BY DEF Data
<1> QED BY <1>1 DEF Sits

LEMMA SitsConcat ==
  ASSUME NEW d, NEW a \in Data, NEW b \in Data, NEW q \in Nat, NEW c, c = a \o b,
         NEW m \in Nat, m = q + Len(a), Sits(a, q, d), Sits(b, m, d)
  PROVE  c \in Data /\ Sits(c, q, d) /\ Len(c) = Len(a) + Len(b)
<1>1. /\ c \in Data /\ Len(c) = Len(a) + Len(b) /\ Len(a) \in Nat /\ Len(b) \in Nat
      /\ \A k \in 1 .. Len(a) : c[k] = a[k]
      /\ \A k \in 1 .. Len(b) : c[Len(a) + k] = b[k]
  BY ConcatElements DEF Data
<1>2. ASSUME NEW i \in 1 .. Len(c)
      PROVE  \/ c[i] = <<"own", q + i>> /\ q + i <= d.sent
             \/ c[i] = Status("own") /\ q + i = d.sent + 1 /\ d.said
  <2>1. CASE i \in 1 .. Len(a) BY <1>1, <2>1 DEF Sits
  <2>2. CASE i \notin 1 .. Len(a)
    <3>1. PICK k \in 1 .. Len(b) : i = Len(a) + k
      <4>1. i - Len(a) \in 1 .. Len(b) /\ i = Len(a) + (i - Len(a)) BY <1>1, <2>2
      <4> QED BY <4>1
    <3>2. c[i] = b[k] /\ q + i = (q + Len(a)) + k BY <1>1, <3>1
    <3> QED BY <3>1, <3>2 DEF Sits
  <2> QED BY <2>1, <2>2
<1> QED BY <1>1, <1>2 DEF Sits

LEMMA LacksConcat ==
  ASSUME NEW u, NEW a \in Data, NEW b \in Data, NEW c, c = a \o b, Lacks(a, u), Lacks(b, u)
  PROVE  Lacks(c, u)
<1>1. /\ c \in Data /\ Len(c) = Len(a) + Len(b) /\ Len(a) \in Nat /\ Len(b) \in Nat
      /\ \A k \in 1 .. Len(a) : c[k] = a[k]
      /\ \A k \in 1 .. Len(b) : c[Len(a) + k] = b[k]
  BY ConcatElements DEF Data
<1>2. ASSUME NEW i \in 1 .. Len(c) PROVE c[i] # u
  <2>1. CASE i \in 1 .. Len(a) BY <1>1, <2>1 DEF Lacks
  <2>2. CASE i \notin 1 .. Len(a)
    <3>1. i - Len(a) \in 1 .. Len(b) /\ i = Len(a) + (i - Len(a)) BY <1>1, <2>2
    <3> QED BY <1>1, <3>1 DEF Lacks
  <2> QED BY <2>1, <2>2
<1> QED BY <1>2 DEF Lacks

----------------------------------------------------------------------------
(* The parts of the invariant that say what can be where.                  *)

\* The two handlers that call complete().
Completes ==
  /\ host.at \in {"stream", "cancel", "drain", "status"} /\ wire.done # <<>> /\ UNCHANGED dev
  /\ host.at = "status" => wire.done[1].who = "stream"
  /\ Complete(Head(wire.done), [wire EXCEPT !.done = Tail(@)])

AnswersRead == Answer /\ wire.done[1].who # "stream"

LEMMA NextCases ==
  ASSUME Types, [Next]_vars
  PROVE  \/ Arm \/ Completes \/ Worker \/ EndStream \/ EndCancel \/ Read \/ AnswersRead
         \/ Verdict \/ Packet \/ Stop \/ TimedOut \/ UNCHANGED vars
<1>1. Callback => Completes BY DEF Callback, Completes
<1>2. Answer => Completes \/ AnswersRead BY AnswerStream DEF Completes, AnswersRead
<1> QED BY <1>1, <1>2 DEF Next, Host, Done

LEMMA CompletesEffect ==
  ASSUME Types, Completes
  PROVE  /\ Types' /\ Aside /\ UNCHANGED dev /\ wire'.done = Tail(wire.done)
         /\ \/ wire'.flight = wire.flight
            \/ \E r \in Requests : r.got = <<>> /\ r.who = "stream" /\ wire'.flight = Append(wire.flight, r)
         /\ \/ /\ host'.error
               /\ host'.captured = host.captured /\ host'.received = host.received
               /\ host'.samples = host.samples
            \/ wire.done[1].how = "ok" /\ Taken(wire.done[1])
  BY CallbackEffect DEF Completes

LEMMA BoardStep == Types /\ BoardInv /\ [Next]_vars => BoardInv'
<1> SUFFICES ASSUME Types, BoardInv, [Next]_vars PROVE BoardInv' OBVIOUS
<1>1. CASE Arm BY <1>1, ArmEffect DEF BoardInv
<1>2. CASE Completes BY <1>2, CompletesEffect DEF BoardInv, Completes, Aside
<1>3. CASE Worker BY <1>3, WorkerEffect DEF BoardInv, Worker
<1>4. CASE EndStream BY <1>4, EndStreamEffect DEF BoardInv
<1>5. CASE EndCancel BY <1>5, EndCancelEffect DEF BoardInv
<1>6. CASE Read BY <1>6, ReadEffect DEF BoardInv
<1>7. CASE AnswersRead BY <1>7, AnswerReadEffect DEF BoardInv, AnswersRead
<1>8. CASE Verdict BY <1>8, VerdictEffect DEF BoardInv
<1>9. CASE Packet
  <2>1. PICK p \in Data : Sent(p) /\ UNCHANGED host /\ wire.flight # <<>> BY <1>9, PacketEffect
  <2> QED BY <2>1, SentType DEF BoardInv
<1>10. CASE Stop BY <1>10, StopEffect DEF BoardInv
<1>11. CASE TimedOut BY <1>11, TimedOutEffect DEF BoardInv
<1>12. CASE UNCHANGED vars BY <1>12 DEF vars, BoardInv
<1> QED
  BY <1>1, <1>2, <1>3, <1>4, <1>5, <1>6, <1>7, <1>8, <1>9, <1>10, <1>11, <1>12, NextCases

\* What the wire does in every step but Arm and EndStream: the head has ended, or it has received
\* more, or a request is added, or a result is taken.
LEMMA FirstOnlyStep == Types /\ FirstOnly /\ [Next]_vars => FirstOnly'
<1> SUFFICES ASSUME Types, FirstOnly, [Next]_vars PROVE FirstOnly' OBVIOUS
<1>1. CASE Arm BY <1>1, ArmEffect DEF FirstOnly
<1>2. ASSUME NEW r \in Requests, r.got = <<>>, wire'.flight = Append(wire.flight, r) PROVE FirstOnly'
  BY <1>2, AppendedElements DEF FirstOnly
<1>3. ASSUME wire.flight # <<>>, NEW r \in Results, Moved(r) PROVE FirstOnly'
  BY <1>3, MovedElements DEF FirstOnly
<1>4. ASSUME wire'.flight \in {wire.flight, <<>>} PROVE FirstOnly'
  BY <1>4, WireTypes DEF FirstOnly
<1>5. CASE Packet
  <2>1. PICK got \in Data :
          /\ wire.flight # <<>>
          /\ \/ Grown(got)
             \/ \E r \in Results : Moved(r)
    BY <1>5, PacketEffect
  <2>2. CASE Grown(got) BY <2>2, WireTypes DEF FirstOnly, Grown
  <2> QED BY <1>3, <2>1, <2>2
<1>6. CASE TimedOut BY <1>3, <1>6, TimedOutEffect
<1>7. CASE Completes BY <1>2, <1>4, <1>7, CompletesEffect
<1>8. CASE Read BY <1>2, <1>8, ReadEffect
<1>9. CASE EndStream BY <1>4, <1>9, EndStreamEffect
<1>10. CASE Worker \/ EndCancel \/ AnswersRead \/ Verdict \/ Stop \/ UNCHANGED vars
  BY <1>4, <1>10, WorkerEffect, EndCancelEffect, AnswerReadEffect, VerdictEffect, StopEffect
  DEF vars, AnswersRead
<1> QED BY <1>1, <1>5, <1>6, <1>7, <1>8, <1>9, <1>10, NextCases

LEMMA ReadsStep == Types /\ BoardInv /\ Reads /\ [Next]_vars => Reads'
<1> SUFFICES ASSUME Types, BoardInv, Reads, [Next]_vars PROVE Reads' OBVIOUS
<1>1. CASE Arm
  <2>1. wire.done = <<>> BY <1>1, ArmEffect DEF BoardInv
  <2> QED BY <1>1, <2>1, ArmEffect DEF Reads
<1>2. ASSUME wire.flight # <<>>, NEW r \in Results, Moved(r), UNCHANGED host PROVE Reads'
  <2>1. r.who = wire.flight[1].who BY <1>2 DEF Moved
  <2>2. ASSUME NEW w, \A i \in 1 .. Len(wire.flight) : wire.flight[i].who = w,
               \A i \in 1 .. Len(wire.done) : wire.done[i].who = w
        PROVE  /\ \A i \in 1 .. Len(wire'.flight) : wire'.flight[i].who = w
               /\ \A i \in 1 .. Len(wire'.done) : wire'.done[i].who = w
    <3>1. 1 \in 1 .. Len(wire.flight) BY <1>2, MovedElements
    <3>2. r.who = w BY <2>1, <2>2, <3>1
    <3>3. ASSUME NEW i \in 1 .. Len(wire'.flight) PROVE wire'.flight[i].who = w
      <4>1. i \in 1 .. Len(wire.flight) - 1 /\ i + 1 \in 1 .. Len(wire.flight) BY <1>2, MovedElements
      <4>2. wire'.flight[i] = wire.flight[i + 1] BY <1>2, <4>1, MovedElements
      <4> QED BY <2>2, <4>1, <4>2
    <3>4. \A i \in 1 .. Len(wire.done) + 1 : wire'.done[i].who = w
      BY <1>2, <2>2, <3>2, MovedElements
    <3> QED BY <1>2, <3>3, <3>4, MovedElements
  <2>3. host'.at = host.at /\ host'.error = host.error BY <1>2
  <2> QED BY <2>2, <2>3 DEF Reads
<1>3. CASE Packet
  <2>1. PICK got \in Data :
          /\ wire.flight # <<>> /\ UNCHANGED host
          /\ \/ Grown(got)
             \/ \E r \in Results : Moved(r)
    BY <1>3, PacketEffect
  <2>2. CASE Grown(got)
    <3>1. wire'.done = wire.done /\ Len(wire'.flight) = Len(wire.flight)
          /\ \A i \in 1 .. Len(wire.flight) : wire'.flight[i].who = wire.flight[i].who
      BY <2>2, WireTypes DEF Grown
    <3> QED BY <2>1, <3>1 DEF Reads
  <2> QED BY <1>2, <2>1, <2>2
<1>4. CASE TimedOut BY <1>2, <1>4, TimedOutEffect
<1>5. CASE Completes
  <2>1. host'.at = host.at /\ host.at \in {"stream", "cancel", "drain", "status"}
        /\ (host.at = "status" => wire.done[1].who = "stream") /\ wire.done # <<>>
    BY <1>5, CompletesEffect DEF Completes, Aside
  <2>2. host.error => host'.error BY <1>5, CompletesEffect DEF Taken
  <2>3. host.at = "status" => host.error
    <3>1. 1 \in 1 .. Len(wire.done) BY <2>1, WireTypes
    <3> QED BY <2>1, <3>1 DEF Reads
  <2>4. CASE host.at = "stream"
    <3>1. \A i \in 1 .. Len(wire'.done) : wire'.done[i].who = "stream"
      BY <1>5, <2>1, <2>4, CompletesEffect, PoppedElements DEF Reads
    <3>2. \A i \in 1 .. Len(wire'.flight) : wire'.flight[i].who = "stream"
      <4>1. CASE wire'.flight = wire.flight BY <2>4, <4>1 DEF Reads
      <4>2. ASSUME NEW r \in Requests, r.who = "stream", wire'.flight = Append(wire.flight, r)
            PROVE  \A i \in 1 .. Len(wire'.flight) : wire'.flight[i].who = "stream"
        BY <2>4, <4>2, AppendedElements DEF Reads
      <4> QED BY <1>5, <4>1, <4>2, CompletesEffect
    <3> QED BY <2>1, <2>4, <3>1, <3>2 DEF Reads
  <2>5. CASE host.at # "stream" BY <2>1, <2>2, <2>3, <2>5 DEF Reads
  <2> QED BY <2>4, <2>5
<1>6. CASE Read
  <2>1. PICK r \in Requests : r.who = "read" /\ wire'.flight = Append(wire.flight, r)
    BY <1>6, ReadEffect
  <2>2. wire'.done = wire.done /\ UNCHANGED host /\ host.at \in {"drain", "status"} BY <1>6, ReadEffect
  <2> QED BY <2>1, <2>2, AppendedElements DEF Reads
<1>7. CASE EndStream BY <1>7, EndStreamEffect DEF Reads
<1>8. CASE AnswersRead
  <2>1. /\ wire.done # <<>> /\ wire'.flight = wire.flight /\ wire'.done = Tail(wire.done)
        /\ host'.error = host.error /\ host.at \in {"drain", "status"}
        /\ (host.at = "status" => host'.at \in {"status", "verdict", "exit"})
        /\ (host.at = "drain" => host'.at \in {"drain", "status", "exit"})
    BY <1>8, AnswerReadEffect DEF AnswersRead
  <2> QED BY <2>1, PoppedElements DEF Reads
<1>9. CASE EndCancel BY <1>9, EndCancelEffect DEF Reads
<1>10. CASE Verdict BY <1>10, VerdictEffect DEF Reads
<1>11. CASE Worker BY <1>11, WorkerEffect DEF Reads
<1>12. CASE Stop \/ UNCHANGED vars BY <1>12, StopEffect DEF Reads, vars
<1> QED
  BY <1>1, <1>3, <1>4, <1>5, <1>6, <1>7, <1>8, <1>9, <1>10, <1>11, <1>12, NextCases

LEMMA TakenElements ==
  ASSUME Types, wire.done # <<>>, Taken(wire.done[1])
  PROVE  /\ wire.done[1].got \in Data /\ Len(wire.done[1].got) \in Nat /\ Len(host.captured) \in Nat
         /\ Len(host'.captured) = Len(host.captured) + Len(wire.done[1].got)
         /\ \A k \in 1 .. Len(host.captured) : host'.captured[k] = host.captured[k]
         /\ \A k \in 1 .. Len(wire.done[1].got) :
              host'.captured[Len(host.captured) + k] = wire.done[1].got[k]
<1> DEFINE got == wire.done[1].got
<1>1. got \in Data /\ Len(got) \in Nat BY WireTypes, TailElements, ResultFields
<1>2. host.captured \in Data BY HostTypes
<1>3. host'.captured = host.captured \o got BY DEF Taken
<1> HIDE DEF got
<1>4. /\ Len(host'.captured) = Len(host.captured) + Len(got)
      /\ \A k \in 1 .. Len(host.captured) : host'.captured[k] = host.captured[k]
      /\ \A k \in 1 .. Len(got) : host'.captured[Len(host.captured) + k] = got[k]
  BY <1>1, <1>2, <1>3, ConcatElements DEF Data
<1>5. Len(host.captured) \in Nat BY <1>2 DEF Data
<1> QED BY <1>1, <1>4, <1>5 DEF got

LEMMA PhaseStep == Types /\ Reads /\ Phase /\ [Next]_vars => Phase'
<1> SUFFICES ASSUME Types, Reads, Phase, [Next]_vars PROVE Phase' OBVIOUS
<1>0. host.at # "exit" => host.exit = -1 BY DEF Phase
<1>1. CASE Arm BY <1>1, ArmEffect DEF Phase, SameData
<1>2. CASE Completes
  <2>1. /\ host'.at = host.at /\ host'.exit = host.exit /\ host'.status = host.status
        /\ host.at # "exit" /\ wire.done # <<>>
    BY <1>2, CompletesEffect DEF Completes, Aside
  <2>2. host'.received = Len(host'.captured)
    <3>1. CASE host'.captured = host.captured /\ host'.received = host.received BY <3>1 DEF Phase
    <3>2. CASE Taken(wire.done[1])
      <4>1. Len(host'.captured) = Len(host.captured) + Len(wire.done[1].got) BY <2>1, <3>2, TakenElements
      <4>2. host'.received = host.received + Len(wire.done[1].got) BY <3>2 DEF Taken
      <4> QED BY <4>1, <4>2 DEF Phase
    <3> QED BY <1>2, <3>1, <3>2, CompletesEffect
  <2> QED BY <1>0, <2>1, <2>2 DEF Phase
<1>3. CASE Worker BY <1>3, WorkerEffect DEF Phase, SameData
<1>4. CASE EndStream BY <1>0, <1>4, EndStreamEffect DEF Phase, SameData
<1>5. CASE EndCancel BY <1>0, <1>5, EndCancelEffect DEF Phase, SameData
<1>6. CASE AnswersRead
  <2>1. /\ SameData /\ host.at \in {"drain", "status"} /\ host'.error = host.error
        /\ host'.exit \in {host.exit, 1, 2} /\ (host'.exit # host.exit => host'.at = "exit")
        /\ (host.at = "status" => host'.at \in {"status", "verdict", "exit"})
        /\ (host.at = "drain" => host'.at \in {"drain", "status", "exit"})
    BY <1>6, AnswerReadEffect DEF AnswersRead
  <2> QED BY <1>0, <2>1 DEF Phase, SameData
<1>7. CASE Verdict
  <2>1. /\ SameData /\ host'.at = "exit" /\ host'.error = host.error /\ host'.status = host.status
        /\ (host'.exit = 0 => Good /\ ~host.error)
    BY <1>7, VerdictEffect
  <2>2. Good => host.received = host.total
                /\ \E k \in 1 .. Len(host.status) : host.status[k] \in {Status("old"), Status("own")}
    <3>1. DOMAIN host.status = 1 .. Len(host.status) BY HostTypes DEF Data
    <3> QED BY <3>1 DEF Good, Range
  <2> QED BY <2>1, <2>2 DEF Phase, SameData
<1>8. CASE Packet \/ TimedOut \/ Stop \/ Read \/ UNCHANGED vars
  <2>1. UNCHANGED host BY <1>8, PacketEffect, TimedOutEffect, StopEffect, ReadEffect DEF vars
  <2> QED BY <2>1 DEF Phase
<1> QED BY <1>1, <1>2, <1>3, <1>4, <1>5, <1>6, <1>7, <1>8, NextCases

\* The validated blocks and the samples stay where they were in what is captured.
LEMMA CheckingSame ==
  ASSUME Checking, host'.captured = host.captured, host'.samples = host.samples,
         host'.checked = host.checked
  PROVE  Checking'
  BY DEF Checking

LEMMA CutStays ==
  ASSUME NEW c \in Data, NEW d \in Data, Len(c) <= Len(d), \A k \in 1 .. Len(c) : d[k] = c[k],
         NEW sample \in Samples, Cut(sample, c)
  PROVE  Cut(sample, d)
<1>1. sample.start \in Nat /\ Len(sample.data) \in Nat /\ Len(c) \in Nat /\ Len(d) \in Nat
  BY DEF Samples, Data
<1>2. sample.start + Len(sample.data) <= Len(c)
      /\ \A j \in 1 .. Len(sample.data) : sample.data[j] = c[sample.start + j]
  BY DEF Cut
<1>3. ASSUME NEW j \in 1 .. Len(sample.data) PROVE sample.data[j] = d[sample.start + j]
  <2>1. sample.start + j \in 1 .. Len(c) BY <1>1, <1>2
  <2> QED BY <1>2, <2>1
<1> QED BY <1>1, <1>2, <1>3 DEF Cut

LEMMA AlignedStays ==
  ASSUME NEW c \in Data, NEW d \in Data, Len(c) <= Len(d), \A k \in 1 .. Len(c) : d[k] = c[k],
         NEW b, Aligned(b, c)
  PROVE  Aligned(b, d)
<1>1. Len(c) \in Nat /\ Len(d) \in Nat BY DEF Data
<1>2. PICK k \in 1 .. Len(c) : b[1] = c[k] /\ (k - 1) % Block = 0 BY DEF Aligned
<1>3. k \in 1 .. Len(d) /\ d[k] = c[k] BY <1>1, <1>2
<1> QED BY <1>2, <1>3 DEF Aligned

LEMMA BlocksAligned ==
  ASSUME NEW captured \in Data, NEW sample \in Samples, Cut(sample, captured),
         NEW b \in BlocksFrom(sample.start, sample.data)
  PROVE  Aligned(b, captured)
<1>1. sample.start \in Nat /\ sample.data \in Data /\ Len(sample.data) \in Nat /\ Len(captured) \in Nat
  BY DEF Samples, Data
<1>2. PICK j \in 1 .. Len(sample.data) : b[1] = sample.data[j] /\ (sample.start + j - 1) % Block = 0
  BY <1>1, BlocksStart
<1>3. sample.data[j] = captured[sample.start + j] /\ sample.start + j \in 1 .. Len(captured)
  BY <1>1, <1>2 DEF Cut
<1>4. PICK k \in 1 .. Len(captured) : k = sample.start + j BY <1>3
<1>5. k - 1 = sample.start + j - 1 BY <1>1, <1>4
<1>6. (k - 1) % Block = 0 BY <1>2, <1>5
<1>7. b[1] = captured[k] BY <1>2, <1>3, <1>4
<1> QED BY <1>4, <1>6, <1>7 DEF Aligned

LEMMA CapturedAligned ==
  ASSUME Types, NEW b \in BlocksFrom(0, host.captured)
  PROVE  Aligned(b, host.captured)
<1>1. host.captured \in Data /\ Len(host.captured) \in Nat BY HostTypes DEF Data
<1>2. PICK j \in 1 .. Len(host.captured) : b[1] = host.captured[j] /\ (0 + j - 1) % Block = 0
  BY <1>1, BlocksStart
<1>3. 0 + j - 1 = j - 1 BY <1>2
<1> QED BY <1>2, <1>3 DEF Aligned

LEMMA CheckingStep == Types /\ Phase /\ Checking /\ [Next]_vars => Checking'
<1> SUFFICES ASSUME Types, Phase, Checking, [Next]_vars PROVE Checking' OBVIOUS
<1>0. /\ host.samples \in Seq(Samples) /\ Len(host.samples) \in Nat /\ host.captured \in Data
      /\ \A i \in 1 .. Len(host.samples) : host.samples[i] \in Samples
  BY HostTypes
<1>1. CASE Completes
  <2>1. host'.checked = host.checked /\ wire.done # <<>> BY <1>1, CompletesEffect DEF Completes, Aside
  <2>2. CASE host'.captured = host.captured /\ host'.samples = host.samples BY <2>1, <2>2, CheckingSame
  <2>3. CASE Taken(wire.done[1])
    <3>1. PICK got \in Data : got = wire.done[1].got BY <2>1, <2>3, TakenElements
    <3>2. PICK c \in Data : c = host.captured BY <1>0
    <3>3. PICK d \in Data : d = host'.captured
      BY <1>1, CompletesEffect, HostTypes DEF Types, HostRecord
    <3>4. /\ Len(got) \in Nat /\ Len(c) \in Nat /\ Len(d) = Len(c) + Len(got)
          /\ \A k \in 1 .. Len(c) : d[k] = c[k]
          /\ \A k \in 1 .. Len(got) : d[Len(c) + k] = got[k]
      BY <2>1, <2>3, <3>1, <3>2, <3>3, TakenElements
    <3>5. Len(c) <= Len(d) BY <3>4
    <3>6. PICK sample \in Samples : sample = [start |-> Len(c), data |-> got] BY <3>4 DEF Samples
    <3>7. host'.samples \in {host.samples, Append(host.samples, sample)}
      <4>1. host.received = Len(c) BY <3>2 DEF Phase
      <4>2. host'.samples \in {host.samples, Append(host.samples, [start |-> host.received, data |-> got])}
        BY <2>3, <3>1, SampledType DEF Taken
      <4> QED BY <3>6, <4>1, <4>2
    <3>8. Cut(sample, d) BY <3>4, <3>6 DEF Cut
    <3>9. \A i \in 1 .. Len(host.samples) : Cut(host.samples[i], d)
      BY <1>0, <3>2, <3>4, <3>5, CutStays DEF Checking
    <3>10. \A i \in 1 .. Len(host'.samples) : Cut(host'.samples[i], d)
      <4>1. CASE host'.samples = host.samples BY <3>9, <4>1
      <4>2. CASE host'.samples = Append(host.samples, sample)
        <5>1. /\ Len(host'.samples) = Len(host.samples) + 1 /\ host'.samples[Len(host.samples) + 1] = sample
              /\ \A i \in 1 .. Len(host.samples) : host'.samples[i] = host.samples[i]
          BY <1>0, <4>2, AppendElements
        <5>2. \A i \in 1 .. Len(host'.samples) : i = Len(host.samples) + 1 \/ i \in 1 .. Len(host.samples)
          BY <1>0, <5>1
        <5> QED BY <3>8, <3>9, <5>1, <5>2
      <4> QED BY <3>7, <4>1, <4>2
    <3>11. \A b \in host'.checked : Aligned(b, d) BY <2>1, <3>2, <3>4, <3>5, AlignedStays DEF Checking
    <3> QED BY <3>3, <3>10, <3>11 DEF Checking
  <2> QED BY <1>1, <2>2, <2>3, CompletesEffect
<1>2. CASE Worker
  <2>1. /\ SameData /\ host.samples # <<>> /\ host'.samples = Tail(host.samples)
        /\ host'.checked = host.checked \cup BlocksFrom(host.samples[1].start, host.samples[1].data)
    BY <1>2, WorkerEffect
  <2>2. /\ host.samples[1] \in Samples /\ Len(host'.samples) = Len(host.samples) - 1
        /\ \A i \in 1 .. Len(host.samples) - 1 : host'.samples[i] = host.samples[i + 1]
        /\ Len(host.samples) \in Nat \ {0}
    BY <1>0, <2>1, TailElements
  <2>3. PICK sample \in Samples : sample = host.samples[1] BY <2>2
  <2>4. Cut(sample, host.captured) BY <2>2, <2>3 DEF Checking
  <2>5. \A b \in BlocksFrom(sample.start, sample.data) : Aligned(b, host.captured)
    BY <1>0, <2>4, BlocksAligned
  <2>6. \A b \in host'.checked : Aligned(b, host.captured) BY <2>1, <2>3, <2>5 DEF Checking
  <2>7. ASSUME NEW i \in 1 .. Len(host'.samples) PROVE Cut(host'.samples[i], host.captured)
    <3>1. i \in 1 .. Len(host.samples) - 1 /\ i + 1 \in 1 .. Len(host.samples) BY <2>2
    <3>2. host'.samples[i] = host.samples[i + 1] BY <2>2, <3>1
    <3> QED BY <3>1, <3>2 DEF Checking
  <2> QED BY <2>1, <2>6, <2>7 DEF Checking, SameData
<1>3. CASE EndStream
  <2>1. SameData BY <1>3, EndStreamEffect
  <2>2. CASE host'.samples = host.samples /\ host'.checked = host.checked
    BY <2>1, <2>2, CheckingSame DEF SameData
  <2>3. CASE host'.samples = <<>> /\ host'.checked = Validated
    <3>1. \A sample \in Range(host.samples) : sample \in Samples /\ Cut(sample, host.captured)
      BY <1>0 DEF Range, Checking
    <3>2. \A sample \in Range(host.samples) : \A b \in BlocksFrom(sample.start, sample.data) :
            Aligned(b, host.captured)
      BY <1>0, <3>1, BlocksAligned
    <3>3. \A b \in Validated : Aligned(b, host.captured)
      BY <3>2, CapturedAligned DEF Validated, Checking
    <3>4. host'.captured = host.captured BY <2>1 DEF SameData
    <3>5. \A b \in host'.checked : Aligned(b, host'.captured) BY <2>3, <3>3, <3>4
    <3>6. Len(host'.samples) = 0 BY <2>3
    <3> QED BY <3>5, <3>6 DEF Checking
  <2> QED BY <1>3, <2>2, <2>3, EndStreamEffect
<1>4. CASE Arm BY <1>4, ArmEffect, CheckingSame DEF SameData
<1>5. CASE EndCancel BY <1>5, EndCancelEffect, CheckingSame DEF SameData
<1>6. CASE AnswersRead BY <1>6, AnswerReadEffect, CheckingSame DEF SameData, AnswersRead
<1>7. CASE Verdict BY <1>7, VerdictEffect, CheckingSame DEF SameData
<1>8. CASE Packet \/ TimedOut \/ Stop \/ Read \/ UNCHANGED vars
  <2>1. UNCHANGED host BY <1>8, PacketEffect, TimedOutEffect, StopEffect, ReadEffect DEF vars
  <2> QED BY <2>1, CheckingSame
<1> QED BY <1>1, <1>2, <1>3, <1>4, <1>5, <1>6, <1>7, <1>8, NextCases

----------------------------------------------------------------------------
(* Where the data of the stream are.                                       *)

LEMMA TwoLeft ==
  ASSUME NEW m \in Nat, m # 0, m - 1 # 0
  PROVE  1 \in 1 .. m - 1 /\ 2 \in 2 .. m /\ 1 + 1 = 2
  OBVIOUS

\* A transfer has ended: the positions go on behind its data.
LEMMA FlowMoved ==
  ASSUME Types, FirstOnly, wire.flight # <<>>, NEW r \in Results, Moved(r),
         host'.captured = host.captured, NEW n, n = Len(wire.done),
         NEW pos \in [1 .. n + 1 -> Nat], FlowsAt(pos),
         \A data \in Data, q \in Nat : Sits(data, q, dev) => Sits(data, q, dev'),
         r.how = "ok" /\ Well(n) =>
           Sits(r.got, pos[n + 1], dev') /\ Delivered' = pos[n + 1] + Len(r.got)
  PROVE  \E q \in [1 .. Len(wire'.done) + 1 -> Nat] : FlowsAt(q)'
<1>1. /\ n \in Nat /\ Len(wire.flight) \in Nat \ {0}
      /\ Len(wire'.flight) = Len(wire.flight) - 1
      /\ \A i \in 1 .. Len(wire.flight) - 1 : wire'.flight[i] = wire.flight[i + 1]
      /\ Len(wire'.done) = n + 1 /\ wire'.done[n + 1] = r
      /\ \A i \in 1 .. n : wire'.done[i] = wire.done[i]
  BY MovedElements
<1>2. r.got \in Data /\ Len(r.got) \in Nat BY ResultFields
<1>3. \A i \in 1 .. n : wire.done[i].got \in Data BY WireTypes, ResultFields
<1>4. \A i \in 1 .. n + 1 : pos[i] \in Nat OBVIOUS
<1>5. n + 1 \in 1 .. n + 1 /\ 1 \in 1 .. n + 1 BY <1>1
<1> DEFINE next == [i \in 1 .. (n + 1) + 1 |-> IF i <= n + 1 THEN pos[i] ELSE pos[n + 1] + Len(r.got)]
<1>6. PICK q : q = next OBVIOUS
<1>7. /\ q \in [1 .. (n + 1) + 1 -> Nat] /\ \A i \in 1 .. n + 1 : q[i] = pos[i]
      /\ q[(n + 1) + 1] = pos[n + 1] + Len(r.got)
  <2>1. PICK last \in Nat : last = pos[n + 1] + Len(r.got) BY <1>2, <1>4, <1>5
  <2>2. PICK m \in Nat : m = n + 1 BY <1>1
  <2>3. q = [i \in 1 .. m + 1 |-> IF i <= m THEN pos[i] ELSE last] BY <1>6, <2>1, <2>2
  <2>4. m + 1 \in 1 .. m + 1 /\ ~(m + 1 <= m) /\ \A i \in 1 .. m : i <= m /\ i \in 1 .. m + 1
    BY <2>2
  <2>5. \A i \in 1 .. m : pos[i] \in Nat BY <1>4, <2>2
  <2>6. \A i \in 1 .. m + 1 : i <= m => i \in 1 .. m BY <2>2
  <2>7. q \in [1 .. m + 1 -> Nat] BY <2>1, <2>3, <2>5, <2>6
  <2>8. (\A i \in 1 .. m : q[i] = pos[i]) /\ q[m + 1] = last BY <2>3, <2>4
  <2> QED BY <2>1, <2>2, <2>7, <2>8
<1> HIDE DEF next
<1>8. \A i \in 1 .. n : Well(i)' => Well(i)
  <2> SUFFICES ASSUME NEW i \in 1 .. n, Well(i)' PROVE Well(i) OBVIOUS
  <2>1. \A j \in 1 .. i : j \in 1 .. n BY <1>1
  <2> QED BY <1>1, <2>1 DEF Well
<1>9. Well(n + 1)' => Well(n) /\ r.how = "ok"
  <2>1. \A j \in 1 .. n : j \in 1 .. n + 1 BY <1>1
  <2> QED BY <1>1, <1>5, <2>1 DEF Well
<1>10. /\ pos[1] = Len(host.captured)
       /\ \A i \in 1 .. n : Well(i) => /\ Sits(wire.done[i].got, pos[i], dev)
                                        /\ pos[i + 1] = pos[i] + Len(wire.done[i].got)
  BY DEF FlowsAt
<1>11. q[1] = Len(host'.captured) BY <1>5, <1>7, <1>10
<1>12. ASSUME NEW i \in 1 .. n + 1, Well(i)'
       PROVE  /\ Sits(wire'.done[i].got, q[i], dev')
              /\ q[i + 1] = q[i] + Len(wire'.done[i].got)
  <2>1. CASE i = n + 1 BY <1>1, <1>5, <1>7, <1>9, <1>12, <2>1
  <2>2. CASE i # n + 1
    <3>1. i \in 1 .. n /\ i + 1 \in 1 .. n + 1 /\ i \in 1 .. n + 1 BY <1>1, <2>2
    <3>2. wire'.done[i] = wire.done[i] /\ q[i] = pos[i] /\ q[i + 1] = pos[i + 1] BY <1>1, <1>7, <3>1
    <3>3. Well(i) BY <1>8, <1>12, <3>1
    <3>4. Sits(wire.done[i].got, pos[i], dev) /\ pos[i + 1] = pos[i] + Len(wire.done[i].got)
      BY <1>10, <3>1, <3>3
    <3>5. Sits(wire.done[i].got, pos[i], dev') BY <1>3, <1>4, <3>1, <3>4
    <3> QED BY <3>2, <3>4, <3>5
  <2> QED BY <2>1, <2>2
<1>13. ASSUME Well(n + 1)'
       PROVE  IF wire'.flight = <<>> THEN q[(n + 1) + 1] = Delivered'
              ELSE /\ Sits(wire'.flight[1].got, q[(n + 1) + 1], dev')
                   /\ q[(n + 1) + 1] + Len(wire'.flight[1].got) = Delivered'
  <2>1. Delivered' = q[(n + 1) + 1] /\ Delivered' \in Nat
    <3>1. Delivered' = pos[n + 1] + Len(r.got) BY <1>9, <1>13
    <3>2. q[(n + 1) + 1] = pos[n + 1] + Len(r.got) BY <1>7
    <3>3. pos[n + 1] \in Nat BY <1>4, <1>5
    <3>4. pos[n + 1] + Len(r.got) \in Nat BY <1>2, <3>3
    <3> QED BY <3>1, <3>2, <3>4
  <2>2. CASE wire'.flight # <<>>
    <3>1. wire'.flight \in Seq(Requests) BY WireTypes, TailElements DEF Moved
    <3>2. Len(wire'.flight) # 0 BY <2>2, <3>1, EmptySeq
    <3>3. 1 \in 1 .. Len(wire.flight) - 1 /\ 2 \in 2 .. Len(wire.flight) /\ 1 + 1 = 2
      <4>1. PICK m \in Nat : m = Len(wire.flight) BY <1>1
      <4>2. m - 1 # 0 /\ m # 0 BY <1>1, <3>2, <4>1
      <4> QED BY <4>1, <4>2, TwoLeft
    <3>4. wire'.flight[1].got = <<>> BY <1>1, <3>3 DEF FirstOnly
    <3>5. Len(wire'.flight[1].got) = 0 BY <3>4
    <3> QED BY <2>1, <2>2, <3>5 DEF Sits
  <2> QED BY <2>1, <2>2
<1>14. FlowsAt(q)' BY <1>1, <1>11, <1>12, <1>13 DEF FlowsAt
<1> QED BY <1>1, <1>7, <1>14

\* The first transfer that has ended is taken: the positions move up by one.
LEMMA FlowTaken ==
  ASSUME Types, wire.done # <<>>, wire'.done = Tail(wire.done), UNCHANGED dev,
         wire.done[1].how = "ok", Taken(wire.done[1]),
         \/ wire'.flight = wire.flight
         \/ \E r \in Requests : r.got = <<>> /\ wire'.flight = Append(wire.flight, r),
         NEW pos \in [1 .. Len(wire.done) + 1 -> Nat], FlowsAt(pos)
  PROVE  /\ Sits(wire.done[1].got, Len(host.captured), dev)
         /\ \E q \in [1 .. Len(wire'.done) + 1 -> Nat] : FlowsAt(q)'
<1>1. PICK n \in Nat : n = Len(wire'.done) /\ Len(wire.done) = n + 1
  <2>1. PICK m \in Nat \ {0} : m = Len(wire.done) /\ Len(wire'.done) = m - 1 BY PoppedElements
  <2>2. m - 1 \in Nat /\ m = (m - 1) + 1 OBVIOUS
  <2> QED BY <2>1, <2>2
<1>2. \A i \in 1 .. n : wire'.done[i] = wire.done[i + 1] BY <1>1, PoppedElements
<1>3. pos \in [1 .. (n + 1) + 1 -> Nat] BY <1>1
<1>4. PICK q : q = [i \in 1 .. n + 1 |-> pos[i + 1]] OBVIOUS
<1>5. /\ \A i \in 1 .. n + 1 : i + 1 \in 1 .. (n + 1) + 1
      /\ \A i \in 1 .. n : i + 1 \in 1 .. n + 1 /\ i \in 1 .. n + 1
      /\ 1 \in 1 .. n + 1 /\ n + 1 \in 1 .. n + 1 /\ 1 + 1 = 2
  BY <1>1
<1>6. q \in [1 .. n + 1 -> Nat] /\ \A i \in 1 .. n + 1 : q[i] = pos[i + 1] BY <1>3, <1>4, <1>5
<1>7. /\ pos[1] = Len(host.captured)
      /\ \A i \in 1 .. n + 1 : Well(i) => /\ Sits(wire.done[i].got, pos[i], dev)
                                          /\ pos[i + 1] = pos[i] + Len(wire.done[i].got)
      /\ Well(n + 1) =>
           IF wire.flight = <<>> THEN pos[(n + 1) + 1] = Delivered
           ELSE /\ Sits(wire.flight[1].got, pos[(n + 1) + 1], dev)
                /\ pos[(n + 1) + 1] + Len(wire.flight[1].got) = Delivered
  BY <1>1 DEF FlowsAt
<1>8. Well(1) BY DEF Well
<1>9. Sits(wire.done[1].got, pos[1], dev) /\ pos[2] = pos[1] + Len(wire.done[1].got)
  BY <1>5, <1>7, <1>8
<1>10. q[1] = Len(host'.captured)
  <2>1. Len(host'.captured) = Len(host.captured) + Len(wire.done[1].got) BY TakenElements
  <2>2. q[1] = pos[2] BY <1>5, <1>6
  <2> QED BY <1>7, <1>9, <2>1, <2>2
<1>11. ASSUME NEW i \in 0 .. n, Well(i)' PROVE Well(i + 1)
  <2> SUFFICES ASSUME NEW j \in 1 .. i + 1 PROVE wire.done[j].how = "ok" BY DEF Well
  <2>1. CASE j = 1 BY <2>1
  <2>2. CASE j # 1
    <3>1. PICK k \in 1 .. i : j = k + 1
      <4>1. j - 1 \in 1 .. i /\ j = (j - 1) + 1 BY <2>2
      <4> QED BY <4>1
    <3>2. k \in 1 .. n BY <1>1, <3>1
    <3>3. wire'.done[k].how = "ok" BY <1>11, <3>1 DEF Well
    <3> QED BY <1>2, <3>1, <3>2, <3>3
  <2> QED BY <2>1, <2>2
<1>12. ASSUME NEW i \in 1 .. n, Well(i)'
       PROVE  /\ Sits(wire'.done[i].got, q[i], dev')
              /\ q[i + 1] = q[i] + Len(wire'.done[i].got)
  <2>1. i \in 0 .. n BY <1>1
  <2>2. Well(i + 1) BY <1>11, <1>12, <2>1
  <2>3. PICK k \in 1 .. n + 1 : k = i + 1 BY <1>5
  <2>4. Sits(wire.done[k].got, pos[k], dev) /\ pos[k + 1] = pos[k] + Len(wire.done[k].got)
    BY <1>7, <2>2, <2>3
  <2>5. q[i] = pos[k] /\ q[i + 1] = pos[k + 1] /\ wire'.done[i] = wire.done[k]
    BY <1>2, <1>5, <1>6, <2>3
  <2> QED BY <2>4, <2>5
<1>13. ASSUME Well(n)'
       PROVE  IF wire'.flight = <<>> THEN q[n + 1] = Delivered'
              ELSE /\ Sits(wire'.flight[1].got, q[n + 1], dev')
                   /\ q[n + 1] + Len(wire'.flight[1].got) = Delivered'
  <2>1. Delivered' = Delivered BY DEF Delivered
  <2>2. n \in 0 .. n BY <1>1
  <2>3. Well(n + 1) BY <1>11, <1>13, <2>2
  <2>4. q[n + 1] = pos[(n + 1) + 1] /\ q[n + 1] \in Nat BY <1>5, <1>6
  <2>5. IF wire.flight = <<>> THEN q[n + 1] = Delivered
        ELSE /\ Sits(wire.flight[1].got, q[n + 1], dev)
             /\ q[n + 1] + Len(wire.flight[1].got) = Delivered
    BY <1>7, <2>3, <2>4
  <2>6. CASE wire'.flight = wire.flight BY <2>1, <2>5, <2>6
  <2>7. ASSUME NEW r \in Requests, r.got = <<>>, wire'.flight = Append(wire.flight, r)
        PROVE  /\ wire'.flight # <<>> /\ Sits(wire'.flight[1].got, q[n + 1], dev')
               /\ q[n + 1] + Len(wire'.flight[1].got) = Delivered'
    <3>1. /\ Len(wire.flight) \in Nat /\ Len(wire'.flight) = Len(wire.flight) + 1
          /\ wire'.flight[Len(wire.flight) + 1] = r
          /\ \A i \in 1 .. Len(wire.flight) : wire'.flight[i] = wire.flight[i]
      BY <2>7, AppendedElements
    <3>2. wire'.flight # <<>> BY <2>7, WireTypes
    <3>3. CASE wire.flight = <<>>
      <4>1. Len(wire.flight) + 1 = 1 BY <3>3
      <4>2. wire'.flight[1].got = <<>> /\ Len(<<>>) = 0 BY <2>7, <3>1, <4>1
      <4> QED BY <2>1, <2>4, <2>5, <3>2, <3>3, <4>2 DEF Sits
    <3>4. CASE wire.flight # <<>>
      <4>1. 1 \in 1 .. Len(wire.flight) BY <3>4, WireTypes
      <4>2. wire'.flight[1] = wire.flight[1] BY <3>1, <4>1
      <4> QED BY <2>1, <2>5, <3>2, <3>4, <4>2
    <3> QED BY <3>3, <3>4
  <2> QED BY <2>6, <2>7
<1>14. FlowsAt(q)' BY <1>1, <1>10, <1>12, <1>13 DEF FlowsAt
<1> QED BY <1>1, <1>6, <1>7, <1>9, <1>14

\* What the first in flight has after a packet ends where all that was delivered ends.
LEMMA PacketFlow ==
  ASSUME Types, BoardInv, dev.quiet, wire.flight # <<>>,
         NEW p \in Data, p \in NextPackets, Sent(p),
         NEW got, got = wire.flight[1].got \o p, NEW q \in Nat,
         Sits(wire.flight[1].got, q, dev), q + Len(wire.flight[1].got) = Delivered
  PROVE  Sits(got, q, dev') /\ Delivered' = q + Len(got)
<1>1. PICK a \in Data : a = wire.flight[1].got BY WireTypes, TailElements, RequestFields
<1>2. Len(a) \in Nat /\ Len(p) \in Nat BY DEF Data
<1>3. PICK d \in Nat : d = q + Len(a) /\ d = Delivered BY <1>1, <1>2
<1>4. Sits(p, d, dev') /\ Delivered' = d + Len(p) BY <1>3, PacketSits
<1>5. Sits(a, q, dev') BY <1>1, PacketGrows, SitsGrows
<1>6. got = a \o p BY <1>1
<1>7. Sits(got, q, dev') /\ Len(got) = Len(a) + Len(p)
  <2>1. PICK e : e = dev' OBVIOUS
  <2>2. Sits(a, q, e) /\ Sits(p, d, e) /\ d = q + Len(a) BY <1>3, <1>4, <1>5, <2>1
  <2>3. Sits(got, q, e) BY <1>6, <2>2, SitsConcat, Zenon
  <2>4. Len(got) = Len(a) + Len(p) BY <1>6, ConcatElements DEF Data
  <2> QED BY <2>1, <2>3, <2>4
<1> QED BY <1>2, <1>3, <1>4, <1>7

\* A packet is in the first transfer in flight.
LEMMA FlowGrown ==
  ASSUME Types, BoardInv, dev.quiet, wire.flight # <<>>,
         NEW p \in Data, p \in NextPackets, Sent(p),
         NEW got \in Data, got = wire.flight[1].got \o p, Grown(got), host'.captured = host.captured,
         NEW pos \in [1 .. Len(wire.done) + 1 -> Nat], FlowsAt(pos)
  PROVE  FlowsAt(pos)'
<1>1. PICK n \in Nat : n = Len(wire.done) BY WireTypes
<1>2. wire'.done = wire.done /\ Len(wire'.done) = n BY <1>1 DEF Grown
<1>3. wire'.flight # <<>> /\ wire'.flight[1].got = got
  <2>1. Len(wire'.flight) = Len(wire.flight) /\ Len(wire.flight) # 0 BY WireTypes DEF Grown
  <2>2. wire'.flight # <<>> BY <2>1
  <2> QED BY <2>2 DEF Grown
<1>4. /\ pos[1] = Len(host.captured)
      /\ \A i \in 1 .. n : Well(i) => /\ Sits(wire.done[i].got, pos[i], dev)
                                       /\ pos[i + 1] = pos[i] + Len(wire.done[i].got)
      /\ Well(n) => /\ Sits(wire.flight[1].got, pos[n + 1], dev)
                    /\ pos[n + 1] + Len(wire.flight[1].got) = Delivered
  BY <1>1 DEF FlowsAt
<1>5. \A i \in 1 .. n + 1 : pos[i] \in Nat BY <1>1
<1>6. \A i \in 1 .. n : i \in 1 .. n + 1 BY <1>1
<1>7. n + 1 \in 1 .. n + 1 BY <1>1
<1>8. \A i \in 1 .. n : wire.done[i].got \in Data BY <1>1, WireTypes, ResultFields
<1>9. ASSUME NEW i \in 1 .. n, Well(i)'
      PROVE  Sits(wire'.done[i].got, pos[i], dev') /\ pos[i + 1] = pos[i] + Len(wire'.done[i].got)
  <2>1. Well(i) BY <1>2, <1>9 DEF Well
  <2>2. PICK a \in Data : a = wire.done[i].got BY <1>8
  <2>3. PICK k \in Nat : k = pos[i] BY <1>5, <1>6
  <2>4. Sits(a, k, dev) /\ pos[i + 1] = k + Len(a) BY <1>4, <2>1, <2>2, <2>3
  <2>5. Sits(a, k, dev') BY <2>4, PacketGrows, SitsGrows
  <2> QED BY <1>2, <2>2, <2>3, <2>4, <2>5
<1>10. ASSUME Well(n)'
       PROVE  /\ Sits(wire'.flight[1].got, pos[n + 1], dev')
              /\ pos[n + 1] + Len(wire'.flight[1].got) = Delivered'
  <2>1. Well(n) BY <1>2, <1>10 DEF Well
  <2>2. PICK k \in Nat : k = pos[n + 1] BY <1>5, <1>7
  <2>3. Sits(wire.flight[1].got, k, dev) /\ k + Len(wire.flight[1].got) = Delivered BY <1>4, <2>1, <2>2
  <2>4. Sits(got, k, dev') /\ Delivered' = k + Len(got) BY <2>3, PacketFlow
  <2> QED BY <1>3, <2>2, <2>4
<1>11. pos[1] = Len(host'.captured) BY <1>4
<1> QED BY <1>2, <1>3, <1>9, <1>10, <1>11 DEF FlowsAt

LEMMA FlowStep ==
  Types /\ BoardInv /\ FirstOnly /\ Reads /\ Flow /\ [Next]_vars => Flow'
<1> SUFFICES ASSUME Types, BoardInv, FirstOnly, Reads, Flow, [Next]_vars,
                    host'.at = "stream", dev'.quiet, ~host'.error
             PROVE  \E q \in [1 .. Len(wire'.done) + 1 -> Nat] : FlowsAt(q)'
  BY DEF Flow
<1>1. CASE Arm
  <2>1. /\ wire'.done = wire.done /\ host'.captured = host.captured
        /\ dev'.sent = dev.sent /\ dev'.said = dev.said /\ host.at = "arm"
        /\ \A i \in 1 .. Len(wire'.flight) : wire'.flight[i].got = <<>>
        /\ Types'
    BY <1>1, ArmEffect DEF SameData
  <2>2. wire.done = <<>> /\ dev.sent = 0 /\ ~dev.said /\ host.captured = <<>> BY <2>1 DEF BoardInv
  <2>3. Len(wire'.done) = 0 /\ Len(host'.captured) = 0 /\ Delivered' = 0 BY <2>1, <2>2 DEF Delivered
  <2>4. PICK q : q = [i \in 1 .. 1 |-> 0] OBVIOUS
  <2>5. q \in [1 .. 0 + 1 -> Nat] /\ q[1] = 0 /\ q[0 + 1] = 0 BY <2>4
  <2>6. wire'.flight # <<>> => wire'.flight[1].got = <<>>
    <3>1. wire'.flight \in Seq(Requests) BY <2>1 DEF Types, WireRecord
    <3>2. wire'.flight # <<>> => 1 \in 1 .. Len(wire'.flight) BY <3>1, TailElements
    <3> QED BY <2>1, <3>2
  <2>7. wire'.flight # <<>> => Sits(wire'.flight[1].got, q[0 + 1], dev')
                              /\ q[0 + 1] + Len(wire'.flight[1].got) = 0
    BY <2>5, <2>6 DEF Sits
  <2>8. FlowsAt(q)' BY <2>3, <2>5, <2>7 DEF FlowsAt
  <2> QED BY <2>3, <2>5, <2>8
<1>2. CASE Completes
  <2>1. /\ host'.at = host.at /\ UNCHANGED dev /\ wire.done # <<>> /\ wire'.done = Tail(wire.done)
        /\ \/ wire'.flight = wire.flight
           \/ \E r \in Requests : r.got = <<>> /\ wire'.flight = Append(wire.flight, r)
        /\ wire.done[1].how = "ok" /\ Taken(wire.done[1])
    BY <1>2, CompletesEffect DEF Completes, Aside
  <2>2. ~host.error BY <2>1 DEF Taken
  <2>3. PICK pos \in [1 .. Len(wire.done) + 1 -> Nat] : FlowsAt(pos) BY <2>1, <2>2 DEF Flow
  <2> QED BY <2>1, <2>3, FlowTaken
<1>3. CASE Packet
  <2>1. PICK p \in NextPackets : \E got \in Data :
           /\ p \in Data /\ Sent(p) /\ UNCHANGED host
           /\ wire.flight # <<>> /\ got = wire.flight[1].got \o p
           /\ \/ Grown(got)
              \/ \E r \in Results : Moved(r) /\ r.got = got /\ r.how = "ok"
              \/ \E r \in Results : Moved(r) /\ r.got = wire.flight[1].got /\ r.how = "failed"
    BY <1>3, PacketEffect
  <2>2. p \in Data /\ Sent(p) /\ UNCHANGED host /\ wire.flight # <<>> /\ p \in NextPackets BY <2>1
  <2>3. PICK got \in Data :
           /\ got = wire.flight[1].got \o p
           /\ \/ Grown(got)
              \/ \E r \in Results : Moved(r) /\ r.got = got /\ r.how = "ok"
              \/ \E r \in Results : Moved(r) /\ r.got = wire.flight[1].got /\ r.how = "failed"
    BY <2>1
  <2>4. dev.quiet /\ host'.captured = host.captured BY <2>2, SentType
  <2>5. PICK pos \in [1 .. Len(wire.done) + 1 -> Nat] : FlowsAt(pos) BY <2>2, <2>4 DEF Flow
  <2>6. \A data \in Data, q \in Nat : Sits(data, q, dev) => Sits(data, q, dev')
    BY <2>2, <2>4, PacketGrows, SitsGrows
  <2>7. PICK n \in Nat : n = Len(wire.done) BY WireTypes
  <2>8. CASE Grown(got)
    <3>1. FlowsAt(pos)' BY <2>2, <2>3, <2>4, <2>5, <2>8, FlowGrown
    <3>2. wire'.done = wire.done BY <2>8 DEF Grown
    <3> QED BY <2>5, <3>1, <3>2
  <2>9. ASSUME NEW r \in Results, Moved(r),
               (r.got = got /\ r.how = "ok") \/ r.how = "failed"
        PROVE  \E q \in [1 .. Len(wire'.done) + 1 -> Nat] : FlowsAt(q)'
    <3>1. ASSUME r.how = "ok", Well(n)
          PROVE  Sits(r.got, pos[n + 1], dev') /\ Delivered' = pos[n + 1] + Len(r.got)
      <4>1. PICK k \in Nat : k = pos[n + 1] BY <2>5, <2>7
      <4>2. Sits(wire.flight[1].got, k, dev) /\ k + Len(wire.flight[1].got) = Delivered
        BY <2>2, <2>5, <2>7, <3>1, <4>1 DEF FlowsAt
      <4>3. Sits(got, k, dev') /\ Delivered' = k + Len(got) BY <2>2, <2>3, <2>4, <4>2, PacketFlow
      <4> QED BY <2>9, <3>1, <4>1, <4>3
    <3>2. pos \in [1 .. n + 1 -> Nat] BY <2>5, <2>7
    <3> QED BY <2>2, <2>4, <2>5, <2>6, <2>7, <2>9, <3>1, <3>2, FlowMoved
  <2> QED BY <2>3, <2>8, <2>9
<1>4. CASE TimedOut
  <2>1. PICK r \in Results : Moved(r) /\ r.how = "failed" BY <1>4, TimedOutEffect
  <2>2. wire.flight # <<>> /\ UNCHANGED <<host, dev>> BY <1>4, TimedOutEffect
  <2>3. PICK pos \in [1 .. Len(wire.done) + 1 -> Nat] : FlowsAt(pos) BY <2>2 DEF Flow
  <2>4. host'.captured = host.captured /\ dev' = dev /\ r.how # "ok" BY <2>1, <2>2
  <2>5. \A data \in Data, q \in Nat : Sits(data, q, dev) => Sits(data, q, dev') BY <2>4
  <2>6. PICK n : n = Len(wire.done) OBVIOUS
  <2>7. pos \in [1 .. n + 1 -> Nat] BY <2>3, <2>6
  <2> QED BY <2>1, <2>2, <2>3, <2>4, <2>5, <2>6, <2>7, FlowMoved
<1>5. CASE Worker \/ Stop \/ UNCHANGED vars
  <2>1. /\ host'.at = host.at /\ host'.error = host.error /\ host'.captured = host.captured
        /\ UNCHANGED wire
        /\ dev'.sent = dev.sent /\ dev'.said = dev.said /\ dev'.quiet = dev.quiet
    BY <1>5, WorkerEffect, StopEffect DEF vars, SameData
  <2>2. PICK pos \in [1 .. Len(wire.done) + 1 -> Nat] : FlowsAt(pos) BY <2>1 DEF Flow
  <2>3. Delivered' = Delivered BY <2>1 DEF Delivered
  <2>4. \A data, q : Sits(data, q, dev') <=> Sits(data, q, dev) BY <2>1 DEF Sits
  <2>5. \A i : Well(i)' <=> Well(i) BY <2>1 DEF Well
  <2>6. FlowsAt(pos)' BY <2>1, <2>2, <2>3, <2>4, <2>5 DEF FlowsAt
  <2> QED BY <2>1, <2>2, <2>6
<1>6. CASE EndStream \/ EndCancel \/ Read \/ AnswersRead \/ Verdict
  BY <1>6, EndStreamEffect, EndCancelEffect, ReadEffect, AnswerReadEffect, VerdictEffect
  DEF AnswersRead
<1> QED BY <1>1, <1>2, <1>3, <1>4, <1>5, <1>6, NextCases

----------------------------------------------------------------------------
(* What is captured is the beginning of the stream, and no other status    *)
(* line is anywhere.                                                       *)

LEMMA LacksMoved ==
  ASSUME Types, wire.flight # <<>>, NEW r \in Results, Moved(r), NEW u, LacksAll(u), Lacks(r.got, u),
         host'.status = host.status
  PROVE  LacksAll(u)'
<1>1. ASSUME NEW i \in 1 .. Len(wire'.flight) PROVE Lacks(wire'.flight[i].got, u)
  <2>1. PICK k \in 1 .. Len(wire.flight) : k = i + 1 BY MovedElements
  <2>2. wire'.flight[i] = wire.flight[k] BY <2>1, MovedElements
  <2> QED BY <2>2 DEF LacksAll
<1>2. ASSUME NEW i \in 1 .. Len(wire'.done) PROVE Lacks(wire'.done[i].got, u)
  <2>1. i = Len(wire.done) + 1 \/ i \in 1 .. Len(wire.done) BY MovedElements
  <2> QED BY <2>1, MovedElements DEF LacksAll
<1> QED BY <1>1, <1>2 DEF LacksAll

LEMMA LacksGrown ==
  ASSUME Types, wire.flight # <<>>, NEW got, Grown(got), NEW u, LacksAll(u), Lacks(got, u),
         host'.status = host.status
  PROVE  LacksAll(u)'
<1>1. ASSUME NEW i \in 1 .. Len(wire'.flight) PROVE Lacks(wire'.flight[i].got, u)
  <2>1. i \in 1 .. Len(wire.flight) /\ (i = 1 \/ i \in 2 .. Len(wire.flight)) BY WireTypes DEF Grown
  <2> QED BY <2>1 DEF Grown, LacksAll
<1> QED BY <1>1 DEF LacksAll, Grown

LEMMA LacksPopped ==
  ASSUME Types, wire.done # <<>>, wire'.done = Tail(wire.done), NEW u, LacksAll(u),
         \/ wire'.flight = wire.flight
         \/ \E r \in Requests : r.got = <<>> /\ wire'.flight = Append(wire.flight, r),
         host'.status \in {host.status, wire.done[1].got}
  PROVE  LacksAll(u)'
<1>1. ASSUME NEW i \in 1 .. Len(wire'.done) PROVE Lacks(wire'.done[i].got, u)
  <2>1. PICK k \in 1 .. Len(wire.done) : k = i + 1 BY PoppedElements
  <2>2. wire'.done[i] = wire.done[k] BY <2>1, PoppedElements
  <2> QED BY <2>2 DEF LacksAll
<1>2. Lacks(host'.status, u)
  <2>1. 1 \in 1 .. Len(wire.done) BY PoppedElements
  <2> QED BY <2>1 DEF LacksAll
<1>3. ASSUME NEW i \in 1 .. Len(wire'.flight) PROVE Lacks(wire'.flight[i].got, u)
  <2>1. CASE wire'.flight = wire.flight BY <2>1 DEF LacksAll
  <2>2. ASSUME NEW r \in Requests, r.got = <<>>, wire'.flight = Append(wire.flight, r)
        PROVE  Lacks(wire'.flight[i].got, u)
    <3>1. i = Len(wire.flight) + 1 \/ i \in 1 .. Len(wire.flight) BY <2>2, AppendedElements
    <3>2. Lacks(r.got, u) BY <2>2 DEF Lacks
    <3> QED BY <2>2, <3>1, <3>2, AppendedElements DEF LacksAll
  <2> QED BY <2>1, <2>2
<1> QED BY <1>1, <1>2, <1>3 DEF LacksAll

LEMMA LacksAdded ==
  ASSUME Types, NEW r \in Requests, r.got = <<>>, wire'.flight = Append(wire.flight, r),
         wire'.done = wire.done, host'.status = host.status, NEW u, LacksAll(u)
  PROVE  LacksAll(u)'
<1>1. ASSUME NEW i \in 1 .. Len(wire'.flight) PROVE Lacks(wire'.flight[i].got, u)
  <2>1. i = Len(wire.flight) + 1 \/ i \in 1 .. Len(wire.flight) BY AppendedElements
  <2>2. Lacks(r.got, u) BY DEF Lacks
  <2> QED BY <2>1, <2>2, AppendedElements DEF LacksAll
<1> QED BY <1>1 DEF LacksAll

\* Nothing has changed what the invariant is about.
LEMMA WholeSame ==
  ASSUME Whole, dev'.quiet = dev.quiet, host'.error = host.error, host'.captured = host.captured,
         dev'.sent = dev.sent, dev'.said = dev.said,
         host'.at \in {"status", "verdict", "exit"} => host.at \in {"status", "verdict", "exit"},
         dev.quiet /\ ~host.error => \A u : LacksAll(u) => LacksAll(u)'
  PROVE  Whole'
<1>1. \A data, q : Sits(data, q, dev') <=> Sits(data, q, dev) BY DEF Sits
<1> QED BY <1>1 DEF Whole

LEMMA WholePacket ==
  ASSUME Types, BoardInv, Whole, Packet PROVE Whole'
<1>1. PICK p \in NextPackets : \E got \in Data :
         /\ p \in Data /\ Sent(p) /\ UNCHANGED host
         /\ wire.flight # <<>> /\ got = wire.flight[1].got \o p
         /\ \/ Grown(got)
            \/ \E r \in Results : Moved(r) /\ r.got = got /\ r.how = "ok"
            \/ \E r \in Results : Moved(r) /\ r.got = wire.flight[1].got /\ r.how = "failed"
  BY PacketEffect
<1>2. p \in Data /\ Sent(p) /\ UNCHANGED host /\ wire.flight # <<>> /\ p \in NextPackets BY <1>1
<1>3. PICK got \in Data :
         /\ got = wire.flight[1].got \o p
         /\ \/ Grown(got)
            \/ \E r \in Results : Moved(r) /\ r.got = got /\ r.how = "ok"
            \/ \E r \in Results : Moved(r) /\ r.got = wire.flight[1].got /\ r.how = "failed"
  BY <1>1
<1>4. dev'.quiet = dev.quiet /\ host' = host BY <1>2, SentType
<1> SUFFICES ASSUME dev.quiet, ~host.error
             PROVE  /\ Sits(host.captured, 0, dev')
                    /\ host.at \in {"status", "verdict", "exit"} => Lacks(host.captured, Status("own"))
                    /\ LacksAll(Status("old"))'
  BY <1>4 DEF Whole
<1>5. /\ ~dev.said /\ dev.sent \in Nat /\ dev'.sent \in Nat /\ dev.sent <= dev'.sent
      /\ Lacks(p, Status("old"))
  BY <1>2, PacketGrows
<1>6. PICK c \in Data : c = host.captured BY HostTypes
<1>7. Sits(c, 0, dev) BY <1>6 DEF Whole
<1>8. Sits(c, 0, dev') BY <1>5, <1>7, SitsGrows
<1>9. host.at \in {"status", "verdict", "exit"} => Lacks(host.captured, Status("own")) BY <1>5 DEF Whole
<1>10. LacksAll(Status("old"))'
  <2>1. LacksAll(Status("old")) BY DEF Whole
  <2>2. 1 \in 1 .. Len(wire.flight) BY <1>2, WireTypes
  <2>3. Lacks(wire.flight[1].got, Status("old")) BY <2>1, <2>2 DEF LacksAll
  <2>4. PICK a \in Data : a = wire.flight[1].got BY <2>2, WireTypes, RequestFields
  <2>5. Lacks(got, Status("old"))
    <3>1. got = a \o p BY <1>3, <2>4
    <3>2. Lacks(a, Status("old")) BY <2>3, <2>4
    <3> QED BY <1>2, <1>5, <3>1, <3>2, LacksConcat, Zenon
  <2>6. host'.status = host.status BY <1>4
  <2>7. CASE Grown(got) BY <1>2, <2>1, <2>5, <2>6, <2>7, LacksGrown
  <2>8. ASSUME NEW r \in Results, Moved(r), r.got = got \/ r.got = wire.flight[1].got
        PROVE  LacksAll(Status("old"))'
    BY <1>2, <2>1, <2>3, <2>5, <2>6, <2>8, LacksMoved
  <2> QED BY <1>3, <2>7, <2>8
<1> QED BY <1>6, <1>8, <1>9, <1>10

LEMMA WholeCompletes ==
  ASSUME Types, Reads, Flow, Whole, Completes PROVE Whole'
<1>1. /\ UNCHANGED dev /\ wire.done # <<>> /\ wire'.done = Tail(wire.done)
      /\ \/ wire'.flight = wire.flight
         \/ \E r \in Requests : r.got = <<>> /\ wire'.flight = Append(wire.flight, r)
      /\ host'.at = host.at /\ host'.status = host.status
      /\ host.at \in {"stream", "cancel", "drain", "status"}
      /\ (host.at = "status" => wire.done[1].who = "stream")
  BY CompletesEffect DEF Completes, Aside
<1> SUFFICES ASSUME dev'.quiet, ~host'.error PROVE Whole' BY DEF Whole
<1>2. wire.done[1].how = "ok" /\ Taken(wire.done[1]) BY CompletesEffect
<1>3. ~host.error /\ dev.quiet BY <1>1, <1>2 DEF Taken
<1>4. host.at = "stream"
  <2>1. 1 \in 1 .. Len(wire.done) BY <1>1, WireTypes
  <2> QED BY <1>1, <1>3, <2>1 DEF Reads
<1>5. PICK pos \in [1 .. Len(wire.done) + 1 -> Nat] : FlowsAt(pos) BY <1>3, <1>4 DEF Flow
<1>6. Sits(wire.done[1].got, Len(host.captured), dev) BY <1>1, <1>2, <1>5, FlowTaken
<1>7. PICK a \in Data : a = host.captured BY HostTypes
<1>8. PICK b \in Data : b = wire.done[1].got BY <1>1, <1>2, TakenElements
<1>9. Len(a) \in Nat /\ Len(a) = 0 + Len(a) BY DEF Data
<1>10. host'.captured = a \o b BY <1>2, <1>7, <1>8 DEF Taken
<1>11. PICK c : c = a \o b OBVIOUS
<1>12. Sits(a, 0, dev) /\ Sits(b, Len(a), dev) BY <1>3, <1>6, <1>7, <1>8 DEF Whole
<1>13. 0 \in Nat OBVIOUS
<1>14. Sits(c, 0, dev) BY <1>9, <1>11, <1>12, <1>13, SitsConcat
<1>15. LacksAll(Status("old"))' BY <1>1, <1>3, LacksPopped DEF Whole
<1> QED BY <1>1, <1>4, <1>10, <1>11, <1>14, <1>15 DEF Whole

LEMMA WholeStep ==
  Types /\ BoardInv /\ Reads /\ Phase /\ Flow /\ Whole /\ [Next]_vars => Whole'
<1> SUFFICES ASSUME Types, BoardInv, Reads, Phase, Flow, Whole, [Next]_vars PROVE Whole' OBVIOUS
<1>1. CASE Arm
  <2>1. /\ wire'.done = wire.done /\ host'.captured = host.captured /\ host'.status = host.status
        /\ host.at = "arm" /\ host'.at = "stream"
        /\ \A i \in 1 .. Len(wire'.flight) : wire'.flight[i].got = <<>>
    BY <1>1, ArmEffect DEF SameData
  <2>2. wire.done = <<>> /\ host.captured = <<>> /\ host.status = <<>> BY <2>1 DEF BoardInv, Phase
  <2>3. \A u : Lacks(<<>>, u) BY DEF Lacks
  <2>4. Len(wire'.done) = 0 BY <2>1, <2>2
  <2>5. LacksAll(Status("old"))' BY <2>1, <2>2, <2>3, <2>4 DEF LacksAll
  <2>6. Sits(<<>>, 0, dev') BY DEF Sits
  <2> QED BY <2>1, <2>2, <2>5, <2>6 DEF Whole
<1>2. CASE Completes BY <1>2, WholeCompletes
<1>3. CASE Worker
  <2>1. UNCHANGED <<wire, dev>> /\ SameData /\ host'.at = host.at /\ host'.error = host.error
        /\ host'.status = host.status
    BY <1>3, WorkerEffect
  <2>2. \A u : LacksAll(u) => LacksAll(u)' BY <2>1 DEF LacksAll
  <2> QED BY <2>1, <2>2, WholeSame DEF SameData
<1>4. CASE EndStream
  <2>1. /\ SameData /\ UNCHANGED dev /\ host.at = "stream" /\ host'.error = host.error
        /\ host'.status = host.status
        /\ ~host.error => wire.flight = <<>> /\ wire.done = <<>> /\ UNCHANGED wire
    BY <1>4, EndStreamEffect
  <2> SUFFICES ASSUME dev.quiet, ~host.error PROVE Whole' BY <2>1 DEF Whole
  <2>2. host.status = <<>> /\ Sits(host.captured, 0, dev) BY <2>1 DEF Phase, Whole
  <2>3. \A u : LacksAll(u)'
    <3>1. Len(wire'.flight) = 0 /\ Len(wire'.done) = 0 /\ Len(host'.status) = 0 BY <2>1, <2>2
    <3> QED BY <3>1 DEF LacksAll, Lacks
  <2>4. Lacks(host.captured, Status("own")) \/ dev.said
    <3> SUFFICES ASSUME NEW k \in 1 .. Len(host.captured), host.captured[k] = Status("own"), ~dev.said
                 PROVE FALSE
      BY DEF Lacks
    <3>1. host.captured[k] = <<"own", 0 + k>> BY <2>2 DEF Sits
    <3> QED BY <3>1 DEF Status
  <2> QED BY <2>1, <2>2, <2>3, <2>4 DEF Whole, SameData
<1>5. CASE EndCancel
  <2>1. /\ SameData /\ UNCHANGED <<wire, dev>> /\ host'.at = "drain"
        /\ host'.error = host.error /\ host'.status = host.status
    BY <1>5, EndCancelEffect
  <2>2. \A u : LacksAll(u) => LacksAll(u)' BY <2>1 DEF LacksAll
  <2> QED BY <2>1, <2>2, WholeSame DEF SameData
<1>6. CASE Read
  <2>1. PICK r \in Requests : r.got = <<>> /\ wire'.flight = Append(wire.flight, r) BY <1>6, ReadEffect
  <2>2. UNCHANGED <<host, dev>> /\ wire'.done = wire.done BY <1>6, ReadEffect
  <2>3. \A u : LacksAll(u) => LacksAll(u)' BY <2>1, <2>2, LacksAdded
  <2> QED BY <2>2, <2>3, WholeSame
<1>7. CASE AnswersRead
  <2>1. /\ SameData /\ UNCHANGED dev /\ host.at \in {"drain", "status"} /\ host'.error = host.error
        /\ wire.done # <<>> /\ wire'.flight = wire.flight /\ wire'.done = Tail(wire.done)
        /\ (host.at = "status" => host'.status \in {host.status, wire.done[1].got})
    BY <1>7, AnswerReadEffect DEF AnswersRead
  <2> SUFFICES ASSUME ~host.error PROVE Whole' BY <2>1 DEF Whole
  <2>2. host.at = "status" BY <2>1 DEF Reads
  <2>3. \A u : LacksAll(u) => LacksAll(u)' BY <2>1, <2>2, LacksPopped
  <2> QED BY <2>1, <2>2, <2>3, WholeSame DEF SameData
<1>8. CASE Verdict
  <2>1. /\ SameData /\ UNCHANGED <<wire, dev>> /\ host.at = "verdict"
        /\ host'.error = host.error /\ host'.status = host.status
    BY <1>8, VerdictEffect
  <2>2. \A u : LacksAll(u) => LacksAll(u)' BY <2>1 DEF LacksAll
  <2> QED BY <2>1, <2>2, WholeSame DEF SameData
<1>9. CASE Packet BY <1>9, WholePacket
<1>10. CASE TimedOut
  <2>1. PICK r \in Results : Moved(r) /\ r.got = wire.flight[1].got BY <1>10, TimedOutEffect
  <2>2. wire.flight # <<>> /\ UNCHANGED <<host, dev>> BY <1>10, TimedOutEffect
  <2>3. 1 \in 1 .. Len(wire.flight) BY <2>2, WireTypes
  <2>4. ASSUME NEW u, LacksAll(u) PROVE LacksAll(u)'
    <3>1. Lacks(r.got, u) BY <2>1, <2>3, <2>4 DEF LacksAll
    <3> QED BY <2>1, <2>2, <2>4, <3>1, LacksMoved
  <2> QED BY <2>2, <2>4, WholeSame
<1>11. CASE Stop \/ UNCHANGED vars
  <2>1. UNCHANGED <<host, wire>> /\ dev'.sent = dev.sent /\ dev'.said = dev.said /\ dev'.quiet = dev.quiet
    BY <1>11, StopEffect DEF vars
  <2>2. \A u : LacksAll(u) => LacksAll(u)' BY <2>1 DEF LacksAll
  <2> QED BY <2>1, <2>2, WholeSame
<1> QED
  BY <1>1, <1>2, <1>3, <1>4, <1>5, <1>6, <1>7, <1>8, <1>9, <1>10, <1>11, NextCases

----------------------------------------------------------------------------
(* The theorems.                                                           *)

LEMMA InitInv == Init => IInv
<1> SUFFICES ASSUME Init PROVE IInv OBVIOUS
<1>1. Types BY InitTypes
<1>2. PICK tool \in Tools, total \in Totals, every \in {1, 2}, drain \in BOOLEAN :
        host = [at |-> "arm", tool |-> tool, total |-> total, every |-> every,
                drain |-> drain, planned |-> 0, received |-> 0, error |-> FALSE,
                captured |-> <<>>, last |-> <<>>, completed |-> 0, samples |-> <<>>, checked |-> {},
                tries |-> 0, status |-> <<>>, exit |-> -1]
  BY DEF Init
<1>3. /\ host.at = "arm" /\ host.received = 0 /\ ~host.error /\ host.captured = <<>>
      /\ host.samples = <<>> /\ host.checked = {} /\ host.status = <<>> /\ host.exit = -1
  BY <1>2
<1>4. wire.flight = <<>> /\ wire.done = <<>> BY DEF Init
<1>5. PICK left \in Leftovers : dev = Board(left, FALSE, TRUE) BY DEF Init
<1>6. /\ dev.replied /\ dev.says /\ (dev.quiet => dev.left = <<>>) /\ dev.sent = 0 /\ ~dev.said
  BY <1>5 DEF Board
<1>7. Len(wire.flight) = 0 /\ Len(wire.done) = 0 /\ Len(host.captured) = 0 /\ Len(host.samples) = 0
      /\ Len(host.status) = 0
  BY <1>3, <1>4
<1>8. BoardInv BY <1>3, <1>4, <1>6 DEF BoardInv
<1>9. FirstOnly /\ Reads BY <1>3, <1>7 DEF FirstOnly, Reads
<1>10. Phase BY <1>3, <1>7 DEF Phase
<1>11. Flow BY <1>3 DEF Flow
<1>12. Whole BY <1>3, <1>7 DEF Whole, Sits, LacksAll, Lacks
<1>13. Checking BY <1>3, <1>7 DEF Checking
<1> QED BY <1>1, <1>8, <1>9, <1>10, <1>11, <1>12, <1>13 DEF IInv

LEMMA InvStep == IInv /\ [Next]_vars => IInv'
  BY TypesStep, BoardStep, FirstOnlyStep, ReadsStep, PhaseStep, FlowStep, WholeStep, CheckingStep
  DEF IInv

\* The whole stream of this run, once the program has found it so.
LEMMA GoodIsOwn ==
  ASSUME IInv, host.exit = 0, dev.quiet
  PROVE  /\ host.captured = Own
         /\ Status("own") \in Range(host.status)
         /\ Len(host.captured) = host.total
<1>1. /\ Types /\ ~host.error /\ host.at = "exit" /\ Len(host.captured) = host.total
      /\ \E k \in 1 .. Len(host.status) : host.status[k] \in {Status("old"), Status("own")}
  BY DEF IInv, Phase
<1>2. /\ Sits(host.captured, 0, dev) /\ LacksAll(Status("old"))
      /\ Lacks(host.captured, Status("own")) \/ LacksAll(Status("own"))
  BY <1>1 DEF IInv, Whole
<1>3. PICK k \in 1 .. Len(host.status) : host.status[k] = Status("own")
  BY <1>1, <1>2 DEF LacksAll, Lacks
<1>4. Lacks(host.captured, Status("own")) BY <1>2, <1>3 DEF LacksAll, Lacks
<1>5. host.captured \in Data /\ host.total \in Nat /\ host.status \in Data BY <1>1, HostTypes
<1>6. ASSUME NEW i \in 1 .. host.total PROVE host.captured[i] = <<"own", i>>
  <2>1. host.captured[i] = <<"own", 0 + i>> BY <1>1, <1>2, <1>4 DEF Sits, Lacks
  <2>2. 0 + i = i BY <1>5
  <2> QED BY <2>1, <2>2
<1>7. host.captured = [i \in 1 .. host.total |-> host.captured[i]] BY <1>1, <1>5 DEF Data
<1>8. host.captured = Own BY <1>6, <1>7 DEF Own
<1>9. DOMAIN host.status = 1 .. Len(host.status) BY <1>5 DEF Data
<1>10. Status("own") \in Range(host.status) BY <1>3, <1>9 DEF Range
<1> QED BY <1>1, <1>8, <1>10

LEMMA GoodIsAligned ==
  ASSUME IInv, host.exit = 0, dev.quiet, NEW b \in host.checked
  PROVE  \E k \in 1 .. host.total : b[1] = <<"own", k>> /\ (k - 1) % Block = 0
<1>1. host.captured = Own /\ Len(host.captured) = host.total BY GoodIsOwn
<1>2. Aligned(b, host.captured) BY DEF IInv, Checking
<1>3. PICK k \in 1 .. Len(host.captured) : b[1] = host.captured[k] /\ (k - 1) % Block = 0
  BY <1>2 DEF Aligned
<1>4. k \in 1 .. host.total /\ host.captured[k] = <<"own", k>> BY <1>1, <1>3 DEF Own
<1> QED BY <1>3, <1>4

\* Every run keeps the invariant.
THEOREM HostInvariant == Spec => []IInv
  BY InitInv, InvStep, PTL DEF Spec

\* main() of host_capture.py: an exit code 0, on an endpoint that was empty or drained, means that
\* the planned stream of this run was captured whole and in order, and its own status line read,
\* whatever came short, failed, timed out or was asked for again.
THEOREM CapturesWhole == Spec => []CaptureTrue
<1>1. IInv => CaptureTrue BY GoodIsOwn DEF CaptureTrue
<1> QED BY <1>1, HostInvariant, PTL

\* ... and that every block the validator has looked at begins where a block of the stream begins.
THEOREM ChecksBlocks == Spec => []CheckedAligned
<1>1. IInv => CheckedAligned BY GoodIsAligned DEF CheckedAligned
<1> QED BY <1>1, HostInvariant, PTL

---------------------------------------------------------------------------
(* The programs of MCHostTools.  Those that share variables are instanced  *)
(* twice, there and with their proofs here; the lemmas below say that the  *)
(* two instances are the same.                                             *)

Reading == INSTANCE StreamReadersProofs WITH host <- program, wire <- line, dev <- board
Flashing == INSTANCE FlashLinkProofs WITH host <- program, wire <- line, dev <- board
Validating == INSTANCE GrayValidatorProofs WITH host <- program, wire <- line, dev <- board

USE DEF Reader!vars, Reading!vars, Flash!vars, Flashing!vars, Validator!vars, Validating!vars

---------------------------------------------------------------------------
(* The flash writer.                                                       *)

LEMMA FlashInit == Flash!Init = Flashing!Init
  BY DEF Flash!Init, Flashing!Init, Flash!e130_page, Flashing!e130_page, Flash!e131_page, Flashing!e131_page,
   Flash!ReadOp, Flashing!ReadOp, Flash!WriteOp, Flashing!WriteOp

LEMMA FlashSend == Flash!Send = Flashing!Send
  BY DEF Flash!Send, Flashing!Send, Flash!Step, Flashing!Step, Flash!Data, Flashing!Data

LEMMA FlashWait == Flash!Wait = Flashing!Wait
  BY DEF Flash!Wait, Flashing!Wait, Flash!Raised, Flashing!Raised, Flash!Returned, Flashing!Returned, Flash!Expected, Flashing!Expected,
     Flash!Retry, Flashing!Retry, Flash!Step, Flashing!Step, Flash!Data, Flashing!Data

LEMMA FlashTimeout == Flash!Timeout = Flashing!Timeout
  BY DEF Flash!Timeout, Flashing!Timeout, Flash!Raised, Flashing!Raised, Flash!Expected, Flashing!Expected,
     Flash!Step, Flashing!Step, Flash!Data, Flashing!Data

LEMMA FlashBoard == Flash!Board = Flashing!Board
  BY DEF Flash!Board, Flashing!Board, Flash!receiveFlashPage, Flashing!receiveFlashPage, Flash!receiveReadPage, Flashing!receiveReadPage,
    Flash!Unheard, Flashing!Unheard, Flash!Say, Flashing!Say, Flash!Line, Flashing!Line, Flash!Packet, Flashing!Packet, Flash!Refused, Flashing!Refused, Flash!Sound, Flashing!Sound

LEMMA FlashNext == Flash!Next = Flashing!Next
  BY FlashSend, FlashWait, FlashTimeout, FlashBoard DEF Flash!Next, Flashing!Next, Flash!Done, Flashing!Done

LEMMA FlashStep ==
  ASSUME Flashing!IInv, Flash!Next \/ UNCHANGED other
  PROVE  Flashing!IInv'
<1>1. [Flashing!Next]_(Flashing!vars) BY FlashNext DEF other
<1> QED BY <1>1, Flashing!StepInv, ToolAssumption

\* While the flash writer is the program, its inductive invariant holds.
FlashInv == running = "flash" => Flashing!IInv

\* The scripts of e130 and e131: one that ends well has restored the pages, or left them as it
\* promises, whatever the line lost and however often a command was repeated.
THEOREM ToolFlash == ToolSpec => []FlashRestored
<1>1. ToolInit => FlashInv
  BY Flashing!InitInv, FlashInit, ToolAssumption DEF ToolInit, FlashInv
<1>2. FlashInv /\ [ToolNext]_toolVars => FlashInv'
  <2> SUFFICES ASSUME FlashInv, [ToolNext]_toolVars, running' = "flash" PROVE Flashing!IInv'
    BY DEF FlashInv
  <2>1. running = "flash" /\ (Flash!Next \/ UNCHANGED other)
    BY DEF ToolNext, toolVars, other
  <2> QED BY <2>1, FlashStep DEF FlashInv
<1>3. FlashInv => FlashRestored
  BY DEF Flashing!IInv, Flashing!FlashRestored, Flash!FlashRestored, FlashRestored, FlashInv
<1> QED BY <1>1, <1>2, <1>3, PTL DEF ToolSpec

---------------------------------------------------------------------------
(* The validator.                                                          *)

LEMMA ValidatorInit == Validator!Init = Validating!Init
  BY DEF Validator!Init, Validating!Init, Validator!Profiles, Validating!Profiles,
     Validator!e106_profiles, Validating!e106_profiles, Validator!e107_profiles,
     Validating!e107_profiles, Validator!e108_profiles, Validating!e108_profiles,
     Validator!e109_profiles, Validating!e109_profiles, Validator!e110_profiles,
     Validating!e110_profiles, Validator!e111_profiles, Validating!e111_profiles,
     Validator!e112_profiles, Validating!e112_profiles, Validator!e113_profiles,
     Validating!e113_profiles, Validator!e114_profiles, Validating!e114_profiles,
     Validator!e117_profiles, Validating!e117_profiles, Validator!Legacy, Validating!Legacy,
     Validator!Wide, Validating!Wide, Validator!Four, Validating!Four, Validator!Five,
     Validating!Five, Validator!Two, Validating!Two, Validator!Profile, Validating!Profile

LEMMA ValidatorFirst ==
  ASSUME NEW value, NEW full
  PROVE  /\ Validator!FirstAnchored(value, full) = Validating!FirstAnchored(value, full)
         /\ Validator!FirstFollowing(value) = Validating!FirstFollowing(value)
         /\ Validator!FirstAnchoring(value) = Validating!FirstAnchoring(value)
  BY DEF Validator!FirstAnchored, Validating!FirstAnchored, Validator!FirstFollowing,
     Validating!FirstFollowing, Validator!FirstAnchoring, Validating!FirstAnchoring,
     Validator!FromGray, Validating!FromGray, Validator!Outside, Validating!Outside,
     Validator!Seen, Validating!Seen, Validator!Gray, Validating!Gray

LEMMA ValidatorWalked ==
  ASSUME NEW value, NEW full
  PROVE  /\ Validator!Walked(value, full) = Validating!Walked(value, full)
         /\ Validator!WalkedAll(value) = Validating!WalkedAll(value)
  BY DEF Validator!Walked, Validating!Walked, Validator!WalkedAll, Validating!WalkedAll,
     Validator!Snapshot, Validating!Snapshot, Validator!Follow, Validating!Follow,
     Validator!FromGray, Validating!FromGray, Validator!Outside, Validating!Outside,
     Validator!Seen, Validating!Seen, Validator!Gray, Validating!Gray

LEMMA ValidatorSample == Validator!Sample = Validating!Sample
<1>1. Validator!Advance = Validating!Advance BY DEF Validator!Advance, Validating!Advance
<1>2. /\ Validator!Gray(board.count, 8) = Validating!Gray(board.count, 8)
      /\ Validator!Seen(board.count) = Validating!Seen(board.count)
  BY DEF Validator!Gray, Validating!Gray, Validator!Seen, Validating!Seen
<1> QED BY <1>1, <1>2, ValidatorFirst, ValidatorWalked DEF Validator!Sample, Validating!Sample

LEMMA ValidatorEndBlock == Validator!EndBlock = Validating!EndBlock
  BY DEF Validator!EndBlock, Validating!EndBlock, Validator!Outside, Validating!Outside,
     Validator!Chosen, Validating!Chosen

LEMMA ValidatorFault == Validator!Fault = Validating!Fault
  BY DEF Validator!Fault, Validating!Fault

LEMMA ValidatorNext == Validator!Next = Validating!Next
  BY ValidatorSample, ValidatorEndBlock, ValidatorFault
     DEF Validator!Next, Validating!Next, Validator!Done, Validating!Done

LEMMA ValidatorStep ==
  ASSUME Validating!IInv, Validator!Next \/ UNCHANGED other
  PROVE  Validating!IInv'
<1>1. [Validating!Next]_(Validating!vars) BY ValidatorNext DEF other
<1> QED BY <1>1, Validating!StepInv, ToolAssumption

\* While the validator is the program, its inductive invariant holds.
ValidatorInv == running = "validator" => Validating!IInv

\* The class Validator of host_capture.py, whichever of its five profiles: it finds nothing in a
\* stream that nothing happened to, and something in every stream with a block lost or repeated
\* whose blocks have snapshots.
THEOREM ToolGray == ToolSpec => []GrayVerdict
<1>1. ToolInit => ValidatorInv
  BY Validating!InitInv, ValidatorInit, ToolAssumption DEF ToolInit, ValidatorInv
<1>2. ValidatorInv /\ [ToolNext]_toolVars => ValidatorInv'
  <2> SUFFICES ASSUME ValidatorInv, [ToolNext]_toolVars, running' = "validator"
      PROVE Validating!IInv'
    BY DEF ValidatorInv
  <2>1. running = "validator" /\ (Validator!Next \/ UNCHANGED other)
    BY DEF ToolNext, toolVars, other
  <2> QED BY <2>1, ValidatorStep DEF ValidatorInv
<1>3. ValidatorInv => GrayVerdict
  <2>1. Validator!GrayVerdict = Validating!GrayVerdict
    BY DEF Validator!GrayVerdict, Validating!GrayVerdict
  <2> QED BY <2>1, Validating!InvVerdict, ToolAssumption DEF GrayVerdict, ValidatorInv
<1> QED BY <1>1, <1>2, <1>3, PTL DEF ToolSpec

---------------------------------------------------------------------------
(* The bulk readers.                                                       *)

LEMMA ReaderInit == Reader!Init = Reading!Init
  BY DEF Reader!Init, Reading!Init, Reader!Readers, Reading!Readers,
     Reader!stream_rate_sweep, Reading!stream_rate_sweep, Reader!Reader, Reading!Reader,
     Reader!urb_depth, Reading!urb_depth, Reader!bl_stream_server, Reading!bl_stream_server,
     Reader!stream_to_sr, Reading!stream_to_sr, Reader!e084_drain_sweep, Reading!e084_drain_sweep,
     Reader!e085_drain_sweep, Reading!e085_drain_sweep, Reader!e086_drain_sweep, Reading!e086_drain_sweep,
     Reader!e104_run_in, Reading!e104_run_in, Reader!e104_async_run_in, Reading!e104_async_run_in,
     Reader!e105_host_usb, Reading!e105_host_usb, Reader!e110_probe, Reading!e110_probe,
     Reader!e116_probe, Reading!e116_probe, Reader!e120_probe, Reading!e120_probe,
     Reader!e114_descriptor, Reading!e114_descriptor, Reader!e115_descriptor, Reading!e115_descriptor,
     Reader!e117_descriptor, Reading!e117_descriptor, Reader!e118_descriptor, Reading!e118_descriptor,
     Reader!e119_descriptor, Reading!e119_descriptor, Reader!e121_descriptor, Reading!e121_descriptor,
     Reader!Negotiates, Reading!Negotiates, Reader!Leftovers, Reading!Leftovers, Reader!Status, Reading!Status,
     Reader!Board, Reading!Board

LEMMA ReaderArm == Reader!Arm = Reading!Arm
  BY DEF Reader!Arm, Reading!Arm, Reader!Drained, Reading!Drained, Reader!Negotiates, Reading!Negotiates,
     Reader!FirstRequests, Reading!FirstRequests, Reader!Width, Reading!Width,
     Reader!Cardinality, Reading!Cardinality, Reader!Request, Reading!Request, Reader!Piece, Reading!Piece,
     Reader!Started, Reading!Started

LEMMA ReaderAccepted == Reader!Accepted = Reading!Accepted
  BY DEF Reader!Accepted, Reading!Accepted, Reader!Accept, Reading!Accept, Reader!Range, Reading!Range,
     Reader!Started, Reading!Started, Reader!Width, Reading!Width, Reader!FirstRequests, Reading!FirstRequests,
     Reader!Cardinality, Reading!Cardinality, Reader!Request, Reading!Request, Reader!Piece, Reading!Piece

LEMMA ReaderCallback == Reader!Callback = Reading!Callback
  BY DEF Reader!Callback, Reading!Callback, Reader!Resubmit, Reading!Resubmit, Reader!Again, Reading!Again,
     Reader!Piece, Reading!Piece, Reader!Request, Reading!Request, Reader!CancelAll, Reading!CancelAll,
     Reader!Result, Reading!Result, Reader!Took, Reading!Took, Reader!Mismatch, Reading!Mismatch,
     Reader!Fits, Reading!Fits, Reader!Kept, Reading!Kept, Reader!Failed, Reading!Failed

LEMMA ReaderClose == Reader!Close = Reading!Close
  BY DEF Reader!Close, Reading!Close, Reader!CancelAll, Reading!CancelAll, Reader!Result, Reading!Result

LEMMA ReaderEndStream == Reader!EndStream = Reading!EndStream
  BY DEF Reader!EndStream, Reading!EndStream, Reader!Begins, Reading!Begins, Reader!Fits, Reading!Fits,
     Reader!Tries, Reading!Tries, Reader!Verified, Reading!Verified, Reader!Range, Reading!Range

LEMMA ReaderRead == Reader!Read = Reading!Read
  BY DEF Reader!Read, Reading!Read, Reader!Ask, Reading!Ask, Reader!Request, Reading!Request

LEMMA ReaderAnswer == Reader!Answer = Reading!Answer
  BY DEF Reader!Answer, Reading!Answer, Reader!Good, Reading!Good, Reader!Says, Reading!Says,
     Reader!Status, Reading!Status, Reader!Range, Reading!Range, Reader!Accept, Reading!Accept

LEMMA ReaderFinish == Reader!Finish = Reading!Finish
  BY DEF Reader!Finish, Reading!Finish

LEMMA ReaderPacket == Reader!Packet = Reading!Packet
  BY DEF Reader!Packet, Reading!Packet, Reader!NextPackets, Reading!NextPackets, Reader!Accept, Reading!Accept,
     Reader!Reject, Reading!Reject, Reader!Status, Reading!Status, Reader!MidStreamShort, Reading!MidStreamShort,
     Reader!Ended, Reading!Ended, Reader!Result, Reading!Result, Reader!Sent, Reading!Sent

LEMMA ReaderStop == Reader!Stop = Reading!Stop
  BY DEF Reader!Stop, Reading!Stop

LEMMA ReaderTimedOut == Reader!TimedOut = Reading!TimedOut
  BY DEF Reader!TimedOut, Reading!TimedOut, Reader!Ended, Reading!Ended, Reader!Result, Reading!Result

LEMMA ReaderDone == Reader!Done = Reading!Done
  BY DEF Reader!Done, Reading!Done

LEMMA ReaderNext == Reader!Next = Reading!Next
  BY ReaderArm, ReaderAccepted, ReaderCallback, ReaderClose, ReaderEndStream, ReaderRead,
     ReaderAnswer, ReaderFinish, ReaderPacket, ReaderStop, ReaderTimedOut, ReaderDone
     DEF Reader!Next, Reading!Next, Reader!Host, Reading!Host

LEMMA ReaderWhole == Reader!StreamWhole = Reading!StreamWhole
  BY DEF Reader!StreamWhole, Reading!StreamWhole, Reader!bl_stream_server, Reading!bl_stream_server,
     Reader!stream_to_sr, Reading!stream_to_sr, Reader!Reader, Reading!Reader,
     Reader!Negotiates, Reading!Negotiates

LEMMA ReaderStep ==
  ASSUME Reading!IInv, Reader!Next \/ UNCHANGED other
  PROVE  Reading!IInv'
<1>1. [Reading!Next]_(Reading!vars) BY ReaderNext DEF other
<1> QED BY <1>1, Reading!StepInv, StreamAssumption

\* While a bulk reader is the program, its inductive invariant holds.
ReaderInv == running = "reader" => Reading!IInv

\* A bulk reader that reports a good run has received every unit of the planned stream, once and
\* in order, whatever came short, failed, was cancelled or was left over from the run before.
THEOREM ToolReader == ToolSpec => []StreamWhole
<1>1. ToolInit => ReaderInv
  BY Reading!InitInv, ReaderInit, StreamAssumption DEF ToolInit, ReaderInv
<1>2. ReaderInv /\ [ToolNext]_toolVars => ReaderInv'
  <2> SUFFICES ASSUME ReaderInv, [ToolNext]_toolVars, running' = "reader" PROVE Reading!IInv'
    BY DEF ReaderInv
  <2>1. running = "reader" /\ (Reader!Next \/ UNCHANGED other)
    BY DEF ToolNext, toolVars, other
  <2> QED BY <2>1, ReaderStep DEF ReaderInv
<1>3. ReaderInv => StreamWhole
  BY ReaderWhole DEF Reading!IInv, Reading!Verdict, StreamWhole, ReaderInv
<1> QED BY <1>1, <1>2, <1>3, PTL DEF ToolSpec

---------------------------------------------------------------------------
(* The capture programs.  A behaviour of another program has no exit code. *)

CaptureInv == IF running = "capture" THEN IInv ELSE host.exit = -1

LEMMA CaptureStep ==
  ASSUME IInv, Next \/ UNCHANGED capture
  PROVE  IInv'
<1>1. [Next]_vars BY DEF capture, vars
<1> QED BY <1>1, InvStep

\* CapturesWhole and ChecksBlocks hold whichever program runs.
THEOREM ToolCapture == ToolSpec => [](CaptureTrue /\ CheckedAligned)
<1>1. ToolInit => CaptureInv
  BY InitInv DEF ToolInit, CaptureInv, NoCapture
<1>2. CaptureInv /\ [ToolNext]_toolVars => CaptureInv'
  <2> SUFFICES ASSUME CaptureInv, [ToolNext]_toolVars PROVE CaptureInv' OBVIOUS
  <2>1. CASE running = "capture"
    <3>1. running' = "capture" /\ (Next \/ UNCHANGED capture)
      BY <2>1 DEF ToolNext, toolVars, capture
    <3> QED BY <2>1, <3>1, CaptureStep DEF CaptureInv
  <2>2. CASE running # "capture"
    <3>1. running' = running /\ UNCHANGED capture
      BY <2>2 DEF ToolNext, toolVars, capture
    <3> QED BY <2>2, <3>1 DEF CaptureInv, capture
  <2> QED BY <2>1, <2>2
<1>3. IInv => CaptureTrue BY GoodIsOwn DEF CaptureTrue
<1>4. IInv => CheckedAligned BY GoodIsAligned DEF CheckedAligned
<1>5. CaptureInv => CaptureTrue /\ CheckedAligned
  <2>1. CASE running = "capture" BY <2>1, <1>3, <1>4 DEF CaptureInv
  <2>2. CASE running # "capture" BY <2>2 DEF CaptureInv, CaptureTrue, CheckedAligned
  <2> QED BY <2>1, <2>2
<1> QED BY <1>1, <1>2, <1>5, PTL DEF ToolSpec
=============================================================================
