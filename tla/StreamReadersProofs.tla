------------------------ MODULE StreamReadersProofs ------------------------
(***************************************************************************)
(* What the readers of the stream promise, for every size and number of    *)
(* transfers and every length of the stream: a run that is reported good   *)
(* has received the whole stream of that run, once and in order.           *)
(***************************************************************************)
EXTENDS StreamReaders, SequenceTheorems, FiniteSetTheorems, TLAPS

\* The units of data, the transfers, and the three parts of the state.
Units == {"own", "old"} \X Int
Data == Seq(Units)
Requests == [want : Int, got : Data, who : {"stream", "read"}]
Results == [want : Int, got : Data, who : {"stream", "read"}, how : {"ok", "failed", "cancelled"}]
Transfers == Requests \cup Results
Items == [offset : Nat, data : Data]
HostRecord ==
  [at : {"arm", "reply", "stream", "closing", "status", "exit"}, tool : Readers,
   total : Nat \ {0}, validate : BOOLEAN, planned : Int, received : Nat, error : BOOLEAN,
   closing : BOOLEAN, bad : BOOLEAN, data : Data, kept : Seq(Items), tries : 1 .. 4,
   exit : {"none", "good", "failed"}]
WireRecord == [flight : Seq(Requests), done : Seq(Results)]
DevRecord ==
  [left : Seq(Data), armed : BOOLEAN, replied : BOOLEAN, says : BOOLEAN, sent : Nat,
   stopped : BOOLEAN, said : BOOLEAN, clean : BOOLEAN, shorts : Nat, quiet : BOOLEAN]

Types == host \in HostRecord /\ wire \in WireRecord /\ dev \in DevRecord

\* The transfers that are not called back yet, in the order in which they will be.
OutOf(w) == w.done \o w.flight
Out == OutOf(wire)

\* An endpoint that was empty, or is read empty first; a descriptor host reads up to ACCEPT.
Clean == dev.quiet \/ host.tool.drains \/ Negotiates(host.tool)

\* What the board has sent of its run, and where in it a unit has its place: the status is last.
Sent1(u, board) ==
  \/ u[1] = "own" /\ u[2] \in 1 .. board.sent
  \/ u = Status("own") /\ board.said
Fresh(data, board) == \A i \in 1 .. Len(data) : Sent1(data[i], board)
Place(u, total) == IF u[2] = 0 THEN total + 1 ELSE u[2]
Sorted(data, total) ==
  \A i, j \in 1 .. Len(data) : i < j => Place(data[i], total) < Place(data[j], total)
Below(a, b, total) ==
  \A i \in 1 .. Len(a), j \in 1 .. Len(b) : Place(a[i], total) < Place(b[j], total)

\* The received data and then the outstanding transfers: all of the run, and in its order.
AllFresh(data, out, board) ==
  Fresh(data, board) /\ \A i \in 1 .. Len(out) : Fresh(out[i].got, board)
InLine(data, out, total) ==
  /\ Sorted(data, total)
  /\ \A i \in 1 .. Len(out) : Sorted(out[i].got, total) /\ Below(data, out[i].got, total)
  /\ \A i, j \in 1 .. Len(out) : i < j => Below(out[i].got, out[j].got, total)
Lined(data, out, board, total) == AllFresh(data, out, board) /\ InLine(data, out, total)

\* Only the first transfer in flight has received anything, and none more than it asked for.
Firsts(w) ==
  /\ \A i \in 1 .. Len(w.flight) : Len(w.flight[i].got) <= w.flight[i].want
  /\ \A i \in 1 .. Len(w.done) : Len(w.done[i].got) <= w.done[i].want
  /\ \A i \in 2 .. Len(w.flight) : w.flight[i].got = <<>>

Flowing == host.at \in {"stream", "closing", "status"}
Ordered ==
  Clean /\ Flowing =>
    /\ dev.left = <<>> /\ dev.replied /\ dev.sent <= host.total
    /\ dev.said => dev.says
    /\ Lined(host.data, Out, dev, host.total)

\* Before the command, and while a descriptor host waits for the reply.
Armed ==
  /\ host.at = "arm" =>
       /\ wire.flight = <<>> /\ wire.done = <<>> /\ ~dev.said /\ dev.sent = 0
       /\ dev.replied = ~Negotiates(host.tool)
       /\ dev.quiet => dev.left = <<>>
  /\ host.at \in {"arm", "reply"} => host.data = <<>> /\ ~host.error
Accepts(data) == \E i \in 1 .. Len(data) : data[i] = Accept("own")
Reply ==
  host.at = "reply" =>
    /\ Negotiates(host.tool) /\ Len(wire.flight) + Len(wire.done) <= 1
    /\ ~dev.replied => dev.sent = 0 /\ ~dev.said
    /\ \A i \in 1 .. Len(wire.done) :
         Accepts(wire.done[i].got) => dev.left = <<>> /\ dev.replied /\ dev.sent = 0 /\ ~dev.said
    /\ \A i \in 1 .. Len(wire.flight) : ~Accepts(wire.flight[i].got)
Old == \A i \in 1 .. Len(dev.left) : \A j \in 1 .. Len(dev.left[i]) : dev.left[i][j][1] = "old"

\* The status line is on USB only for programs that read it there, and after a stream that was
\* asked for only when it is asked for.
Speaks ==
  /\ host.tool.status = "serial" => ~dev.says
  /\ host.tool.status = "sent" => dev.says
  /\ host.at = "closing" => host.tool.onError # "raise"

\* Without an error there are transfers outstanding until the total is there: of a plan, what was
\* received and what is outstanding add up to what was planned.
Adds(sum, start, out, all) ==
  /\ sum[0] = start /\ sum[Len(out)] = all
  /\ \A i \in 1 .. Len(out) : sum[i] = sum[i - 1] + out[i].want
Plan(out, received, planned) == \E sum \in [0 .. Len(out) -> Int] : Adds(sum, received, out, planned)
Enough ==
  /\ host.received = Len(host.data)
  /\ host.tool.asks = "planned" => host.planned <= host.total
  /\ host.at = "stream" /\ host.tool.onError = "raise" /\ ~host.error =>
       \/ host.received >= host.total
       \/ Len(Out) > 0 /\ (host.tool.asks = "planned" => Plan(Out, host.received, host.planned))
  /\ host.at = "status" => host.received >= host.total

Verdict ==
  /\ host.exit # "none" => host.at = "exit"
  /\ StreamWhole

IInv ==
  Types /\ Firsts(wire) /\ Ordered /\ Armed /\ Old /\ Reply /\ Speaks /\ Enough /\ Verdict

LEMMA Constants ==
  /\ Block \in Nat \ {0} /\ Transfer \in Nat \ {0} /\ Depth \in Nat \ {0}
  /\ Totals \subseteq Nat /\ Keep \in Nat
  BY StreamAssumption

----------------------------------------------------------------------------
(* Sequences.                                                              *)

LEMMA TailElements ==
  ASSUME NEW S, NEW s \in Seq(S), s # <<>>
  PROVE  /\ Len(s) \in Nat \ {0} /\ Head(s) = s[1] /\ s[1] \in S
         /\ Tail(s) \in Seq(S) /\ Len(Tail(s)) = Len(s) - 1
         /\ \A i \in 1 .. Len(s) - 1 : Tail(s)[i] = s[i + 1]
  BY HeadTailProperties, EmptySeq

LEMMA AppendElements ==
  ASSUME NEW S, NEW s \in Seq(S), NEW e \in S
  PROVE  /\ Append(s, e) \in Seq(S) /\ Len(Append(s, e)) = Len(s) + 1 /\ Len(s) \in Nat
         /\ \A i \in 1 .. Len(s) : Append(s, e)[i] = s[i]
         /\ Append(s, e)[Len(s) + 1] = e
  BY AppendProperties

LEMMA ConcatElements ==
  ASSUME NEW S, NEW a \in Seq(S), NEW b \in Seq(S)
  PROVE  /\ a \o b \in Seq(S) /\ Len(a \o b) = Len(a) + Len(b)
         /\ Len(a) \in Nat /\ Len(b) \in Nat
         /\ \A k \in 1 .. Len(a) : (a \o b)[k] = a[k]
         /\ \A k \in 1 .. Len(b) : (a \o b)[Len(a) + k] = b[k]
<1>1. Len(a) \in Nat /\ Len(b) \in Nat OBVIOUS
<1>2. /\ a \o b \in Seq(S) /\ Len(a \o b) = Len(a) + Len(b)
      /\ \A i \in 1 .. Len(a) + Len(b) : (a \o b)[i] = IF i <= Len(a) THEN a[i] ELSE b[i - Len(a)]
  BY ConcatProperties
<1>3. \A k \in 1 .. Len(a) : (a \o b)[k] = a[k] BY <1>1, <1>2
<1>4. ASSUME NEW k \in 1 .. Len(b) PROVE (a \o b)[Len(a) + k] = b[k]
  <2>1. Len(a) + k \in 1 .. Len(a) + Len(b) /\ ~(Len(a) + k <= Len(a)) /\ Len(a) + k - Len(a) = k
    BY <1>1
  <2> QED BY <1>2, <2>1
<1> QED BY <1>1, <1>2, <1>3, <1>4

----------------------------------------------------------------------------
(* The board.                                                              *)

LEMMA LeftoversType ==
  ASSUME NEW left \in Leftovers
  PROVE  left \in Seq(Data)
<1>1. <<"old", 1>> \in Units /\ <<"old", 2>> \in Units /\ Status("old") \in Units
  BY DEF Units, Status
<1>2. <<<<"old", 1>>, <<"old", 2>>>> \in Data /\ <<Status("old")>> \in Data BY <1>1 DEF Data
<1> DEFINE stream == <<<<"old", 1>>, <<"old", 2>>>>
           line == <<Status("old")>>
<1>3. Leftovers = {<<>>, <<stream>>, <<line>>, <<stream, line>>} BY DEF Leftovers
<1> HIDE DEF stream, line
<1>4. stream \in Data /\ line \in Data BY <1>2 DEF stream, line
<1> HIDE DEF Data
<1>5. <<>> \in Seq(Data) /\ <<stream>> \in Seq(Data) /\ <<line>> \in Seq(Data)
      /\ <<stream, line>> \in Seq(Data)
  BY <1>4
<1> QED BY <1>3, <1>5

LEMMA PacketData ==
  ASSUME Types, NEW p \in NextPackets
  PROVE  p \in Data
<1>1. dev.left \in Seq(Data) /\ dev.sent \in Nat BY DEF Types, DevRecord
<1>2. \A k \in Int : <<"own", k>> \in Units BY DEF Units
<1>3. dev.sent + 1 \in Int /\ dev.sent + 2 \in Int BY <1>1
<1>4. /\ <<"own", dev.sent + 1>> \in Units /\ <<"own", dev.sent + 2>> \in Units
      /\ Status("own") \in Units /\ Accept("own") \in Units /\ Reject("own") \in Units
  BY <1>2, <1>3 DEF Status, Accept, Reject
<1>5. CASE dev.left # <<>>
  <2>1. p = Head(dev.left) BY <1>5 DEF NextPackets
  <2> QED BY <1>1, <1>5, <2>1, TailElements
<1>6. CASE dev.left = <<>>
  <2>1. p \in {<<Accept("own")>>, <<Reject("own")>>, <<Status("own")>>, <<<<"own", dev.sent + 1>>>>,
              <<<<"own", dev.sent + 1>>, <<"own", dev.sent + 2>>>>}
    BY <1>6 DEF NextPackets
  <2>2. \A a \in Units, b \in Units : <<a>> \in Data /\ <<a, b>> \in Data BY DEF Data
  <2> QED BY <1>4, <2>1, <2>2
<1> QED BY <1>5, <1>6

\* What a packet does to the board.
LEMMA SentType ==
  ASSUME Types, NEW p \in Data, Sent(p)
  PROVE  dev' \in DevRecord /\ dev'.quiet = dev.quiet /\ dev'.replied \in {dev.replied, TRUE} 
         /\ dev'.says = dev.says /\ (dev.left = <<>> => dev'.left = <<>>)
<1>1. dev \in DevRecord /\ dev.left \in Seq(Data) /\ dev.sent \in Nat /\ dev.shorts \in Nat
  BY DEF Types, DevRecord
<1>2. Len(p) \in Nat BY DEF Data
<1>3. CASE dev.left # <<>>
  <2>1. Tail(dev.left) \in Seq(Data) BY <1>1, <1>3, TailElements
  <2> QED BY <1>1, <1>3, <2>1 DEF Sent, DevRecord
<1>4. CASE dev.left = <<>> /\ p = <<Status("own")>>
  BY <1>1, <1>4 DEF Sent, DevRecord
<1>5. CASE dev.left = <<>> /\ p # <<Status("own")>> /\ p \in {<<Accept("own")>>, <<Reject("own")>>}
  <2>1. (p = <<Reject("own")>>) \in BOOLEAN OBVIOUS
  <2> QED BY <1>1, <1>5, <2>1 DEF Sent, DevRecord
<1>6. CASE dev.left = <<>> /\ p # <<Status("own")>> /\ p \notin {<<Accept("own")>>, <<Reject("own")>>}
  <2>1. dev.sent + Len(p) \in Nat /\ dev.shorts + 1 \in Nat BY <1>1, <1>2
  <2> QED BY <1>1, <1>6, <2>1 DEF Sent, DevRecord
<1> QED BY <1>3, <1>4, <1>5, <1>6

----------------------------------------------------------------------------
(* The transfers.                                                          *)

\* The transfer at the head has ended; it has received some more.
Moved(r) ==
  /\ r \in Results /\ r.want = wire.flight[1].want
  /\ wire'.flight = Tail(wire.flight) /\ wire'.done = Append(wire.done, r)

Grown(got) ==
  /\ Len(wire'.flight) = Len(wire.flight) /\ wire'.done = wire.done
  /\ wire'.flight[1].got = got /\ wire'.flight[1].want = wire.flight[1].want
  /\ \A i \in 2 .. Len(wire.flight) : wire'.flight[i] = wire.flight[i]

LEMMA WireTypes ==
  ASSUME Types
  PROVE  /\ wire = [flight |-> wire.flight, done |-> wire.done]
         /\ wire.flight \in Seq(Requests) /\ wire.done \in Seq(Results)
         /\ Len(wire.flight) \in Nat /\ Len(wire.done) \in Nat
         /\ (wire.flight = <<>> <=> Len(wire.flight) = 0)
         /\ (wire.done = <<>> <=> Len(wire.done) = 0)
         /\ \A i \in 1 .. Len(wire.flight) : wire.flight[i] \in Requests
         /\ \A i \in 1 .. Len(wire.done) : wire.done[i] \in Results
<1>1. wire \in WireRecord BY DEF Types
<1>2. wire = [flight |-> wire.flight, done |-> wire.done]
      /\ wire.flight \in Seq(Requests) /\ wire.done \in Seq(Results)
  BY <1>1 DEF WireRecord
<1> QED BY <1>2, EmptySeq

LEMMA RequestFields ==
  ASSUME NEW t \in Requests
  PROVE  /\ t.want \in Int /\ t.got \in Data /\ t.who \in {"stream", "read"} /\ Len(t.got) \in Nat
         /\ \A got \in Data : [t EXCEPT !.got = got] \in Requests
                             /\ [t EXCEPT !.got = got].got = got
                             /\ [t EXCEPT !.got = got].who = t.who
                             /\ [t EXCEPT !.got = got].want = t.want
         /\ \A how \in {"ok", "failed", "cancelled"} :
              /\ Result(t, how) \in Results /\ Result(t, how).how = how
              /\ Result(t, how).got = t.got /\ Result(t, how).want = t.want
<1>1. t.want \in Int /\ t.got \in Data /\ t.who \in {"stream", "read"} BY DEF Requests
<1>2. Len(t.got) \in Nat BY <1>1 DEF Data
<1>3. \A got \in Data : [t EXCEPT !.got = got] \in Requests
                       /\ [t EXCEPT !.got = got].got = got
                       /\ [t EXCEPT !.got = got].who = t.who
                       /\ [t EXCEPT !.got = got].want = t.want
  BY <1>1 DEF Requests
<1>4. \A how \in {"ok", "failed", "cancelled"} :
              /\ Result(t, how) \in Results /\ Result(t, how).how = how
              /\ Result(t, how).got = t.got /\ Result(t, how).want = t.want
  BY <1>1 DEF Result, Results
<1> QED BY <1>1, <1>2, <1>3, <1>4

LEMMA ResultFields ==
  ASSUME NEW t \in Results
  PROVE  /\ t.want \in Int /\ t.got \in Data /\ t.who \in {"stream", "read"} /\ Len(t.got) \in Nat
         /\ t.how \in {"ok", "failed", "cancelled"}
<1>1. t.want \in Int /\ t.got \in Data /\ t.who \in {"stream", "read"}
      /\ t.how \in {"ok", "failed", "cancelled"}
  BY DEF Results
<1> QED BY <1>1 DEF Data

LEMMA EndedEffect ==
  ASSUME Types, wire.flight # <<>>, NEW t \in Requests, t.want = wire.flight[1].want,
         NEW how \in {"ok", "failed"}, wire' = Ended(t, how)
  PROVE  wire' \in WireRecord /\ Moved(Result(t, how))
<1> DEFINE r == Result(t, how)
<1>1. r \in Results /\ r.want = t.want BY RequestFields
<1>2. wire.flight \in Seq(Requests) /\ wire.done \in Seq(Results) BY WireTypes
<1>3. Tail(wire.flight) \in Seq(Requests) BY <1>2, TailElements
<1> HIDE DEF r
<1>4. Append(wire.done, r) \in Seq(Results) BY <1>1, <1>2, AppendElements
<1>5. wire'.flight = Tail(wire.flight) /\ wire'.done = Append(wire.done, r)
      /\ wire' = [flight |-> Tail(wire.flight), done |-> Append(wire.done, r)]
  BY WireTypes DEF Ended, r
<1>6. wire' \in WireRecord BY <1>3, <1>4, <1>5 DEF WireRecord
<1> QED BY <1>1, <1>5, <1>6 DEF Moved, r

LEMMA PacketEffect ==
  ASSUME Types, Packet
  PROVE  \E p \in NextPackets : \E got \in Data :
           /\ p \in Data /\ Sent(p) /\ UNCHANGED host
           /\ wire.flight # <<>> /\ got = wire.flight[1].got \o p
           /\ wire' \in WireRecord
           /\ \/ Grown(got) /\ Len(p) # 1 /\ Len(got) <= wire.flight[1].want
              \/ \E r \in Results : Moved(r) /\ r.got = got /\ Len(got) <= r.want
              \/ \E r \in Results : Moved(r) /\ r.got = wire.flight[1].got
<1> DEFINE first == wire.flight[1]
<1>1. PICK p \in NextPackets :
        LET head == [Head(wire.flight) EXCEPT !.got = @ \o p] IN
          /\ wire' = IF Len(head.got) > head.want THEN Ended(Head(wire.flight), "failed")
                     ELSE IF Len(head.got) = head.want \/ Len(p) = 1 THEN Ended(head, "ok")
                     ELSE [wire EXCEPT !.flight[1] = head]
          /\ Sent(p)
  BY DEF Packet
<1>2. wire.flight # <<>> /\ UNCHANGED host BY DEF Packet
<1>3. p \in Data BY PacketData
<1>4. wire.flight \in Seq(Requests) /\ wire.done \in Seq(Results) BY WireTypes
<1>5. Head(wire.flight) = first /\ first \in Requests /\ Len(wire.flight) \in Nat \ {0}
  BY <1>2, <1>4, TailElements
<1> DEFINE got == first.got \o p
           head == [first EXCEPT !.got = got]
<1>6. got \in Data
  <2>1. first.got \in Data BY <1>5, RequestFields
  <2> QED BY <1>3, <2>1, ConcatElements DEF Data
<1>7. head \in Requests /\ head.got = got /\ head.want = first.want BY <1>5, <1>6, RequestFields
<1>8. \/ wire' = Ended(first, "failed")
      \/ wire' = Ended(head, "ok") /\ Len(got) <= first.want
      \/ wire' = [wire EXCEPT !.flight[1] = head] /\ Len(p) # 1 /\ Len(got) <= first.want
  <2>1. Len(head.got) \in Nat /\ head.want \in Int BY <1>7, RequestFields
  <2>2. ~(Len(head.got) > head.want) => Len(got) <= first.want BY <1>7, <2>1
  <2> QED BY <1>1, <1>5, <2>2
<1> HIDE DEF got, head, first
<1>9. CASE wire' = Ended(first, "failed")
  <2>1. wire' \in WireRecord /\ Moved(Result(first, "failed"))
    BY <1>2, <1>5, <1>9, EndedEffect DEF first
  <2>2. Result(first, "failed") \in Results /\ Result(first, "failed").got = first.got
        /\ Result(first, "failed").how = "failed"
    BY <1>5, RequestFields
  <2> QED BY <1>1, <1>2, <1>3, <1>6, <2>1, <2>2 DEF first, got
<1>10. CASE wire' = Ended(head, "ok") /\ Len(got) <= first.want
  <2>1. wire' \in WireRecord /\ Moved(Result(head, "ok"))
    BY <1>2, <1>5, <1>7, <1>10, EndedEffect DEF first
  <2>2. Result(head, "ok") \in Results /\ Result(head, "ok").got = got
        /\ Result(head, "ok").want = first.want
    BY <1>7, RequestFields
  <2> QED BY <1>1, <1>2, <1>3, <1>6, <1>10, <2>1, <2>2 DEF first, got
<1>11. CASE wire' = [wire EXCEPT !.flight[1] = head] /\ Len(p) # 1 /\ Len(got) <= first.want
  <2> DEFINE flight == [wire.flight EXCEPT ![1] = head]
  <2>1. wire' = [flight |-> flight, done |-> wire.done] BY <1>11, WireTypes
  <2>2. flight \in Seq(Requests) /\ Len(flight) = Len(wire.flight) /\ flight[1] = head
        /\ \A i \in 2 .. Len(wire.flight) : flight[i] = wire.flight[i]
    BY <1>4, <1>5, <1>7
  <2> HIDE DEF flight
  <2>3. wire' \in WireRecord BY <1>4, <2>1, <2>2 DEF WireRecord
  <2>4. Grown(got) BY <1>7, <2>1, <2>2 DEF Grown, first
  <2> QED BY <1>1, <1>2, <1>3, <1>6, <1>11, <2>3, <2>4 DEF first, got
<1> QED BY <1>8, <1>9, <1>10, <1>11

LEMMA TimedOutEffect ==
  ASSUME Types, TimedOut
  PROVE  /\ wire' \in WireRecord /\ wire.flight # <<>> /\ UNCHANGED <<host, dev>>
         /\ \E r \in Results : Moved(r) /\ r.got = wire.flight[1].got
<1> DEFINE first == wire.flight[1]
<1>1. wire.flight # <<>> /\ wire' = Ended(Head(wire.flight), "failed") BY DEF TimedOut
<1>2. Head(wire.flight) = first /\ first \in Requests BY <1>1, WireTypes, TailElements
<1>3. wire' \in WireRecord /\ Moved(Result(first, "failed"))
  BY <1>1, <1>2, EndedEffect
<1>4. Result(first, "failed") \in Results /\ Result(first, "failed").got = first.got
      /\ Result(first, "failed").how = "failed"
  BY <1>2, RequestFields
<1> QED BY <1>1, <1>3, <1>4 DEF TimedOut

----------------------------------------------------------------------------
(* The outstanding transfers, element by element.                          *)

\* Two queues that differ in nothing that is counted or received.
Alike(a, b) ==
  Len(b) = Len(a) /\ \A i \in 1 .. Len(a) : b[i].want = a[i].want /\ b[i].got = a[i].got

LEMMA Split ==
  ASSUME NEW a \in Nat, NEW b \in Nat, NEW i \in 1 .. a + b
  PROVE  i \in 1 .. a \/ \E j \in 1 .. b : i = a + j
<1>1. CASE i > a
  <2>1. i - a \in 1 .. b /\ i = a + (i - a) BY <1>1
  <2> QED BY <2>1
<1> QED BY <1>1

LEMMA OutElements ==
  ASSUME NEW w \in WireRecord
  PROVE  /\ w = [flight |-> w.flight, done |-> w.done]
         /\ w.flight \in Seq(Requests) /\ w.done \in Seq(Results)
         /\ Len(w.flight) \in Nat /\ Len(w.done) \in Nat
         /\ Len(OutOf(w)) = Len(w.done) + Len(w.flight)
         /\ \A i \in 1 .. Len(w.done) : OutOf(w)[i] = w.done[i] /\ w.done[i] \in Results
         /\ \A i \in 1 .. Len(w.flight) :
              OutOf(w)[Len(w.done) + i] = w.flight[i] /\ w.flight[i] \in Requests
<1>1. /\ w = [flight |-> w.flight, done |-> w.done]
      /\ w.flight \in Seq(Requests) /\ w.done \in Seq(Results)
  BY DEF WireRecord
<1>2. w.flight \in Seq(Transfers) /\ w.done \in Seq(Transfers)
  <2>1. Requests \subseteq Transfers /\ Results \subseteq Transfers BY DEF Transfers
  <2> HIDE DEF Transfers, Requests, Results
  <2> QED BY <1>1, <2>1
<1>3. /\ Len(OutOf(w)) = Len(w.done) + Len(w.flight)
      /\ Len(w.flight) \in Nat /\ Len(w.done) \in Nat
      /\ \A i \in 1 .. Len(w.done) : OutOf(w)[i] = w.done[i]
      /\ \A i \in 1 .. Len(w.flight) : OutOf(w)[Len(w.done) + i] = w.flight[i]
  <2> DEFINE a == w.done
             b == w.flight
  <2>1. a \in Seq(Transfers) /\ b \in Seq(Transfers) BY <1>2
  <2> HIDE DEF a, b
  <2>2. /\ Len(a \o b) = Len(a) + Len(b) /\ Len(a) \in Nat /\ Len(b) \in Nat
        /\ \A k \in 1 .. Len(a) : (a \o b)[k] = a[k]
        /\ \A k \in 1 .. Len(b) : (a \o b)[Len(a) + k] = b[k]
    BY <2>1, ConcatElements
  <2>3. OutOf(w) = a \o b BY DEF OutOf, a, b
  <2> QED BY <2>2, <2>3 DEF a, b
<1> QED BY <1>1, <1>3

LEMMA OutTypes ==
  ASSUME NEW w \in WireRecord, NEW i \in 1 .. Len(OutOf(w))
  PROVE  /\ OutOf(w)[i].want \in Int /\ OutOf(w)[i].got \in Data /\ Len(OutOf(w)[i].got) \in Nat
         /\ (Firsts(w) => Len(OutOf(w)[i].got) <= OutOf(w)[i].want)
<1>1. CASE i \in 1 .. Len(w.done) BY <1>1, OutElements, ResultFields DEF Firsts
<1>2. ASSUME NEW j \in 1 .. Len(w.flight), i = Len(w.done) + j
      PROVE  /\ OutOf(w)[i].want \in Int /\ OutOf(w)[i].got \in Data /\ Len(OutOf(w)[i].got) \in Nat
             /\ (Firsts(w) => Len(OutOf(w)[i].got) <= OutOf(w)[i].want)
  BY <1>2, OutElements, RequestFields DEF Firsts
<1>3. i \in 1 .. Len(w.done) \/ \E j \in 1 .. Len(w.flight) : i = Len(w.done) + j
  <2>1. PICK n \in Nat, m \in Nat : n = Len(w.done) /\ m = Len(w.flight) BY OutElements
  <2>2. i \in 1 .. n + m BY <2>1, OutElements
  <2>3. i \in 1 .. n \/ \E j \in 1 .. m : i = n + j BY <2>2, Split
  <2> QED BY <2>1, <2>3
<1> QED BY <1>1, <1>2, <1>3

LEMMA OutEmpty ==
  ASSUME NEW w \in WireRecord
  PROVE  (w.flight = <<>> /\ w.done = <<>>) <=> Len(OutOf(w)) = 0
<1>1. w.flight \in Seq(Requests) /\ w.done \in Seq(Results) BY OutElements
<1>2. (w.flight = <<>> <=> Len(w.flight) = 0) /\ (w.done = <<>> <=> Len(w.done) = 0)
  BY <1>1, EmptySeq
<1>3. PICK n \in Nat, m \in Nat : n = Len(w.done) /\ m = Len(w.flight) BY OutElements
<1>4. n + m = 0 <=> n = 0 /\ m = 0 OBVIOUS
<1>5. Len(OutOf(w)) = n + m BY <1>3, OutElements
<1> QED BY <1>2, <1>3, <1>4, <1>5

\* A queue whose transfer k has received something, and nothing else is new.
Received(a, b, k, got) ==
  /\ Len(b) = Len(a) /\ k \in 1 .. Len(a)
  /\ \A i \in 1 .. Len(a) : b[i].want = a[i].want
  /\ \A i \in 1 .. Len(a) : i # k => b[i].got = a[i].got
  /\ b[k].got = got
  /\ \A i \in k + 1 .. Len(a) : a[i].got = <<>>

LEMMA OutMoved ==
  ASSUME Types, wire' \in WireRecord, wire.flight # <<>>, NEW r \in Results, Moved(r), Firsts(wire),
         Len(r.got) <= r.want
  PROVE  /\ Received(Out, OutOf(wire'), Len(wire.done) + 1, r.got)
         /\ Out[Len(wire.done) + 1] = wire.flight[1] /\ Firsts(wire')
<1>1. wire \in WireRecord BY DEF Types
<1>2. PICK n \in Nat, m \in Nat \ {0} : n = Len(wire.done) /\ m = Len(wire.flight)
  BY <1>1, OutElements, WireTypes
<1>3. /\ Len(wire'.flight) = m - 1 /\ Len(wire'.done) = n + 1
      /\ \A i \in 1 .. m - 1 : wire'.flight[i] = wire.flight[i + 1]
      /\ \A i \in 1 .. n : wire'.done[i] = wire.done[i]
      /\ wire'.done[n + 1] = r
  <2>1. wire.flight \in Seq(Requests) /\ wire.done \in Seq(Results) BY <1>1, OutElements
  <2> QED BY <1>2, <2>1, TailElements, AppendElements DEF Moved
<1>4. PICK k \in 1 .. n + m : k = n + 1
  <2>1. n + 1 \in 1 .. n + m OBVIOUS
  <2> QED BY <2>1
<1>5. PICK l \in Nat : l = m - 1
  <2>1. m - 1 \in Nat OBVIOUS
  <2> QED BY <2>1
<1>6. /\ \A i \in 1 .. n + m : i \in 1 .. n \/ i = k \/ \E j \in 1 .. l : i = k + j
      /\ \A i \in k + 1 .. n + m : \E j \in 1 .. l : i = k + j
      /\ \A i \in 1 .. k : i \in 1 .. n \/ i = k
      /\ \A i \in 1 .. n : i \in 1 .. k /\ i # k
      /\ k + l = n + m /\ k \in 1 .. k
  <2>1. \A i \in k + 1 .. n + m : i - k \in 1 .. l /\ i = k + (i - k) BY <1>4, <1>5
  <2>2. \A i \in 1 .. n + m : i \in 1 .. n \/ i = k \/ i \in k + 1 .. n + m BY <1>4
  <2>3. /\ \A i \in 1 .. k : i \in 1 .. n \/ i = k
        /\ \A i \in 1 .. n : i \in 1 .. k /\ i # k
        /\ k + l = n + m /\ k \in 1 .. k
    BY <1>4, <1>5
  <2> QED BY <2>1, <2>2, <2>3
<1>7. ASSUME NEW j \in 1 .. l PROVE k + j = n + (j + 1) /\ j + 1 \in 1 .. m /\ j + 1 \in 2 .. m
  BY <1>4, <1>5
<1>8. Len(wire'.flight) = l /\ Len(wire'.done) = k BY <1>3, <1>4, <1>5
<1>9. Len(OutOf(wire')) = n + m /\ Len(Out) = n + m
  BY <1>1, <1>2, <1>6, <1>8, OutElements DEF Out
<1>10. ASSUME NEW i \in 1 .. n PROVE OutOf(wire')[i] = Out[i]
  <2>1. OutOf(wire')[i] = wire'.done[i] BY <1>6, <1>8, OutElements
  <2>2. Out[i] = wire.done[i] BY <1>1, <1>2, OutElements DEF Out
  <2> QED BY <1>3, <2>1, <2>2
<1>11. OutOf(wire')[k] = r
  <2>1. OutOf(wire')[k] = wire'.done[k] BY <1>6, <1>8, OutElements
  <2> QED BY <1>3, <1>4, <2>1
<1>12. 1 \in 1 .. m BY <1>2
<1>13. Out[k] = wire.flight[1] BY <1>1, <1>2, <1>4, <1>12, OutElements DEF Out
<1>14. ASSUME NEW j \in 1 .. l
       PROVE  OutOf(wire')[k + j] = Out[k + j] /\ Out[k + j].got = <<>>
              /\ wire'.flight[j] = wire.flight[j + 1]
  <2>1. j + 1 \in 1 .. m /\ j + 1 \in 2 .. m /\ k + j = n + (j + 1) BY <1>7
  <2>2. wire'.flight[j] = wire.flight[j + 1] BY <1>3, <1>5
  <2>3. wire.flight[j + 1].got = <<>> BY <1>2, <2>1 DEF Firsts
  <2>4. OutOf(wire')[k + j] = wire'.flight[j] BY <1>8, OutElements
  <2>5. Out[n + (j + 1)] = wire.flight[j + 1] BY <1>1, <1>2, <2>1, OutElements DEF Out
  <2> QED BY <2>1, <2>2, <2>3, <2>4, <2>5
<1>15. r.want = Out[k].want BY <1>13 DEF Moved
<1>16. Received(Out, OutOf(wire'), k, r.got)
  <2>1. ASSUME NEW i \in 1 .. n + m
        PROVE  OutOf(wire')[i].want = Out[i].want /\ (i # k => OutOf(wire')[i].got = Out[i].got)
    BY <1>6, <1>10, <1>11, <1>14, <1>15
  <2>2. ASSUME NEW i \in k + 1 .. n + m PROVE Out[i].got = <<>>
    <3>1. PICK j \in 1 .. l : i = k + j BY <1>6
    <3> QED BY <1>14, <3>1
  <2> QED BY <1>9, <1>11, <2>1, <2>2 DEF Received
<1>17. Firsts(wire')
  <2>1. \A i \in 1 .. k : Len(wire'.done[i].got) <= wire'.done[i].want
    BY <1>2, <1>3, <1>4, <1>6 DEF Firsts
  <2>2. \A i \in 1 .. l : Len(wire'.flight[i].got) <= wire'.flight[i].want /\ wire'.flight[i].got = <<>>
    <3> TAKE i \in 1 .. l
    <3>1. i + 1 \in 1 .. m /\ i + 1 \in 2 .. m BY <1>7
    <3>2. Len(wire.flight[i + 1].got) <= wire.flight[i + 1].want BY <1>2, <3>1 DEF Firsts
    <3>3. wire.flight[i + 1].got = <<>> BY <1>2, <3>1 DEF Firsts
    <3> QED BY <1>14, <3>2, <3>3
  <2>3. \A i \in 2 .. l : i \in 1 .. l OBVIOUS
  <2> QED BY <1>8, <2>1, <2>2, <2>3 DEF Firsts
<1> QED BY <1>2, <1>4, <1>13, <1>16, <1>17

LEMMA OutGrown ==
  ASSUME Types, wire' \in WireRecord, wire.flight # <<>>, NEW got, Grown(got), Firsts(wire),
         Len(got) <= wire.flight[1].want
  PROVE  /\ Received(Out, OutOf(wire'), Len(wire.done) + 1, got)
         /\ Out[Len(wire.done) + 1] = wire.flight[1] /\ Firsts(wire')
<1>1. wire \in WireRecord BY DEF Types
<1>2. PICK n \in Nat, m \in Nat \ {0} : n = Len(wire.done) /\ m = Len(wire.flight)
  BY <1>1, OutElements, WireTypes
<1>3. /\ Len(wire'.flight) = m /\ wire'.done = wire.done
      /\ \A i \in 2 .. m : wire'.flight[i] = wire.flight[i]
      /\ wire'.flight[1].got = got /\ wire'.flight[1].want = wire.flight[1].want
  BY <1>2 DEF Grown
<1>4. PICK k \in 1 .. n + m : k = n + 1
  <2>1. n + 1 \in 1 .. n + m OBVIOUS
  <2> QED BY <2>1
<1>5. /\ \A i \in 1 .. n + m : i \in 1 .. n \/ i = k \/ \E j \in 2 .. m : i = n + j
      /\ \A i \in k + 1 .. n + m : \E j \in 2 .. m : i = n + j
      /\ \A j \in 2 .. m : j \in 1 .. m
      /\ \A j \in 1 .. m : j = 1 \/ j \in 2 .. m
      /\ 1 \in 1 .. m
  <2>1. \A i \in k + 1 .. n + m : i - n \in 2 .. m /\ i = n + (i - n) BY <1>4
  <2>2. \A i \in 1 .. n + m : i \in 1 .. n \/ i = k \/ i \in k + 1 .. n + m BY <1>4
  <2>3. /\ \A j \in 2 .. m : j \in 1 .. m
        /\ \A j \in 1 .. m : j = 1 \/ j \in 2 .. m
        /\ 1 \in 1 .. m
    BY <1>2
  <2> QED BY <2>1, <2>2, <2>3
<1>6. Len(OutOf(wire')) = n + m /\ Len(Out) = n + m
  BY <1>1, <1>2, <1>3, OutElements DEF Out
<1>7. ASSUME NEW i \in 1 .. n PROVE OutOf(wire')[i] = Out[i]
  <2>1. OutOf(wire')[i] = wire'.done[i] BY <1>2, <1>3, OutElements
  <2>2. Out[i] = wire.done[i] BY <1>1, <1>2, OutElements DEF Out
  <2> QED BY <1>3, <2>1, <2>2
<1>8. ASSUME NEW j \in 1 .. m PROVE OutOf(wire')[n + j] = wire'.flight[j] /\ Out[n + j] = wire.flight[j]
  BY <1>1, <1>2, <1>3, OutElements DEF Out
<1>9. OutOf(wire')[k] = wire'.flight[1] /\ Out[k] = wire.flight[1] BY <1>4, <1>5, <1>8
<1>10. ASSUME NEW j \in 2 .. m PROVE OutOf(wire')[n + j] = Out[n + j] /\ Out[n + j].got = <<>>
  BY <1>2, <1>3, <1>5, <1>8 DEF Firsts
<1>11. Received(Out, OutOf(wire'), k, got)
  <2>1. ASSUME NEW i \in 1 .. n + m
        PROVE  OutOf(wire')[i].want = Out[i].want /\ (i # k => OutOf(wire')[i].got = Out[i].got)
    <3>1. CASE i \in 1 .. n BY <1>7, <3>1
    <3>2. CASE i = k BY <1>3, <1>9, <3>2
    <3>3. CASE \E j \in 2 .. m : i = n + j BY <1>10, <3>3
    <3> QED BY <1>5, <3>1, <3>2, <3>3
  <2>2. ASSUME NEW i \in k + 1 .. n + m PROVE Out[i].got = <<>>
    <3>1. PICK j \in 2 .. m : i = n + j BY <1>5
    <3> QED BY <1>10, <3>1
  <2> QED BY <1>3, <1>6, <1>9, <2>1, <2>2 DEF Received
<1>12. Firsts(wire')
  BY <1>2, <1>3, <1>5 DEF Firsts
<1> QED BY <1>2, <1>4, <1>9, <1>11, <1>12

LEMMA PopOut ==
  ASSUME Types, Firsts(wire), wire.done # <<>>,
         NEW rest, rest = [wire EXCEPT !.done = Tail(@)]
  PROVE  /\ rest \in WireRecord /\ Firsts(rest) /\ rest.flight = wire.flight
         /\ rest.done = Tail(wire.done) /\ Head(wire.done) = wire.done[1] /\ wire.done[1] \in Results
         /\ Out[1] = wire.done[1] /\ Len(Out) \in Nat \ {0}
         /\ Len(rest.done) = Len(wire.done) - 1
         /\ \A i \in 1 .. Len(wire.done) - 1 : rest.done[i] = wire.done[i + 1]
         /\ Len(OutOf(rest)) = Len(Out) - 1
         /\ \A i \in 1 .. Len(Out) - 1 : OutOf(rest)[i] = Out[i + 1]
<1>1. wire \in WireRecord /\ wire.flight \in Seq(Requests) /\ wire.done \in Seq(Results)
      /\ wire = [flight |-> wire.flight, done |-> wire.done]
  BY OutElements DEF Types
<1>2. PICK n \in Nat, m \in Nat : n + 1 = Len(wire.done) /\ m = Len(wire.flight)
  <2>1. PICK k \in Nat \ {0}, m \in Nat : k = Len(wire.done) /\ m = Len(wire.flight)
    BY <1>1, TailElements
  <2>2. k - 1 \in Nat /\ (k - 1) + 1 = k OBVIOUS
  <2>3. PICK n \in Nat : n + 1 = k BY <2>2
  <2> QED BY <2>1, <2>3
<1>3. /\ Head(wire.done) = wire.done[1] /\ wire.done[1] \in Results
      /\ Tail(wire.done) \in Seq(Results) /\ Len(Tail(wire.done)) = n
      /\ \A i \in 1 .. n : Tail(wire.done)[i] = wire.done[i + 1]
  <2>1. (n + 1) - 1 = n OBVIOUS
  <2> QED BY <1>1, <1>2, <2>1, TailElements
<1>4. rest = [flight |-> wire.flight, done |-> Tail(wire.done)] BY <1>1
<1>5. rest \in WireRecord /\ rest.flight = wire.flight /\ rest.done = Tail(wire.done)
  BY <1>1, <1>3, <1>4 DEF WireRecord
<1>6. Len(rest.done) = n /\ Len(rest.flight) = m BY <1>2, <1>3, <1>5
<1>7. /\ \A i \in 1 .. n : i \in 1 .. n + m /\ i + 1 \in 1 .. n + 1
      /\ (n + 1) + m = (n + m) + 1 /\ ((n + m) + 1) - 1 = n + m /\ (n + m) + 1 \in Nat \ {0}
      /\ 1 \in 1 .. n + 1
      /\ \A j \in 1 .. m : (n + 1) + j = (n + j) + 1
  OBVIOUS
<1>8. Len(OutOf(rest)) = n + m /\ Len(Out) = (n + m) + 1
  BY <1>1, <1>2, <1>5, <1>6, <1>7, OutElements DEF Out
<1>9. Out[1] = wire.done[1] BY <1>1, <1>2, <1>7, OutElements DEF Out
<1>10. ASSUME NEW i \in 1 .. n + m PROVE OutOf(rest)[i] = Out[i + 1]
  <2>1. ASSUME i \in 1 .. n PROVE OutOf(rest)[i] = Out[i + 1]
    <3>1. OutOf(rest)[i] = rest.done[i] BY <1>5, <1>6, <2>1, OutElements
    <3>2. Out[i + 1] = wire.done[i + 1] BY <1>1, <1>2, <1>7, <2>1, OutElements DEF Out
    <3> QED BY <1>3, <1>5, <2>1, <3>1, <3>2
  <2>2. ASSUME NEW j \in 1 .. m, i = n + j PROVE OutOf(rest)[i] = Out[i + 1]
    <3>1. OutOf(rest)[n + j] = rest.flight[j] BY <1>5, <1>6, OutElements
    <3>2. Out[(n + 1) + j] = wire.flight[j] BY <1>1, <1>2, OutElements DEF Out
    <3> QED BY <1>5, <1>7, <2>2, <3>1, <3>2
  <2> QED BY <2>1, <2>2, Split
<1>11. Firsts(rest)
  <2>1. ASSUME NEW i \in 1 .. n PROVE Len(rest.done[i].got) <= rest.done[i].want
    <3>1. rest.done[i] = wire.done[i + 1] /\ i + 1 \in 1 .. n + 1 BY <1>3, <1>5, <1>7
    <3>2. Len(wire.done[i + 1].got) <= wire.done[i + 1].want BY <1>2, <3>1 DEF Firsts
    <3> QED BY <3>1, <3>2
  <2> QED BY <1>5, <1>6, <2>1 DEF Firsts
<1>12. (n + 1) - 1 = n OBVIOUS
<1> QED BY <1>2, <1>3, <1>5, <1>6, <1>7, <1>8, <1>9, <1>10, <1>11, <1>12

LEMMA WireOf ==
  ASSUME NEW flight \in Seq(Requests), NEW done \in Seq(Results)
  PROVE  [flight |-> flight, done |-> done] \in WireRecord
  BY DEF WireRecord

LEMMA PushOut ==
  ASSUME NEW w \in WireRecord, Firsts(w), NEW size \in Nat, NEW who \in {"stream", "read"},
         NEW v, v = [w EXCEPT !.flight = Append(@, Request(size, who))]
  PROVE  /\ v \in WireRecord /\ Firsts(v) /\ v.done = w.done
         /\ Len(v.flight) = Len(w.flight) + 1
         /\ \A i \in 1 .. Len(w.flight) : v.flight[i] = w.flight[i]
         /\ v.flight[Len(w.flight) + 1].got = <<>>
         /\ Len(OutOf(v)) = Len(OutOf(w)) + 1 /\ Len(OutOf(w)) \in Nat
         /\ \A i \in 1 .. Len(OutOf(w)) : OutOf(v)[i] = OutOf(w)[i]
         /\ OutOf(v)[Len(OutOf(w)) + 1].want = size /\ OutOf(v)[Len(OutOf(w)) + 1].got = <<>>
<1>1. w.flight \in Seq(Requests) /\ w.done \in Seq(Results)
      /\ w = [flight |-> w.flight, done |-> w.done]
  BY OutElements
<1>2. PICK n \in Nat, m \in Nat : n = Len(w.done) /\ m = Len(w.flight) BY <1>1, OutElements
<1>3. PICK r \in Requests : r = Request(size, who) /\ r.got = <<>> /\ r.want = size
  <2>1. Request(size, who) \in Requests /\ Request(size, who).got = <<>>
        /\ Request(size, who).want = size
    BY DEF Request, Requests, Data
  <2> QED BY <2>1
<1>4. v = [flight |-> Append(w.flight, r), done |-> w.done] BY <1>1, <1>3
<1>5. /\ Append(w.flight, r) \in Seq(Requests) /\ Len(Append(w.flight, r)) = m + 1
      /\ \A i \in 1 .. m : Append(w.flight, r)[i] = w.flight[i]
      /\ Append(w.flight, r)[m + 1] = r
  BY <1>1, <1>2, AppendElements
<1>6. v \in WireRecord /\ v.done = w.done /\ v.flight = Append(w.flight, r)
  <2>1. PICK f \in Seq(Requests), d \in Seq(Results) : f = Append(w.flight, r) /\ d = w.done
    BY <1>1, <1>5
  <2>2. v = [flight |-> f, done |-> d] BY <1>4, <2>1
  <2>3. v \in WireRecord BY <2>2, WireOf
  <2> QED BY <2>1, <2>2, <2>3
<1>7. Len(v.flight) = m + 1 /\ Len(v.done) = n BY <1>2, <1>5, <1>6
<1>8. /\ n + (m + 1) = (n + m) + 1 /\ m + 1 \in 1 .. m + 1
      /\ \A j \in 1 .. m : j \in 1 .. m + 1
      /\ \A j \in 1 .. m + 1 : j \in 1 .. m \/ j = m + 1
      /\ \A j \in 2 .. m + 1 : j \in 2 .. m \/ j = m + 1
  OBVIOUS
<1>9. Len(OutOf(v)) = (n + m) + 1 /\ Len(OutOf(w)) = n + m
  BY <1>2, <1>6, <1>7, <1>8, OutElements
<1>10. ASSUME NEW i \in 1 .. n + m PROVE OutOf(v)[i] = OutOf(w)[i]
  <2>1. ASSUME i \in 1 .. n PROVE OutOf(v)[i] = OutOf(w)[i]
    <3>1. OutOf(v)[i] = v.done[i] BY <1>6, <1>7, <2>1, OutElements
    <3>2. OutOf(w)[i] = w.done[i] BY <1>2, <2>1, OutElements
    <3> QED BY <1>6, <3>1, <3>2
  <2>2. ASSUME NEW j \in 1 .. m, i = n + j PROVE OutOf(v)[i] = OutOf(w)[i]
    <3>1. OutOf(v)[n + j] = v.flight[j] BY <1>6, <1>7, <1>8, OutElements
    <3>2. OutOf(w)[n + j] = w.flight[j] BY <1>2, OutElements
    <3> QED BY <1>5, <1>6, <2>2, <3>1, <3>2
  <2> QED BY <2>1, <2>2, Split
<1>11. OutOf(v)[(n + m) + 1] = r
  <2>1. OutOf(v)[n + (m + 1)] = v.flight[m + 1] BY <1>6, <1>7, <1>8, OutElements
  <2> QED BY <1>5, <1>6, <1>8, <2>1
<1>12. Firsts(v)
  <2>1. Len(r.got) <= r.want BY <1>3
  <2>2. \A i \in 1 .. m : Len(w.flight[i].got) <= w.flight[i].want BY <1>2 DEF Firsts
  <2>3. \A i \in 2 .. m : w.flight[i].got = <<>> /\ i \in 1 .. m BY <1>2 DEF Firsts
  <2>4. \A i \in 1 .. n : Len(w.done[i].got) <= w.done[i].want BY <1>2 DEF Firsts
  <2>5. \A i \in 1 .. m + 1 : Len(v.flight[i].got) <= v.flight[i].want
    BY <1>5, <1>6, <1>8, <2>1, <2>2
  <2>6. \A i \in 2 .. m + 1 : v.flight[i].got = <<>> BY <1>3, <1>5, <1>6, <1>8, <2>3
  <2> QED BY <1>6, <1>7, <2>4, <2>5, <2>6 DEF Firsts
<1>13. n + m \in Nat OBVIOUS
<1> QED BY <1>2, <1>3, <1>5, <1>6, <1>7, <1>9, <1>10, <1>11, <1>12, <1>13

LEMMA CancelOut ==
  ASSUME NEW w \in WireRecord, Firsts(w)
  PROVE  /\ CancelAll(w) \in WireRecord /\ Firsts(CancelAll(w)) /\ Alike(OutOf(w), OutOf(CancelAll(w)))
         /\ CancelAll(w).flight = <<>>
<1>1. w.flight \in Seq(Requests) /\ w.done \in Seq(Results) BY OutElements
<1>2. PICK n \in Nat, m \in Nat : n = Len(w.done) /\ m = Len(w.flight) BY <1>1, OutElements
<1> DEFINE c == [i \in DOMAIN w.flight |-> Result(w.flight[i], "cancelled")]
<1>3. DOMAIN w.flight = 1 .. m BY <1>1, <1>2
<1>4. ASSUME NEW i \in 1 .. m
      PROVE  Result(w.flight[i], "cancelled") \in Results
             /\ Result(w.flight[i], "cancelled").want = w.flight[i].want
             /\ Result(w.flight[i], "cancelled").got = w.flight[i].got
  <2>1. w.flight[i] \in Requests BY <1>2, OutElements
  <2> QED BY <2>1, RequestFields
<1>5. c \in Seq(Results) /\ Len(c) = m /\ \A i \in 1 .. m : c[i] = Result(w.flight[i], "cancelled")
  BY <1>3, <1>4
<1>6. CancelAll(w) = [flight |-> <<>>, done |-> w.done \o c] BY DEF CancelAll
<1> HIDE DEF c
<1>7. /\ w.done \o c \in Seq(Results) /\ Len(w.done \o c) = n + m
      /\ \A i \in 1 .. n : (w.done \o c)[i] = w.done[i]
      /\ \A j \in 1 .. m : (w.done \o c)[n + j] = c[j]
  <2>1. PICK d \in Seq(Results) : d = w.done BY <1>1
  <2>2. Len(d) = n BY <1>2, <2>1
  <2>3. /\ d \o c \in Seq(Results) /\ Len(d \o c) = Len(d) + Len(c)
        /\ \A i \in 1 .. Len(d) : (d \o c)[i] = d[i]
        /\ \A j \in 1 .. Len(c) : (d \o c)[Len(d) + j] = c[j]
    <3>1. c \in Seq(Results) BY <1>5
    <3> QED BY <3>1, ConcatElements
  <2> QED BY <1>5, <2>1, <2>2, <2>3
<1>8. CancelAll(w) \in WireRecord /\ CancelAll(w).flight = <<>> /\ CancelAll(w).done = w.done \o c
  BY <1>6, <1>7 DEF WireRecord
<1>9. PICK v \in WireRecord : v = CancelAll(w) BY <1>8
<1>10. Len(v.flight) = 0 /\ Len(v.done) = n + m BY <1>7, <1>8, <1>9
<1>11. Len(OutOf(v)) = n + m /\ Len(OutOf(w)) = n + m
  <2>1. (n + m) + 0 = n + m OBVIOUS
  <2> QED BY <1>2, <1>10, <2>1, OutElements
<1>12. ASSUME NEW i \in 1 .. n + m
       PROVE  /\ OutOf(v)[i].want = OutOf(w)[i].want /\ OutOf(v)[i].got = OutOf(w)[i].got
              /\ Len(v.done[i].got) <= v.done[i].want
  <2>1. OutOf(v)[i] = v.done[i] BY <1>10, OutElements
  <2>2. Len(OutOf(w)[i].got) <= OutOf(w)[i].want BY <1>11, OutTypes
  <2>3. ASSUME i \in 1 .. n PROVE OutOf(v)[i] = OutOf(w)[i]
    <3>1. OutOf(w)[i] = w.done[i] BY <1>2, <2>3, OutElements
    <3> QED BY <1>7, <1>8, <1>9, <2>1, <2>3, <3>1
  <2>4. ASSUME NEW j \in 1 .. m, i = n + j
        PROVE  OutOf(v)[i].want = OutOf(w)[i].want /\ OutOf(v)[i].got = OutOf(w)[i].got
    <3>1. OutOf(w)[n + j] = w.flight[j] BY <1>2, OutElements
    <3>2. v.done[n + j] = c[j] BY <1>7, <1>8, <1>9
    <3> QED BY <1>4, <1>5, <2>1, <2>4, <3>1, <3>2
  <2>5. i \in 1 .. n \/ \E j \in 1 .. m : i = n + j BY Split
  <2> QED BY <2>1, <2>2, <2>3, <2>4, <2>5
<1>13. Alike(OutOf(w), OutOf(v)) BY <1>11, <1>12 DEF Alike
<1>14. Firsts(v) BY <1>10, <1>12 DEF Firsts
<1> QED BY <1>8, <1>9, <1>13, <1>14

----------------------------------------------------------------------------
(* The order of the data.                                                  *)

LEMMA DataElements ==
  ASSUME NEW a \in Data, NEW i \in 1 .. Len(a)
  PROVE  a[i] \in Units /\ a[i][2] \in Int
<1>1. a[i] \in Units BY DEF Data
<1> QED BY <1>1 DEF Units

LEMMA PlaceType ==
  ASSUME NEW a \in Data, NEW i \in 1 .. Len(a), NEW total \in Nat
  PROVE  Place(a[i], total) \in Int
  BY DataElements DEF Place

LEMMA DataConcat ==
  ASSUME NEW a \in Data, NEW b \in Data
  PROVE  /\ a \o b \in Data /\ Len(a) \in Nat /\ Len(b) \in Nat /\ Len(a \o b) = Len(a) + Len(b)
         /\ \A i \in 1 .. Len(a) : (a \o b)[i] = a[i]
         /\ \A j \in 1 .. Len(b) : (a \o b)[Len(a) + j] = b[j]
  BY ConcatElements DEF Data

LEMMA Parts ==
  ASSUME NEW a \in Data, NEW b \in Data, NEW i \in 1 .. Len(a \o b)
  PROVE  \/ i \in 1 .. Len(a) /\ (a \o b)[i] = a[i]
         \/ \E j \in 1 .. Len(b) : i = Len(a) + j /\ (a \o b)[i] = b[j]
<1>1. PICK n \in Nat, m \in Nat : n = Len(a) /\ m = Len(b) BY DataConcat
<1>2. i \in 1 .. n + m BY <1>1, DataConcat
<1>3. i \in 1 .. n \/ \E j \in 1 .. m : i = n + j BY <1>2, Split
<1>4. CASE i \in 1 .. n BY <1>1, <1>4, DataConcat
<1>5. ASSUME NEW j \in 1 .. m, i = n + j PROVE i = Len(a) + j /\ (a \o b)[i] = b[j]
  BY <1>1, <1>5, DataConcat
<1> QED BY <1>1, <1>3, <1>4, <1>5

LEMMA FreshConcat ==
  ASSUME NEW a \in Data, NEW b \in Data, NEW board, Fresh(a, board), Fresh(b, board)
  PROVE  Fresh(a \o b, board)
<1> SUFFICES ASSUME NEW i \in 1 .. Len(a \o b) PROVE Sent1((a \o b)[i], board) BY DEF Fresh
<1> QED BY Parts DEF Fresh

LEMMA BelowConcat ==
  ASSUME NEW a \in Data, NEW b \in Data, NEW c \in Data, NEW total \in Nat
  PROVE  /\ Below(a, c, total) /\ Below(b, c, total) => Below(a \o b, c, total)
         /\ Below(c, a, total) /\ Below(c, b, total) => Below(c, a \o b, total)
<1>1. ASSUME Below(a, c, total), Below(b, c, total), NEW i \in 1 .. Len(a \o b), NEW j \in 1 .. Len(c)
      PROVE  Place((a \o b)[i], total) < Place(c[j], total)
  BY <1>1, Parts DEF Below
<1>2. ASSUME Below(c, a, total), Below(c, b, total), NEW i \in 1 .. Len(c), NEW j \in 1 .. Len(a \o b)
      PROVE  Place(c[i], total) < Place((a \o b)[j], total)
  BY <1>2, Parts DEF Below
<1> QED BY <1>1, <1>2 DEF Below

LEMMA SortedConcat ==
  ASSUME NEW a \in Data, NEW b \in Data, NEW total \in Nat,
         Sorted(a, total), Sorted(b, total), Below(a, b, total)
  PROVE  Sorted(a \o b, total)
<1> SUFFICES ASSUME NEW i \in 1 .. Len(a \o b), NEW j \in 1 .. Len(a \o b), i < j
             PROVE  Place((a \o b)[i], total) < Place((a \o b)[j], total)
  BY DEF Sorted
<1>1. CASE i \in 1 .. Len(a) /\ (a \o b)[i] = a[i]
  <2>1. CASE j \in 1 .. Len(a) /\ (a \o b)[j] = a[j] BY <1>1, <2>1 DEF Sorted
  <2>2. CASE \E l \in 1 .. Len(b) : j = Len(a) + l /\ (a \o b)[j] = b[l]
    BY <1>1, <2>2 DEF Below
  <2> QED BY <2>1, <2>2, Parts
<1>2. ASSUME NEW k \in 1 .. Len(b), i = Len(a) + k, (a \o b)[i] = b[k]
      PROVE  Place((a \o b)[i], total) < Place((a \o b)[j], total)
  <2>1. Len(a) \in Nat /\ Len(b) \in Nat BY DataConcat
  <2>2. CASE j \in 1 .. Len(a) BY <1>2, <2>1, <2>2
  <2>3. ASSUME NEW l \in 1 .. Len(b), j = Len(a) + l, (a \o b)[j] = b[l]
        PROVE  Place((a \o b)[i], total) < Place((a \o b)[j], total)
    <3>1. k < l BY <1>2, <2>1, <2>3
    <3> QED BY <1>2, <2>3, <3>1 DEF Sorted
  <2> QED BY <2>2, <2>3, Parts
<1> QED BY <1>1, <1>2, Parts

\* The queue as far as data and order go.
Queue(out) ==
  Len(out) \in Nat /\ \A i \in 1 .. Len(out) : out[i].got \in Data /\ out[i].want \in Int

LEMMA QueueOut ==
  ASSUME NEW w \in WireRecord
  PROVE  Queue(OutOf(w))
<1>1. PICK n \in Nat, m \in Nat : n = Len(w.done) /\ m = Len(w.flight) BY OutElements
<1>2. n + m \in Nat OBVIOUS
<1>3. Len(OutOf(w)) \in Nat BY <1>1, <1>2, OutElements
<1> QED BY <1>3, OutTypes DEF Queue

LEMMA LinedAlike ==
  ASSUME NEW data, NEW a, NEW b, NEW board, NEW total, Alike(a, b), Lined(data, a, board, total)
  PROVE  Lined(data, b, board, total)
  BY DEF Alike, Lined, AllFresh, InLine

LEMMA LinedPush ==
  ASSUME NEW data, NEW a, Queue(a), NEW b, NEW board, NEW total, Lined(data, a, board, total),
         Len(b) = Len(a) + 1, \A i \in 1 .. Len(a) : b[i] = a[i], b[Len(a) + 1].got = <<>>
  PROVE  Lined(data, b, board, total)
<1>1. PICK n \in Nat : n = Len(a) BY DEF Queue
<1>2. /\ \A i \in 1 .. n + 1 : i \in 1 .. n \/ i = n + 1
      /\ \A i, j \in 1 .. n + 1 : i < j => i \in 1 .. n
  OBVIOUS
<1>3. Len(b[n + 1].got) = 0 BY <1>1
<1>4. AllFresh(data, b, board) BY <1>1, <1>2, <1>3 DEF Lined, AllFresh, Fresh
<1>5. \A c : Below(c, b[n + 1].got, total) BY <1>3 DEF Below
<1>6. Sorted(b[n + 1].got, total) BY <1>3 DEF Sorted
<1>7. InLine(data, b, total) BY <1>1, <1>2, <1>5, <1>6 DEF Lined, InLine
<1> QED BY <1>4, <1>7 DEF Lined

LEMMA LinedPop ==
  ASSUME NEW data \in Data, NEW a, Queue(a), NEW b, NEW board, NEW total \in Nat,
         Lined(data, a, board, total), Len(a) > 0,
         Len(b) = Len(a) - 1, \A i \in 1 .. Len(a) - 1 : b[i] = a[i + 1]
  PROVE  Lined(data, b, board, total) /\ Lined(data \o a[1].got, b, board, total)
<1>1. PICK n \in Nat : n + 1 = Len(a)
  <2>1. PICK k \in Nat : k = Len(a) BY DEF Queue
  <2>2. k - 1 \in Nat /\ (k - 1) + 1 = k BY <2>1
  <2> QED BY <2>1, <2>2
<1>2. /\ 1 \in 1 .. n + 1 /\ (n + 1) - 1 = n
      /\ \A i \in 1 .. n : i + 1 \in 1 .. n + 1 /\ 1 < i + 1
      /\ \A i, j \in 1 .. n : i < j => i + 1 < j + 1
  OBVIOUS
<1>3. Len(b) = n /\ \A i \in 1 .. n : b[i] = a[i + 1] BY <1>1, <1>2
<1>4. a[1].got \in Data BY <1>1, <1>2 DEF Queue
<1>5. /\ Fresh(data, board) /\ Fresh(a[1].got, board)
      /\ \A i \in 1 .. n : Fresh(b[i].got, board) /\ b[i].got \in Data
  BY <1>1, <1>2, <1>3 DEF Lined, AllFresh, Queue
<1>6. /\ Sorted(data, total) /\ Sorted(a[1].got, total) /\ Below(data, a[1].got, total)
      /\ \A i \in 1 .. n : /\ Sorted(b[i].got, total) /\ Below(data, b[i].got, total)
                           /\ Below(a[1].got, b[i].got, total)
      /\ \A i, j \in 1 .. n : i < j => Below(b[i].got, b[j].got, total)
  BY <1>1, <1>2, <1>3 DEF Lined, InLine
<1>7. Lined(data, b, board, total) BY <1>3, <1>5, <1>6 DEF Lined, AllFresh, InLine
<1>8. Fresh(data \o a[1].got, board) BY <1>4, <1>5, FreshConcat
<1>9. Sorted(data \o a[1].got, total) BY <1>4, <1>6, SortedConcat
<1>10. \A i \in 1 .. n : Below(data \o a[1].got, b[i].got, total) BY <1>4, <1>5, <1>6, BelowConcat
<1>11. Lined(data \o a[1].got, b, board, total)
  BY <1>3, <1>5, <1>6, <1>8, <1>9, <1>10 DEF Lined, AllFresh, InLine
<1> QED BY <1>7, <1>11

LEMMA LinedReceived ==
  ASSUME NEW data \in Data, NEW a, Queue(a), NEW b, NEW board, NEW total \in Nat,
         Lined(data, a, board, total), NEW k \in 1 .. Len(a), NEW got, Received(a, b, k, got),
         NEW p \in Data, got \in {a[k].got, a[k].got \o p}, Fresh(p, board), Sorted(p, total),
         Below(data, p, total), \A i \in 1 .. k : Below(a[i].got, p, total)
  PROVE  Lined(data, b, board, total)
<1>1. PICK n \in Nat : n = Len(a) BY DEF Queue
<1>2. Len(b) = n /\ b[k].got = got /\ k \in 1 .. n /\ a[k].got \in Data
  BY <1>1 DEF Received, Queue
<1>3. \A i \in 1 .. n : i # k => b[i].got = a[i].got BY <1>1 DEF Received
<1>4. \A i \in 1 .. n : i = k \/ i < k \/ i \in k + 1 .. n BY <1>2
<1>5. \A i \in k + 1 .. n : a[i].got = <<>> BY <1>1 DEF Received
<1>6. Fresh(data, board) /\ \A i \in 1 .. n : Fresh(a[i].got, board) /\ a[i].got \in Data
  BY <1>1 DEF Lined, AllFresh, Queue
<1>7. /\ Sorted(data, total)
      /\ \A i \in 1 .. n : Sorted(a[i].got, total) /\ Below(data, a[i].got, total)
      /\ \A i, j \in 1 .. n : i < j => Below(a[i].got, a[j].got, total)
  BY <1>1 DEF Lined, InLine
<1>8. Below(a[k].got, p, total) BY <1>2
<1>9. Fresh(got, board) /\ Sorted(got, total) /\ Below(data, got, total)
  BY <1>2, <1>6, <1>7, <1>8, FreshConcat, SortedConcat, BelowConcat
<1>10. ASSUME NEW i \in 1 .. n, i < k PROVE Below(a[i].got, got, total)
  <2>1. i \in 1 .. k BY <1>2, <1>10
  <2> QED BY <1>2, <1>6, <1>7, <1>10, <2>1, BelowConcat
<1>11. ASSUME NEW i \in 1 .. n, NEW j \in 1 .. n, i < j PROVE Below(b[i].got, b[j].got, total)
  <2>1. CASE j = k BY <1>2, <1>3, <1>10, <1>11, <2>1
  <2>2. CASE j \in k + 1 .. n
    <3>1. Len(b[j].got) = 0 BY <1>2, <1>3, <1>5, <2>2
    <3> QED BY <3>1 DEF Below
  <2>3. CASE j < k
    <3>1. i # k BY <1>2, <1>11, <2>3
    <3> QED BY <1>2, <1>3, <1>7, <1>11, <2>3, <3>1
  <2> QED BY <1>4, <2>1, <2>2, <2>3
<1>12. \A i \in 1 .. n : /\ Fresh(b[i].got, board) /\ Sorted(b[i].got, total)
                         /\ Below(data, b[i].got, total)
  BY <1>2, <1>3, <1>6, <1>7, <1>9
<1> QED BY <1>2, <1>6, <1>7, <1>11, <1>12 DEF Lined, AllFresh, InLine

LEMMA FreshGrows ==
  ASSUME NEW data, NEW a, NEW b, a.sent \in Nat, b.sent \in Nat, a.sent <= b.sent, a.said => b.said,
         Fresh(data, a)
  PROVE  Fresh(data, b)
<1> SUFFICES ASSUME NEW i \in 1 .. Len(data) PROVE Sent1(data[i], b) BY DEF Fresh
<1>1. Sent1(data[i], a) BY DEF Fresh
<1> QED BY <1>1 DEF Sent1

LEMMA LinedGrows ==
  ASSUME NEW data, NEW out, NEW a, NEW b, NEW total, Lined(data, out, a, total),
         a.sent \in Nat, b.sent \in Nat, a.sent <= b.sent, a.said => b.said
  PROVE  Lined(data, out, b, total)
  BY FreshGrows DEF Lined, AllFresh

\* Where a unit of the run that was sent has its place.
LEMMA FreshPlace ==
  ASSUME NEW board, board.sent \in Nat, NEW u, Sent1(u, board), NEW total \in Nat,
         board.sent <= total
  PROVE  /\ (~board.said => Place(u, total) \in 1 .. board.sent)
         /\ Place(u, total) \in 1 .. total + 1
  BY DEF Sent1, Place, Status

LEMMA UnitPacket ==
  ASSUME NEW a \in Units
  PROVE  /\ Len(<<a>>) = 1 /\ <<a>>[1] = a
         /\ \A b \in Units : Len(<<a, b>>) = 2 /\ <<a, b>>[1] = a /\ <<a, b>>[2] = b
  OBVIOUS

\* A packet of the stream of a board that has replied: it follows everything that was sent before.
LEMMA FlowingPacket ==
  ASSUME Types, dev.left = <<>>, dev.replied, dev.sent <= host.total, dev.said => dev.says,
         NEW p \in NextPackets, Sent(p)
  PROVE  /\ dev' \in DevRecord /\ dev'.left = <<>> /\ dev'.replied /\ dev'.quiet = dev.quiet
         /\ dev'.says = dev.says /\ (dev'.said => dev'.says)
         /\ dev.sent \in Nat /\ dev'.sent \in Nat
         /\ dev.sent <= dev'.sent /\ dev'.sent <= host.total /\ (dev.said => dev'.said)
         /\ p \in Data /\ Fresh(p, dev') /\ Sorted(p, host.total)
         /\ \A data : Fresh(data, dev) => Below(data, p, host.total)
<1>1. dev \in DevRecord /\ dev.sent \in Nat /\ dev.shorts \in Nat /\ dev.said \in BOOLEAN
      /\ host.total \in Nat
  BY DEF Types, DevRecord, HostRecord
<1>2. p \in Data BY PacketData
<1>3. dev' \in DevRecord /\ dev'.left = <<>> /\ dev'.quiet = dev.quiet /\ dev'.says = dev.says
      /\ dev'.replied
  BY <1>2, SentType
<1>4. PICK s \in Nat, total \in Nat : s = dev.sent /\ total = host.total BY <1>1
<1>5. <<"own", s + 1>> \in Units /\ <<"own", s + 2>> \in Units /\ Status("own") \in Units
  <2>1. s + 1 \in Int /\ s + 2 \in Int OBVIOUS
  <2> QED BY <2>1 DEF Units, Status
<1>6. ~dev.said /\ (\/ dev.says /\ p = <<Status("own")>>
                    \/ s + 1 <= total /\ p = <<<<"own", s + 1>>>>
                    \/ s + 2 <= total /\ p = <<<<"own", s + 1>>, <<"own", s + 2>>>>)
  <2>1. NextPackets = IF ~dev.armed \/ dev.said THEN {}
                      ELSE IF dev.stopped \/ s = total
                      THEN IF dev.says THEN {<<Status("own")>>} ELSE {}
                      ELSE {<<<<"own", s + 1>>>>}
                           \cup (IF s + 2 <= total THEN {<<<<"own", s + 1>>, <<"own", s + 2>>>>} ELSE {})
    BY <1>4 DEF NextPackets
  <2>2. s # total => s + 1 <= total BY <1>4
  <2> QED BY <2>1, <2>2
<1>7. ASSUME NEW data, Fresh(data, dev), NEW i \in 1 .. Len(data)
      PROVE  Place(data[i], total) \in 1 .. s
  BY <1>1, <1>4, <1>6, <1>7, FreshPlace DEF Fresh
<1>8. CASE dev.says /\ p = <<Status("own")>>
  <2>1. PICK clean \in BOOLEAN : dev' = [dev EXCEPT !.said = TRUE, !.clean = clean]
    BY <1>8 DEF Sent
  <2>2. dev'.said /\ dev'.sent = s BY <1>1, <1>4, <2>1 DEF DevRecord
  <2>3. Len(p) = 1 /\ p[1] = Status("own") BY <1>5, <1>8
  <2>4. Place(p[1], total) = total + 1 BY <2>3 DEF Place, Status
  <2>5. Fresh(p, dev') BY <2>2, <2>3 DEF Fresh, Sent1
  <2>6. Sorted(p, total) BY <2>3 DEF Sorted
  <2>7. ASSUME NEW data, Fresh(data, dev) PROVE Below(data, p, total)
    <3>1. \A i \in 1 .. Len(data) : Place(data[i], total) < total + 1 BY <1>4, <1>7, <2>7
    <3> QED BY <2>3, <2>4, <3>1 DEF Below
  <2> QED BY <1>2, <1>3, <1>4, <1>8, <2>2, <2>5, <2>6, <2>7
<1>9. ASSUME NEW n \in {1, 2}, s + n <= total, Len(p) = n,
             \A j \in 1 .. n : p[j] = <<"own", s + j>>
      PROVE  /\ dev'.sent = s + n /\ dev'.said = dev.said
             /\ Fresh(p, dev') /\ Sorted(p, total)
             /\ \A data : Fresh(data, dev) => Below(data, p, total)
  <2>1. p[1] = <<"own", s + 1>> BY <1>9
  <2>2. p # <<Status("own")>> /\ p # <<Accept("own")>> /\ p # <<Reject("own")>>
    <3>1. s + 1 # 0 /\ s + 1 # -1 /\ s + 1 # -2 OBVIOUS
    <3> QED BY <2>1, <3>1 DEF Status, Accept, Reject
  <2>3. dev' = [dev EXCEPT !.sent = s + n,
                           !.shorts = IF MidStreamShort(p) THEN dev.shorts + 1 ELSE dev.shorts]
    BY <1>4, <1>9, <2>2 DEF Sent
  <2>4. dev'.sent = s + n /\ dev'.said = dev.said BY <1>1, <2>3 DEF DevRecord
  <2>5. \A j \in 1 .. n : Place(p[j], total) = s + j /\ s + j \in 1 .. s + n /\ s + j > s
    <3> TAKE j \in 1 .. n
    <3>1. s + j # 0 /\ s + j \in 1 .. s + n /\ s + j > s OBVIOUS
    <3> QED BY <1>9, <3>1 DEF Place
  <2>6. Fresh(p, dev') BY <1>9, <2>4, <2>5 DEF Fresh, Sent1
  <2>7. Sorted(p, total)
    <3>1. \A i, j \in 1 .. n : i < j => s + i < s + j OBVIOUS
    <3> QED BY <1>9, <2>5, <3>1 DEF Sorted
  <2>8. ASSUME NEW data, Fresh(data, dev) PROVE Below(data, p, total)
    <3>1. \A i \in 1 .. Len(data) : Place(data[i], total) \in 1 .. s BY <1>7, <2>8
    <3> QED BY <1>9, <2>5, <3>1 DEF Below
  <2> QED BY <2>4, <2>6, <2>7, <2>8
<1>10. CASE s + 1 <= total /\ p = <<<<"own", s + 1>>>>
  <2>1. Len(p) = 1 /\ \A j \in 1 .. 1 : p[j] = <<"own", s + j>> BY <1>5, <1>10
  <2>2. s <= s + 1 /\ s + 1 \in Nat OBVIOUS
  <2> QED BY <1>2, <1>3, <1>4, <1>6, <1>9, <1>10, <2>1, <2>2
<1>11. CASE s + 2 <= total /\ p = <<<<"own", s + 1>>, <<"own", s + 2>>>>
  <2>1. Len(p) = 2 /\ \A j \in 1 .. 2 : p[j] = <<"own", s + j>> BY <1>5, <1>11
  <2>2. s <= s + 2 /\ s + 2 \in Nat OBVIOUS
  <2> QED BY <1>2, <1>3, <1>4, <1>6, <1>9, <1>11, <2>1, <2>2
<1> QED BY <1>6, <1>8, <1>10, <1>11

----------------------------------------------------------------------------
(* The programs.                                                           *)

LEMMA ReaderFacts ==
  ASSUME NEW tool \in Readers
  PROVE  /\ tool.onError \in {"stop", "ignore", "raise"}
         /\ tool.asks \in {"whole", "planned", "single"}
         /\ tool.onError = "stop" => /\ tool.drains /\ tool.status = "serial"
                                     /\ tool.verdict \in {"whole", "enough"}
         /\ tool.onError = "ignore" => /\ tool \in {bl_stream_server, stream_to_sr}
                                       /\ tool.status = "serial"
         /\ tool.onError = "raise" => tool.status \in {"asked", "sent"}
         /\ Negotiates(tool) => tool.onError = "raise" /\ tool.status = "sent"
         /\ tool.asks = "single" => ~tool.cancels
  BY DEF Readers, Reader, Negotiates, stream_rate_sweep, urb_depth, bl_stream_server, stream_to_sr,
     e084_drain_sweep, e085_drain_sweep, e086_drain_sweep, e104_run_in, e104_async_run_in,
     e105_host_usb, e110_probe, e116_probe, e120_probe, e114_descriptor, e115_descriptor,
     e117_descriptor, e118_descriptor, e119_descriptor, e121_descriptor

LEMMA HostTypes ==
  ASSUME Types
  PROVE  /\ host \in HostRecord /\ host.tool \in Readers /\ host.total \in Nat \ {0}
         /\ host.planned \in Int /\ host.received \in Nat /\ host.error \in BOOLEAN
         /\ host.bad \in BOOLEAN /\ host.data \in Data /\ host.kept \in Seq(Items)
         /\ host.tries \in 1 .. 4 /\ host.exit \in {"none", "good", "failed"}
  BY DEF Types, HostRecord

\* What only a callback, and the start of the stream, change.
Same(h) ==
  /\ h.tool = host.tool /\ h.total = host.total /\ h.planned = host.planned
  /\ h.received = host.received /\ h.error = host.error /\ h.data = host.data

LEMMA KeptType ==
  ASSUME Types, NEW got \in Data
  PROVE  Kept(got) \in Seq(Items)
<1>1. host.kept \in Seq(Items) /\ host.received \in Nat BY HostTypes
<1>2. [offset |-> host.received, data |-> got] \in Items BY <1>1 DEF Items
<1>3. Append(host.kept, [offset |-> host.received, data |-> got]) \in Seq(Items)
  BY <1>1, <1>2, AppendElements
<1> QED BY <1>1, <1>3 DEF Kept

LEMMA TookType ==
  ASSUME Types, NEW t \in Results, NEW h, h = Took(t)
  PROVE  /\ h \in HostRecord
         /\ h.data = host.data \o t.got /\ h.received = host.received + Len(t.got)
         /\ h.tool = host.tool /\ h.total = host.total /\ h.planned = host.planned
         /\ h.error = host.error /\ h.at = host.at /\ h.exit = host.exit
<1>1. t.got \in Data /\ Len(t.got) \in Nat BY ResultFields
<1>2. host \in HostRecord BY HostTypes
<1>3. PICK data \in Data : data = host.data \o t.got BY <1>1, HostTypes, DataConcat
<1>4. PICK received \in Nat : received = host.received + Len(t.got)
  <2>1. host.received + Len(t.got) \in Nat BY <1>1, HostTypes
  <2> QED BY <2>1
<1>5. PICK kept \in Seq(Items) : kept = Kept(t.got) BY <1>1, KeptType
<1>6. PICK bad \in BOOLEAN : bad = (host.bad \/ Mismatch(t.got)) OBVIOUS
<1>7. h = [host EXCEPT !.data = data, !.bad = bad, !.kept = kept, !.received = received]
  BY <1>3, <1>4, <1>5, <1>6 DEF Took
<1>8. h \in HostRecord BY <1>2, <1>7 DEF HostRecord
<1>9. /\ h.data = data /\ h.received = received
      /\ h.tool = host.tool /\ h.total = host.total /\ h.planned = host.planned
      /\ h.error = host.error /\ h.at = host.at /\ h.exit = host.exit
  BY <1>2, <1>7 DEF HostRecord
<1> QED BY <1>3, <1>4, <1>8, <1>9

LEMMA PieceType ==
  ASSUME Types, NEW left \in Int
  PROVE  /\ Piece(left) \in Int
         /\ host.tool.asks # "whole" => Piece(left) <= left
         /\ left > 0 => Piece(left) > 0
  BY Constants DEF Piece

LEMMA AgainType ==
  ASSUME Types, NEW t \in Results, NEW received \in Nat
  PROVE  Again(t, received) \in Int
<1>1. t.want - Len(t.got) \in Int BY ResultFields
<1>2. /\ host.total - received \in Int /\ host.total - host.planned \in Int /\ Transfer \in Int
  BY HostTypes, Constants
<1>3. Piece(host.total - received) \in Int /\ Piece(host.total - host.planned) \in Int
  BY <1>2, PieceType
<1> QED BY <1>1, <1>2, <1>3 DEF Again

Pushed(a, b, size) ==
  /\ Len(b) = Len(a) + 1 /\ \A i \in 1 .. Len(a) : b[i] = a[i]
  /\ b[Len(a) + 1].want = size /\ b[Len(a) + 1].got = <<>>

\* A transfer is called back: its data are taken and it may be submitted again.
LEMMA ResubmitEffect ==
  ASSUME Types, NEW t \in Results, NEW rest \in WireRecord, Firsts(rest), Resubmit(t, Took(t), rest)
  PROVE  /\ host' \in HostRecord /\ wire' \in WireRecord /\ Firsts(wire')
         /\ host'.data = host.data \o t.got /\ host'.received = host.received + Len(t.got)
         /\ host'.tool = host.tool /\ host'.total = host.total
         /\ host'.error = host.error /\ host'.at = host.at /\ host'.exit = host.exit
         /\ Again(t, host'.received) \in Int
         /\ host'.planned = IF host.tool.asks # "whole" /\ Len(t.got) = t.want
                            THEN host.planned + Again(t, host'.received) ELSE host.planned
         /\ \/ /\ Again(t, host'.received) > 0
               /\ Pushed(OutOf(rest), OutOf(wire'), Again(t, host'.received))
            \/ /\ ~(Again(t, host'.received) > 0)
               /\ Alike(OutOf(rest), OutOf(wire'))
<1>1. PICK h : h = Took(t) OBVIOUS
<1>2. /\ h \in HostRecord
      /\ h.data = host.data \o t.got /\ h.received = host.received + Len(t.got)
      /\ h.tool = host.tool /\ h.total = host.total /\ h.planned = host.planned
      /\ h.error = host.error /\ h.at = host.at /\ h.exit = host.exit
  BY <1>1, TookType
<1>3. h.received \in Nat /\ h.planned \in Int BY <1>2 DEF HostRecord
<1>4. PICK size \in Int : size = Again(t, h.received) BY <1>3, AgainType
<1>5. PICK new \in BOOLEAN : new = (host.tool.asks # "whole" /\ Len(t.got) = t.want) OBVIOUS
<1>6. PICK planned \in Int : planned = IF new THEN h.planned + size ELSE h.planned
  <2>1. h.planned + size \in Int BY <1>3
  <2> QED BY <1>3, <2>1
<1>7. /\ host' = [h EXCEPT !.planned = planned]
      /\ wire' = IF size > 0 THEN [rest EXCEPT !.flight = Append(@, Request(size, "stream"))]
               ELSE IF host.tool.onError = "raise" /\ host.tool.cancels /\ h.received >= host.total
               THEN CancelAll(rest) ELSE rest
  BY <1>1, <1>4, <1>5, <1>6 DEF Resubmit
<1>8. host' \in HostRecord BY <1>2, <1>7 DEF HostRecord
<1>9. /\ host'.data = h.data /\ host'.received = h.received /\ host'.tool = h.tool
      /\ host'.total = h.total /\ host'.error = h.error /\ host'.at = h.at /\ host'.exit = h.exit
      /\ host'.planned = planned
  BY <1>2, <1>7 DEF HostRecord
<1>10. CASE size > 0
  <2>1. wire' = [rest EXCEPT !.flight = Append(@, Request(size, "stream"))] BY <1>7, <1>10
  <2>2. size \in Nat BY <1>10
  <2>3. wire' \in WireRecord /\ Firsts(wire') /\ Pushed(OutOf(rest), OutOf(wire'), size)
    BY <2>1, <2>2, PushOut DEF Pushed
  <2> QED BY <1>2, <1>4, <1>5, <1>6, <1>8, <1>9, <1>10, <2>3
<1>11. CASE ~(size > 0)
  <2>1. wire' \in {CancelAll(rest), rest} BY <1>7, <1>11
  <2>2. Alike(OutOf(rest), OutOf(rest)) BY DEF Alike
  <2>3. wire' \in WireRecord /\ Firsts(wire') /\ Alike(OutOf(rest), OutOf(wire'))
    BY <2>1, <2>2, CancelOut
  <2> QED BY <1>2, <1>4, <1>5, <1>6, <1>8, <1>9, <1>11, <2>3
<1> QED BY <1>10, <1>11

\* A transfer has failed.
LEMMA FailedEffect ==
  ASSUME Types, NEW t \in Results, host' = Failed(t)
  PROVE  /\ host' \in HostRecord
         /\ host'.tool = host.tool /\ host'.total = host.total /\ host'.planned = host.planned
         /\ host'.received = host.received /\ host'.data = host.data
         /\ host'.at = host.at /\ host'.exit = host.exit
         /\ (~host'.error => ~host.error)
         /\ (host.tool.onError = "raise" /\ ~host'.error => host.received >= host.total)
<1>1. host \in HostRecord BY HostTypes
<1>2. PICK error \in BOOLEAN :
        error = (\/ host.error
                 \/ host.tool.onError = "stop" /\ ~host.closing
                 \/ /\ host.tool.onError = "raise"
                    /\ t.how = "failed" \/ ~(host.tool.cancels /\ host.received >= host.total))
  OBVIOUS
<1>3. host' = [host EXCEPT !.error = error] BY <1>2 DEF Failed
<1>4. host' \in HostRecord BY <1>1, <1>3 DEF HostRecord
<1>5. /\ host'.tool = host.tool /\ host'.total = host.total /\ host'.planned = host.planned
      /\ host'.received = host.received /\ host'.data = host.data
      /\ host'.at = host.at /\ host'.exit = host.exit /\ host'.error = error
  BY <1>1, <1>3 DEF HostRecord
<1> QED BY <1>2, <1>4, <1>5

----------------------------------------------------------------------------
(* The first requests.                                                     *)

LEMMA DivMod ==
  ASSUME NEW a \in Nat, NEW n \in Nat \ {0}
  PROVE  \E q \in Nat : n * q <= a /\ a < n * (q + 1)
<1>1. a \div n \in Nat /\ a % n \in 0 .. n - 1 OBVIOUS
<1>2. a = n * (a \div n) + (a % n) OBVIOUS
<1>3. PICK q \in Nat, r \in 0 .. n - 1 : a = n * q + r BY <1>1, <1>2
<1>4. n * (q + 1) = n * q + n /\ n * q \in Nat OBVIOUS
<1> QED BY <1>3, <1>4

LEMMA Times ==
  ASSUME NEW n \in Nat \ {0}, NEW a \in Nat, NEW b \in Nat
  PROVE  /\ n * a \in Nat /\ n * (a + 1) = n * a + n /\ n * 0 = 0
         /\ (a <= b => n * a <= n * b)
<1>1. n * a \in Nat /\ n * (a + 1) = n * a + n /\ n * 0 = 0 OBVIOUS
<1>2. ASSUME a <= b PROVE n * a <= n * b
  <2>1. PICK d \in Nat : b = a + d
    <3>1. b - a \in Nat /\ b = a + (b - a) BY <1>2
    <3> QED BY <3>1
  <2>2. n * (a + d) = n * a + n * d /\ n * d \in Nat OBVIOUS
  <2> QED BY <1>1, <2>1, <2>2
<1> QED BY <1>1, <1>2

LEMMA WidthType ==
  ASSUME Types
  PROVE  Width \in Nat \ {0}
  BY Constants DEF Width

\* As many as fit, and a plan has no more than it needs.
LEMMA FirstCount ==
  ASSUME Types
  PROVE  \E m \in 1 .. Width :
           /\ FirstRequests = [i \in 1 .. m |->
                Request(Piece(host.total - Transfer * (i - 1)), "stream")]
           /\ host.tool.asks # "whole" =>
                /\ \A i \in 1 .. m : Transfer * (i - 1) < host.total
                /\ m = Width \/ Transfer * m >= host.total
<1> DEFINE whole == host.tool.asks = "whole"
           needed == {i \in 1 .. Width : host.tool.asks = "whole" \/ Transfer * (i - 1) < host.total}
<1>1. PICK T \in Nat \ {0}, N \in Nat \ {0}, W \in Nat \ {0} : T = Transfer /\ N = host.total /\ W = Width
  BY WidthType, HostTypes, Constants
<1>2. \E m \in 1 .. W :
        /\ needed = 1 .. m
        /\ ~whole => /\ \A i \in 1 .. m : T * (i - 1) < N
                     /\ m = W \/ T * m >= N
  <2>1. CASE whole
    <3>1. needed = 1 .. W BY <1>1, <2>1
    <3>2. W \in 1 .. W OBVIOUS
    <3> QED BY <2>1, <3>1, <3>2
  <2>2. CASE ~whole
    <3>1. N - 1 \in Nat OBVIOUS
    <3>2. PICK q \in Nat : T * q <= N - 1 /\ N - 1 < T * (q + 1) BY <3>1, DivMod
    <3>3. q + 1 \in Nat /\ T * q \in Nat /\ T * (q + 1) \in Nat BY Times
    <3>4. T * q < N /\ T * (q + 1) >= N BY <3>2, <3>3
    <3>5. ASSUME NEW i \in Nat, i <= q PROVE T * i < N
      <4>1. T * i \in Nat /\ T * i <= T * q BY <3>5, Times
      <4> QED BY <3>3, <3>4, <4>1
    <3>6. ASSUME NEW i \in Nat, q < i PROVE ~(T * i < N)
      <4>1. q + 1 <= i BY <3>6
      <4>2. T * i \in Nat /\ T * (q + 1) <= T * i BY <3>3, <4>1, Times
      <4> QED BY <3>3, <3>4, <4>2
    <3>7. ASSUME NEW i \in 1 .. W PROVE i - 1 \in Nat /\ (i - 1 <= q <=> i <= q + 1) /\ (q < i - 1 <=> ~(i <= q + 1))
      OBVIOUS
    <3>8. \A i \in 1 .. W : T * (i - 1) < N <=> i <= q + 1 BY <3>5, <3>6, <3>7
    <3>9. needed = {i \in 1 .. W : i <= q + 1} BY <1>1, <2>2, <3>8
    <3>10. CASE W <= q + 1
      <4>1. W \in 1 .. W /\ \A i \in 1 .. W : i <= q + 1 BY <3>10
      <4>2. needed = 1 .. W BY <3>9, <4>1
      <4> QED BY <3>8, <4>1, <4>2
    <3>11. CASE q + 1 < W
      <4>1. q + 1 \in 1 .. W /\ \A i \in 1 .. q + 1 : i <= q + 1 /\ i \in 1 .. W BY <3>11
      <4>2. \A i \in 1 .. W : i <= q + 1 => i \in 1 .. q + 1 OBVIOUS
      <4>3. needed = 1 .. q + 1 BY <3>9, <4>1, <4>2
      <4> QED BY <3>4, <3>8, <4>1, <4>3
    <3> QED BY <3>10, <3>11
  <2> QED BY <2>1, <2>2
<1>3. PICK m \in 1 .. W :
        /\ needed = 1 .. m
        /\ ~whole => /\ \A i \in 1 .. m : T * (i - 1) < N
                     /\ m = W \/ T * m >= N
  BY <1>2
<1>4. Cardinality(needed) = m
  <2>1. 1 \in Int /\ m \in Int /\ ~(1 > m) /\ (m - 1) + 1 = m OBVIOUS
  <2>2. Cardinality(1 .. m) = IF 1 > m THEN 0 ELSE (m - 1) + 1 BY <2>1, FS_Interval
  <2>3. Cardinality(1 .. m) = m BY <2>1, <2>2
  <2> QED BY <1>3, <2>3
<1>5. FirstRequests = [i \in 1 .. Cardinality(needed) |->
         Request(Piece(host.total - Transfer * (i - 1)), "stream")]
  BY DEF FirstRequests
<1> HIDE DEF needed
<1> QED BY <1>1, <1>3, <1>4, <1>5

LEMMA FirstEffect ==
  ASSUME Types
  PROVE  /\ FirstRequests \in Seq(Requests) /\ Len(FirstRequests) \in Nat \ {0}
         /\ \A i \in 1 .. Len(FirstRequests) :
              FirstRequests[i].got = <<>> /\ FirstRequests[i].want >= 0
         /\ host.tool.asks = "planned" =>
              \E sum \in [0 .. Len(FirstRequests) -> Int] :
                 Adds(sum, 0, FirstRequests, IF Transfer * Width < host.total THEN Transfer * Width
                                             ELSE host.total)
<1>1. PICK T \in Nat \ {0}, N \in Nat \ {0}, W \in Nat \ {0} : T = Transfer /\ N = host.total /\ W = Width
  BY WidthType, HostTypes, Constants
<1>2. PICK m \in 1 .. W :
        /\ FirstRequests = [i \in 1 .. m |-> Request(Piece(N - T * (i - 1)), "stream")]
        /\ host.tool.asks # "whole" =>
             /\ \A i \in 1 .. m : T * (i - 1) < N
             /\ m = W \/ T * m >= N
  BY <1>1, FirstCount
<1>3. ASSUME NEW i \in 1 .. m
      PROVE  /\ T * (i - 1) \in Nat /\ N - T * (i - 1) \in Int
             /\ Piece(N - T * (i - 1)) \in Nat
  <2>1. i - 1 \in Nat OBVIOUS
  <2>2. PICK k \in Nat : k = T * (i - 1)
    <3>1. T * (i - 1) \in Nat BY <2>1, Times
    <3> QED BY <3>1
  <2>3. N - k \in Int OBVIOUS
  <2>4. Piece(N - k) \in Nat
    <3>1. CASE host.tool.asks = "whole" BY <3>1, Constants DEF Piece
    <3>2. CASE host.tool.asks # "whole"
      <4>1. k < N BY <1>2, <2>2, <3>2
      <4>2. Piece(N - k) > 0 /\ Piece(N - k) \in Int BY <2>3, <4>1, PieceType
      <4> QED BY <4>2
    <3> QED BY <3>1, <3>2
  <2> QED BY <2>2, <2>3, <2>4
<1> DEFINE r(i) == Request(Piece(N - T * (i - 1)), "stream")
<1>4. ASSUME NEW i \in 1 .. m
      PROVE  r(i) \in Requests /\ r(i).got = <<>> /\ r(i).want = Piece(N - T * (i - 1)) /\ r(i).want >= 0
  <2>1. PICK size \in Nat : size = Piece(N - T * (i - 1)) BY <1>3
  <2>2. Request(size, "stream") \in Requests /\ Request(size, "stream").got = <<>>
        /\ Request(size, "stream").want = size
    BY DEF Request, Requests, Data
  <2> QED BY <2>1, <2>2
<1>5. FirstRequests = [i \in 1 .. m |-> r(i)] BY <1>2
<1> HIDE DEF r
<1>6. m \in Nat \ {0} OBVIOUS
<1>7. FirstRequests \in Seq(Requests) /\ Len(FirstRequests) = m
      /\ \A i \in 1 .. m : FirstRequests[i] = r(i)
  BY <1>4, <1>5, <1>6
<1>8. ASSUME host.tool.asks = "planned"
      PROVE  \E sum \in [0 .. m -> Int] :
               Adds(sum, 0, FirstRequests, IF Transfer * Width < host.total THEN Transfer * Width
                                           ELSE host.total)
  <2> DEFINE S(i) == IF T * i < N THEN T * i ELSE N
             sum == [i \in 0 .. m |-> S(i)]
  <2>1. ASSUME NEW i \in 0 .. m PROVE S(i) \in Int
    <3>1. T * i \in Nat BY Times
    <3> QED BY <3>1
  <2>2. sum \in [0 .. m -> Int] /\ \A i \in 0 .. m : sum[i] = S(i) BY <2>1
  <2>3. S(0) = 0
    <3>1. T * 0 = 0 BY Times
    <3> QED BY <3>1
  <2>4. ASSUME NEW i \in 1 .. m PROVE S(i) = S(i - 1) + Piece(N - T * (i - 1))
    <3>1. PICK j \in Nat : i = j + 1 /\ i - 1 = j
      <4>1. i - 1 \in Nat /\ i = (i - 1) + 1 OBVIOUS
      <4> QED BY <4>1
    <3>2. PICK k \in Nat : k = T * j /\ T * i = k + T
      <4>1. T * j \in Nat /\ T * (j + 1) = T * j + T BY Times
      <4> QED BY <3>1, <4>1
    <3>3. k < N BY <1>2, <1>8, <3>1, <3>2
    <3>4. S(i - 1) = k /\ S(i) = IF k + T < N THEN k + T ELSE N BY <3>1, <3>2, <3>3
    <3>5. Piece(N - k) = IF N - k > T THEN T ELSE N - k BY <1>1, <1>8 DEF Piece
    <3> HIDE DEF S
    <3>6. Piece(N - T * (i - 1)) = Piece(N - k) BY <3>1, <3>2
    <3> QED BY <3>3, <3>4, <3>5, <3>6
  <2>5. S(m) = IF T * W < N THEN T * W ELSE N
    <3>1. m = W \/ T * m >= N BY <1>2, <1>8
    <3>2. CASE T * m >= N
      <4>1. T * m \in Nat /\ T * W \in Nat /\ T * m <= T * W BY Times
      <4> QED BY <3>2, <4>1
    <3> QED BY <3>1, <3>2
  <2> HIDE DEF S
  <2>6. 0 \in 0 .. m /\ m \in 0 .. m /\ \A i \in 1 .. m : i \in 0 .. m /\ i - 1 \in 0 .. m OBVIOUS
  <2>7. Adds(sum, 0, FirstRequests, IF T * W < N THEN T * W ELSE N)
    <3> HIDE DEF sum
    <3> QED BY <1>4, <1>7, <2>2, <2>3, <2>4, <2>5, <2>6 DEF Adds
  <2> QED BY <1>1, <2>2, <2>7
<1> QED BY <1>4, <1>6, <1>7, <1>8

----------------------------------------------------------------------------
(* What every action does.                                                 *)

\* The stream begins: the first requests are submitted.
Begun ==
  /\ host' \in HostRecord /\ host'.at = "stream" /\ host'.exit = host.exit
  /\ host'.tool = host.tool /\ host'.total = host.total
  /\ host'.received = host.received /\ host'.error = host.error /\ host'.data = host.data
  /\ host.tool.asks = "planned" =>
       host'.planned = IF Transfer * Width < host.total THEN Transfer * Width ELSE host.total

LEMMA StartedEffect ==
  ASSUME Types, host' = Started
  PROVE  Begun
<1>1. host \in HostRecord /\ host.total \in Int BY HostTypes
<1>2. Transfer * Width \in Int
  <2>1. PICK T \in Int, W \in Int : T = Transfer /\ W = Width BY Constants, WidthType
  <2>2. T * W \in Int OBVIOUS
  <2> QED BY <2>1, <2>2
<1>3. PICK n \in Int : n = IF host.tool.asks = "whole" \/ Transfer * Width < host.total
                           THEN Transfer * Width ELSE host.total
  BY <1>1, <1>2
<1>4. host' = [host EXCEPT !.at = "stream", !.planned = n] BY <1>3 DEF Started
<1>5. host' \in HostRecord BY <1>1, <1>4 DEF HostRecord
<1>6. /\ host'.at = "stream" /\ host'.exit = host.exit
      /\ host'.tool = host.tool /\ host'.total = host.total
      /\ host'.received = host.received /\ host'.error = host.error /\ host'.data = host.data
      /\ host'.planned = n
  BY <1>1, <1>4 DEF HostRecord
<1> QED BY <1>3, <1>5, <1>6 DEF Begun

\* The queue is the first requests alone.
LEMMA FirstOut ==
  ASSUME Types, NEW w, w = [flight |-> FirstRequests, done |-> <<>>]
  PROVE  /\ w \in WireRecord /\ Firsts(w) /\ Len(OutOf(w)) = Len(FirstRequests)
         /\ \A i \in 1 .. Len(FirstRequests) : OutOf(w)[i] = FirstRequests[i]
<1>1. /\ FirstRequests \in Seq(Requests) /\ Len(FirstRequests) \in Nat \ {0}
      /\ \A i \in 1 .. Len(FirstRequests) : FirstRequests[i].got = <<>> /\ FirstRequests[i].want >= 0
  BY FirstEffect
<1>2. PICK f \in Seq(Requests) : f = FirstRequests BY <1>1
<1>3. <<>> \in Seq(Results) /\ Len(<<>>) = 0 OBVIOUS
<1>4. w = [flight |-> f, done |-> <<>>] BY <1>2
<1>5. w \in WireRecord BY <1>3, <1>4, WireOf
<1>6. w.flight = f /\ w.done = <<>> BY <1>4
<1>7. PICK m \in Nat \ {0} : m = Len(f) BY <1>1, <1>2
<1>8. 0 + m = m /\ \A i \in 1 .. m : 0 + i = i OBVIOUS
<1>9. Len(OutOf(w)) = m /\ \A i \in 1 .. m : OutOf(w)[i] = f[i]
  <2>1. Len(w.done) = 0 /\ Len(w.flight) = m BY <1>3, <1>6, <1>7
  <2>2. Len(OutOf(w)) = 0 + m BY <1>5, <2>1, OutElements
  <2>3. ASSUME NEW i \in 1 .. m PROVE OutOf(w)[0 + i] = w.flight[i]
    BY <1>5, <2>1, OutElements
  <2> QED BY <1>6, <1>8, <2>2, <2>3
<1>10. Firsts(w)
  <2>1. \A i \in 1 .. m : Len(f[i].got) <= f[i].want /\ f[i].got = <<>>
    BY <1>1, <1>2, <1>3, <1>7
  <2>2. \A i \in 2 .. m : i \in 1 .. m OBVIOUS
  <2> QED BY <1>3, <1>6, <1>7, <2>1, <2>2 DEF Firsts
<1> QED BY <1>2, <1>5, <1>7, <1>9, <1>10

LEMMA ArmEffect ==
  ASSUME Types, Arm
  PROVE  /\ host.at = "arm" /\ dev' \in DevRecord
         /\ dev'.replied = dev.replied /\ dev'.says = dev.says /\ dev'.sent = dev.sent
         /\ dev'.said = dev.said /\ dev'.quiet = dev.quiet
         /\ dev'.left = IF host.tool.drains THEN <<>> ELSE dev.left
         /\ \/ /\ ~Negotiates(host.tool) /\ Begun
               /\ wire' = [flight |-> FirstRequests, done |-> wire.done]
            \/ /\ Negotiates(host.tool) /\ UNCHANGED wire
               /\ host' \in HostRecord /\ Same(host') /\ host'.at = "reply" /\ host'.exit = host.exit
<1>1. host.at = "arm" BY DEF Arm
<1>2. dev \in DevRecord /\ dev.left \in Seq(Data) /\ <<>> \in Seq(Data) BY DEF Types, DevRecord
<1>3. PICK left \in Seq(Data) : left = IF host.tool.drains THEN <<>> ELSE dev.left BY <1>2
<1>4. dev' = [dev EXCEPT !.armed = TRUE, !.left = left] BY <1>3 DEF Arm, Drained
<1>5. /\ dev' \in DevRecord
      /\ dev'.replied = dev.replied /\ dev'.says = dev.says /\ dev'.sent = dev.sent
      /\ dev'.said = dev.said /\ dev'.quiet = dev.quiet /\ dev'.left = left
  BY <1>2, <1>4 DEF DevRecord
<1>6. CASE ~Negotiates(host.tool) /\ wire' = [wire EXCEPT !.flight = FirstRequests] /\ host' = Started
  <2>1. Begun BY <1>6, StartedEffect
  <2>2. wire' = [flight |-> FirstRequests, done |-> wire.done] BY <1>6, WireTypes
  <2> QED BY <1>1, <1>3, <1>5, <1>6, <2>1, <2>2
<1>7. CASE Negotiates(host.tool) /\ host' = [host EXCEPT !.at = "reply"] /\ UNCHANGED wire
  <2>1. host \in HostRecord BY HostTypes
  <2>2. host' \in HostRecord BY <1>7, <2>1 DEF HostRecord
  <2>3. Same(host') /\ host'.at = "reply" /\ host'.exit = host.exit
    BY <1>7, <2>1 DEF HostRecord, Same
  <2> QED BY <1>1, <1>3, <1>5, <1>7, <2>2, <2>3
<1> QED BY <1>6, <1>7 DEF Arm

LEMMA InRange ==
  ASSUME NEW data \in Data, NEW u
  PROVE  u \in Range(data) <=> \E i \in 1 .. Len(data) : data[i] = u
<1>1. DOMAIN data = 1 .. Len(data) BY DEF Data
<1> QED BY <1>1 DEF Range

LEMMA AcceptedEffect ==
  ASSUME Types, Accepted
  PROVE  /\ host.at = "reply" /\ UNCHANGED dev /\ wire.done # <<>> /\ Begun
         /\ Accepts(wire.done[1].got)
         /\ wire' = [flight |-> FirstRequests, done |-> Tail(wire.done)]
<1>1. /\ host.at = "reply" /\ UNCHANGED dev /\ wire.done # <<>> /\ host' = Started
      /\ Accept("own") \in Range(Head(wire.done).got)
      /\ wire' = [flight |-> FirstRequests, done |-> Tail(wire.done)]
  BY DEF Accepted
<1>2. Head(wire.done) = wire.done[1] /\ wire.done[1] \in Results BY <1>1, WireTypes, TailElements
<1>3. wire.done[1].got \in Data BY <1>2, ResultFields
<1>4. Accepts(wire.done[1].got) BY <1>1, <1>2, <1>3, InRange DEF Accepts
<1> QED BY <1>1, <1>4, StartedEffect

LEMMA CloseEffect ==
  ASSUME Types, Close
  PROVE  /\ host.at = "stream" /\ host.tool.onError \in {"stop", "ignore"} /\ UNCHANGED dev
         /\ host' \in HostRecord /\ Same(host') /\ host'.at = "closing" /\ host'.exit = host.exit
         /\ wire' = CancelAll(wire)
<1>1. host \in HostRecord BY HostTypes
<1>2. host' = [host EXCEPT !.at = "closing", !.closing = TRUE] BY DEF Close
<1>3. host' \in HostRecord BY <1>1, <1>2 DEF HostRecord
<1>4. Same(host') /\ host'.at = "closing" /\ host'.exit = host.exit
  BY <1>1, <1>2 DEF HostRecord, Same
<1> QED BY <1>3, <1>4 DEF Close

LEMMA EndStreamEffect ==
  ASSUME Types, EndStream
  PROVE  /\ host.at = "stream" /\ host.tool.onError = "raise" /\ UNCHANGED wire
         /\ host' \in HostRecord /\ Same(host')
         /\ \/ host'.at = "exit" /\ host'.exit = "failed" /\ UNCHANGED dev
            \/ /\ ~host.error /\ wire.flight = <<>> /\ wire.done = <<>>
               /\ host'.at = "status" /\ host'.exit = host.exit
               /\ dev' \in DevRecord /\ dev'.says
               /\ dev'.replied = dev.replied /\ dev'.sent = dev.sent /\ dev'.said = dev.said
               /\ dev'.quiet = dev.quiet /\ dev'.left = dev.left
<1>1. host \in HostRecord /\ host.bad \in BOOLEAN BY HostTypes
<1>2. host.at = "stream" /\ host.tool.onError = "raise" /\ UNCHANGED wire BY DEF EndStream
<1>3. CASE host' = [host EXCEPT !.at = "exit", !.exit = "failed"] /\ UNCHANGED dev
  <2>1. host' \in HostRecord BY <1>1, <1>3 DEF HostRecord
  <2>2. Same(host') /\ host'.at = "exit" /\ host'.exit = "failed" BY <1>1, <1>3 DEF HostRecord, Same
  <2> QED BY <1>2, <1>3, <2>1, <2>2
<1>4. CASE /\ ~host.error /\ wire.flight = <<>> /\ wire.done = <<>>
           /\ host' = [host EXCEPT !.at = "status", !.tries = Tries,
                                   !.bad = IF host.tool.check # "kept" THEN @
                                           ELSE host.kept = <<>> \/ ~Verified(CHOOSE k \in Begins : TRUE)]
           /\ dev' = [dev EXCEPT !.says = TRUE]
  <2>1. PICK tries \in 1 .. 4 : tries = Tries BY DEF Tries
  <2>2. PICK bad \in BOOLEAN :
          bad = IF host.tool.check # "kept" THEN host.bad
                ELSE host.kept = <<>> \/ ~Verified(CHOOSE k \in Begins : TRUE)
    BY <1>1
  <2>3. host' = [host EXCEPT !.at = "status", !.tries = tries, !.bad = bad] BY <1>4, <2>1, <2>2
  <2>4. host' \in HostRecord BY <1>1, <2>3 DEF HostRecord
  <2>5. Same(host') /\ host'.at = "status" /\ host'.exit = host.exit
    BY <1>1, <2>3 DEF HostRecord, Same
  <2>6. dev \in DevRecord BY DEF Types
  <2>7. /\ dev' \in DevRecord /\ dev'.says
        /\ dev'.replied = dev.replied /\ dev'.sent = dev.sent /\ dev'.said = dev.said
        /\ dev'.quiet = dev.quiet /\ dev'.left = dev.left
    BY <1>4, <2>6 DEF DevRecord
  <2> QED BY <1>2, <1>4, <2>4, <2>5, <2>7
<1> QED BY <1>3, <1>4 DEF EndStream

LEMMA ReadEffect ==
  ASSUME Types, Firsts(wire), Read
  PROVE  /\ host.at \in {"reply", "status"} /\ UNCHANGED <<host, dev>>
         /\ wire.flight = <<>> /\ wire.done = <<>>
         /\ wire' = [wire EXCEPT !.flight = Append(@, Request(8, "read"))]
         /\ wire' \in WireRecord /\ Firsts(wire') /\ Pushed(Out, OutOf(wire'), 8)
         /\ wire'.done = <<>> /\ Len(wire'.flight) = 1 /\ wire'.flight[1].got = <<>>
<1>1. /\ host.at \in {"reply", "status"} /\ UNCHANGED <<host, dev>>
      /\ wire.flight = <<>> /\ wire.done = <<>>
      /\ wire' = [wire EXCEPT !.flight = Append(@, Request(8, "read"))]
  BY DEF Read, Ask
<1>2. wire \in WireRecord BY DEF Types
<1>3. /\ wire' \in WireRecord /\ Firsts(wire') /\ Pushed(Out, OutOf(wire'), 8) /\ wire'.done = wire.done
      /\ Len(wire'.flight) = Len(wire.flight) + 1 /\ wire'.flight[Len(wire.flight) + 1].got = <<>>
  <2>1. PICK size \in Nat, who \in {"stream", "read"} : size = 8 /\ who = "read" OBVIOUS
  <2>2. wire' = [wire EXCEPT !.flight = Append(@, Request(size, who))] BY <1>1, <2>1
  <2>3. Pushed(OutOf(wire), OutOf(wire'), size) BY <1>2, <2>2, PushOut DEF Pushed
  <2>4. /\ wire' \in WireRecord /\ Firsts(wire') /\ wire'.done = wire.done
        /\ Len(wire'.flight) = Len(wire.flight) + 1 /\ wire'.flight[Len(wire.flight) + 1].got = <<>>
    BY <1>2, <2>2, PushOut
  <2> QED BY <2>1, <2>3, <2>4 DEF Out
<1>4. Len(wire.flight) = 0 BY <1>1
<1> QED BY <1>1, <1>3, <1>4

LEMMA AnswerEffect ==
  ASSUME Types, Answer
  PROVE  /\ host.at \in {"reply", "status"} /\ UNCHANGED dev /\ wire.done # <<>>
         /\ wire' = [wire EXCEPT !.done = Tail(@)]
         /\ host' \in HostRecord /\ Same(host')
         /\ \/ host'.at = host.at /\ host'.exit = host.exit
            \/ host'.at = "exit" /\ host'.exit = "failed"
            \/ /\ host.at = "status" /\ host'.at = "exit" /\ host'.exit = "good"
               /\ Good(wire.done[1].got)
<1>1. /\ host.at \in {"reply", "status"} /\ UNCHANGED dev /\ wire.done # <<>>
      /\ wire' = [wire EXCEPT !.done = Tail(@)]
  BY DEF Answer
<1>2. host \in HostRecord /\ host.tries \in 1 .. 4 BY HostTypes
<1>3. Head(wire.done) = wire.done[1] BY <1>1, WireTypes, TailElements
<1>4. ASSUME NEW exit \in {"good", "failed"}, host' = [host EXCEPT !.at = "exit", !.exit = exit]
      PROVE  host' \in HostRecord /\ Same(host') /\ host'.at = "exit" /\ host'.exit = exit
  <2>1. host' \in HostRecord BY <1>2, <1>4 DEF HostRecord
  <2>2. Same(host') /\ host'.at = "exit" /\ host'.exit = exit BY <1>2, <1>4 DEF HostRecord, Same
  <2> QED BY <2>1, <2>2
<1>5. CASE host' = IF host.tries = 1 THEN [host EXCEPT !.at = "exit", !.exit = "failed"]
                   ELSE [host EXCEPT !.tries = @ - 1]
  <2>1. CASE host.tries = 1 BY <1>1, <1>4, <1>5, <2>1
  <2>2. CASE host.tries # 1
    <3>1. PICK tries \in 1 .. 4 : tries = host.tries - 1 BY <1>2, <2>2
    <3>2. host' = [host EXCEPT !.tries = tries] BY <1>5, <2>2, <3>1
    <3>3. host' \in HostRecord BY <1>2, <3>2 DEF HostRecord
    <3>4. Same(host') /\ host'.at = host.at /\ host'.exit = host.exit
      BY <1>2, <3>2 DEF HostRecord, Same
    <3> QED BY <1>1, <3>3, <3>4
  <2> QED BY <2>1, <2>2
<1>6. CASE /\ host.at = "status"
           /\ host' = [host EXCEPT !.at = "exit",
                                   !.exit = IF Good(Head(wire.done).got) THEN "good" ELSE "failed"]
  <2>1. CASE Good(wire.done[1].got)
    <3>1. host' = [host EXCEPT !.at = "exit", !.exit = "good"] BY <1>3, <1>6, <2>1
    <3> QED BY <1>1, <1>4, <1>6, <2>1, <3>1
  <2>2. CASE ~Good(wire.done[1].got)
    <3>1. host' = [host EXCEPT !.at = "exit", !.exit = "failed"] BY <1>3, <1>6, <2>2
    <3> QED BY <1>1, <1>4, <3>1
  <2> QED BY <2>1, <2>2
<1>7. CASE host' = [host EXCEPT !.at = "exit", !.exit = "failed"] BY <1>1, <1>4, <1>7
<1> QED BY <1>5, <1>6, <1>7 DEF Answer

LEMMA FinishEffect ==
  ASSUME Types, Finish
  PROVE  /\ host.at = "closing" /\ UNCHANGED <<wire, dev>> /\ wire.flight = <<>> /\ wire.done = <<>>
         /\ host' \in HostRecord /\ Same(host') /\ host'.at = "exit" /\ host'.exit \in {"good", "failed"}
         /\ host'.exit = "good" =>
              /\ host.tool.verdict = "whole" => host.received = host.total
              /\ host.tool.verdict = "enough" => host.received >= host.total
<1>1. PICK clean \in BOOLEAN, came \in BOOLEAN :
          host' = [host EXCEPT
              !.at = "exit",
              !.exit = IF /\ came
                          /\ host.tool.verdict # "enough" => clean
                          /\ host.tool.verdict = "whole" => host.received = host.total
                          /\ host.tool.verdict = "enough" => host.received >= host.total
                       THEN "good" ELSE "failed"]
  BY DEF Finish
<1>2. PICK exit \in {"good", "failed"} :
        exit = IF /\ came
                  /\ host.tool.verdict # "enough" => clean
                  /\ host.tool.verdict = "whole" => host.received = host.total
                  /\ host.tool.verdict = "enough" => host.received >= host.total
               THEN "good" ELSE "failed"
  OBVIOUS
<1>3. host \in HostRecord BY HostTypes
<1>4. host' = [host EXCEPT !.at = "exit", !.exit = exit] BY <1>1, <1>2
<1>5. host' \in HostRecord BY <1>3, <1>4 DEF HostRecord
<1>6. Same(host') /\ host'.at = "exit" /\ host'.exit = exit BY <1>3, <1>4 DEF HostRecord, Same
<1>7. exit = "good" => /\ host.tool.verdict = "whole" => host.received = host.total
                       /\ host.tool.verdict = "enough" => host.received >= host.total
  BY <1>2
<1> QED BY <1>5, <1>6, <1>7 DEF Finish

LEMMA StopEffect ==
  ASSUME Types, Stop
  PROVE  /\ dev' \in DevRecord /\ UNCHANGED <<host, wire>>
         /\ dev'.replied = dev.replied /\ dev'.says = dev.says /\ dev'.sent = dev.sent
         /\ dev'.said = dev.said /\ dev'.left = dev.left /\ dev'.quiet = dev.quiet
<1>1. dev \in DevRecord BY DEF Types
<1> QED BY <1>1 DEF Stop, DevRecord

\* A transfer is called back.
LEMMA CallbackEffect ==
  ASSUME Types, Firsts(wire), Callback
  PROVE  /\ host.at \in {"stream", "closing"} /\ wire.done # <<>> /\ UNCHANGED dev
         /\ \E t \in Results, rest \in WireRecord :
              /\ t = wire.done[1] /\ rest = [wire EXCEPT !.done = Tail(@)] /\ Firsts(rest)
              /\ \/ Resubmit(t, Took(t), rest)
                 \/ host' = Failed(t) /\ wire' = rest
<1>1. wire.done # <<>> /\ host.at \in {"stream", "closing"} /\ UNCHANGED dev BY DEF Callback
<1>2. Head(wire.done) = wire.done[1] /\ wire.done[1] \in Results
  BY <1>1, WireTypes, TailElements
<1> DEFINE rest == [wire EXCEPT !.done = Tail(@)]
<1>3. rest \in WireRecord /\ Firsts(rest) BY <1>1, PopOut
<1>4. LET t == wire.done[1] IN \/ Resubmit(t, Took(t), rest)
                               \/ host' = Failed(t) /\ wire' = rest
  BY <1>2 DEF Callback
<1> HIDE DEF rest
<1>5. rest = [wire EXCEPT !.done = Tail(@)] BY DEF rest
<1> QED BY <1>1, <1>2, <1>3, <1>4, <1>5

LEMMA PacketOut ==
  ASSUME Types, Firsts(wire), Packet
  PROVE  \E p \in NextPackets : \E got \in Data : \E k \in 1 .. Len(Out) :
           /\ p \in Data /\ Sent(p) /\ UNCHANGED host /\ wire' \in WireRecord /\ Firsts(wire')
           /\ Received(Out, OutOf(wire'), k, got) /\ got \in {Out[k].got, Out[k].got \o p}
<1>1. PICK p \in NextPackets, got \in Data :
           /\ p \in Data /\ Sent(p) /\ UNCHANGED host
           /\ wire.flight # <<>> /\ got = wire.flight[1].got \o p
           /\ wire' \in WireRecord
           /\ \/ Grown(got) /\ Len(p) # 1 /\ Len(got) <= wire.flight[1].want
              \/ \E r \in Results : Moved(r) /\ r.got = got /\ Len(got) <= r.want
              \/ \E r \in Results : Moved(r) /\ r.got = wire.flight[1].got
  BY PacketEffect
<1>2. PICK k : k = Len(wire.done) + 1 OBVIOUS
<1>3. wire.flight[1] \in Requests /\ wire.flight[1].got \in Data
      /\ Len(wire.flight[1].got) <= wire.flight[1].want
  <2>1. 1 \in 1 .. Len(wire.flight) BY <1>1, WireTypes
  <2>2. wire.flight[1] \in Requests BY <2>1, WireTypes
  <2> QED BY <2>1, <2>2, RequestFields DEF Firsts
<1>4. CASE Grown(got) /\ Len(p) # 1 /\ Len(got) <= wire.flight[1].want
  <2>1. /\ Received(Out, OutOf(wire'), k, got) /\ Out[k] = wire.flight[1] /\ Firsts(wire')
    BY <1>1, <1>2, <1>4, OutGrown
  <2>2. k \in 1 .. Len(Out) BY <2>1 DEF Received
  <2> QED BY <1>1, <2>1, <2>2
<1>5. ASSUME NEW r \in Results, Moved(r), Len(r.got) <= r.want, r.got \in Data,
             r.got \in {wire.flight[1].got, got}
      PROVE  \E g \in Data, l \in 1 .. Len(Out) :
               /\ Received(Out, OutOf(wire'), l, g) /\ g \in {Out[l].got, Out[l].got \o p}
               /\ Firsts(wire')
  <2>1. /\ Received(Out, OutOf(wire'), k, r.got) /\ Out[k] = wire.flight[1] /\ Firsts(wire')
    BY <1>1, <1>2, <1>5, OutMoved
  <2>2. k \in 1 .. Len(Out) BY <2>1 DEF Received
  <2> QED BY <1>1, <1>5, <2>1, <2>2
<1>6. CASE \E r \in Results : Moved(r) /\ r.got = got /\ Len(got) <= r.want BY <1>1, <1>5, <1>6
<1>7. CASE \E r \in Results : Moved(r) /\ r.got = wire.flight[1].got
  <2>1. PICK r \in Results : Moved(r) /\ r.got = wire.flight[1].got BY <1>7
  <2>2. r.want = wire.flight[1].want BY <2>1 DEF Moved
  <2> QED BY <1>1, <1>3, <1>5, <2>1, <2>2
<1> QED BY <1>1, <1>4, <1>6, <1>7

LEMMA TimedOutOut ==
  ASSUME Types, Firsts(wire), TimedOut
  PROVE  /\ wire' \in WireRecord /\ Firsts(wire') /\ UNCHANGED <<host, dev>>
         /\ Alike(Out, OutOf(wire'))
<1>1. /\ wire' \in WireRecord /\ wire.flight # <<>> /\ UNCHANGED <<host, dev>>
      /\ \E r \in Results : Moved(r) /\ r.got = wire.flight[1].got
  BY TimedOutEffect
<1>2. PICK r \in Results : Moved(r) /\ r.got = wire.flight[1].got BY <1>1
<1>3. 1 \in 1 .. Len(wire.flight) BY <1>1, WireTypes
<1>4. Len(r.got) <= r.want BY <1>2, <1>3 DEF Firsts, Moved
<1>5. PICK k : k = Len(wire.done) + 1 OBVIOUS
<1>6. Received(Out, OutOf(wire'), k, r.got) /\ Out[k] = wire.flight[1] /\ Firsts(wire')
  BY <1>1, <1>2, <1>4, <1>5, OutMoved
<1>7. Alike(Out, OutOf(wire')) BY <1>2, <1>6 DEF Alike, Received
<1> QED BY <1>1, <1>6, <1>7

LEMMA CallbackShape ==
  ASSUME Types, Firsts(wire), Callback
  PROVE  host' \in HostRecord /\ wire' \in WireRecord /\ Firsts(wire') /\ UNCHANGED dev
         /\ host'.tool = host.tool /\ host'.total = host.total /\ host'.at = host.at
         /\ host'.exit = host.exit
<1>1. PICK t \in Results, rest \in WireRecord :
        /\ t = wire.done[1] /\ rest = [wire EXCEPT !.done = Tail(@)] /\ Firsts(rest)
        /\ \/ Resubmit(t, Took(t), rest)
           \/ host' = Failed(t) /\ wire' = rest
  BY CallbackEffect
<1>2. UNCHANGED dev BY CallbackEffect
<1>3. CASE Resubmit(t, Took(t), rest) BY <1>1, <1>2, <1>3, ResubmitEffect
<1>4. CASE host' = Failed(t) /\ wire' = rest BY <1>1, <1>2, <1>4, FailedEffect
<1> QED BY <1>1, <1>3, <1>4

\* The reply was the only transfer.
LEMMA AcceptedOut ==
  ASSUME Types, Reply, Accepted
  PROVE  wire' = [flight |-> FirstRequests, done |-> <<>>]
<1>1. host.at = "reply" /\ wire.done # <<>> BY AcceptedEffect
<1>2. Len(wire.flight) + Len(wire.done) <= 1 BY <1>1 DEF Reply
<1>3. wire.done \in Seq(Results) BY WireTypes
<1>4. PICK n \in Nat, m \in Nat \ {0} : n = Len(wire.flight) /\ m = Len(wire.done)
  BY <1>1, <1>3, WireTypes, TailElements
<1>5. n + m <= 1 BY <1>2, <1>4
<1>6. m - 1 = 0 BY <1>5
<1>7. Len(Tail(wire.done)) = 0 /\ Tail(wire.done) \in Seq(Results)
  BY <1>1, <1>3, <1>4, <1>6, TailElements
<1>8. Tail(wire.done) = <<>> BY <1>7, EmptySeq
<1> QED BY <1>8, AcceptedEffect

\* What stays as it is, whatever happens.
Fixed == host'.tool = host.tool /\ host'.total = host.total /\ dev'.quiet = dev.quiet

LEMMA ShapeStep ==
  ASSUME Types, Firsts(wire), Reply, Armed, [Next]_vars
  PROVE  Types' /\ Firsts(wire)' /\ Fixed
<1>1. host \in HostRecord /\ wire \in WireRecord /\ dev \in DevRecord BY DEF Types
<1>2. CASE Arm
  <2>1. wire.done = <<>> BY <1>2, ArmEffect DEF Armed
  <2>2. CASE wire' = [flight |-> FirstRequests, done |-> wire.done] /\ Begun
    <3>1. wire' \in WireRecord /\ Firsts(wire') BY <2>1, <2>2, FirstOut
    <3> QED BY <1>2, <2>2, <3>1, ArmEffect DEF Types, Begun, Fixed
  <2>3. CASE UNCHANGED wire /\ host' \in HostRecord /\ Same(host')
    BY <1>1, <1>2, <2>3, ArmEffect DEF Types, Same, Fixed, Firsts
  <2> QED BY <1>2, <2>2, <2>3, ArmEffect
<1>3. CASE Accepted
  <2>2. wire' = [flight |-> FirstRequests, done |-> <<>>] BY <1>3, AcceptedOut
  <2>3. wire' \in WireRecord /\ Firsts(wire') BY <2>2, FirstOut
  <2> QED BY <1>1, <1>3, <2>3, AcceptedEffect DEF Types, Begun, Fixed
<1>4. CASE Callback BY <1>1, <1>4, CallbackShape DEF Types, Fixed
<1>5. CASE Close
  <2>1. wire' \in WireRecord /\ Firsts(wire') BY <1>1, <1>5, CloseEffect, CancelOut
  <2> QED BY <1>1, <1>5, <2>1, CloseEffect DEF Types, Same, Fixed
<1>6. CASE EndStream
  <2>1. Firsts(wire') BY <1>6, EndStreamEffect DEF Firsts
  <2> QED BY <1>1, <1>6, <2>1, EndStreamEffect DEF Types, Same, Fixed
<1>7. CASE Read BY <1>1, <1>7, ReadEffect DEF Types, Fixed
<1>8. CASE Answer
  <2>1. wire' \in WireRecord /\ Firsts(wire') BY <1>8, AnswerEffect, PopOut
  <2> QED BY <1>1, <1>8, <2>1, AnswerEffect DEF Types, Same, Fixed
<1>9. CASE Finish
  <2>1. Firsts(wire') BY <1>9, FinishEffect DEF Firsts
  <2> QED BY <1>1, <1>9, <2>1, FinishEffect DEF Types, Same, Fixed
<1>10. CASE Packet
  <2>1. PICK p \in Data : Sent(p) /\ UNCHANGED host /\ wire' \in WireRecord /\ Firsts(wire')
    BY <1>10, PacketOut
  <2> QED BY <1>1, <2>1, SentType DEF Types, Fixed
<1>11. CASE Stop
  <2>1. Firsts(wire') BY <1>11, StopEffect DEF Firsts
  <2> QED BY <1>1, <1>11, <2>1, StopEffect DEF Types, Fixed
<1>12. CASE TimedOut BY <1>1, <1>12, TimedOutOut DEF Types, Fixed
<1>13. CASE Done \/ UNCHANGED vars
  <2>1. host' = host /\ wire' = wire /\ dev' = dev BY <1>13 DEF Done, vars
  <2> QED BY <1>1, <2>1 DEF Types, Fixed, Firsts
<1> QED
  BY <1>2, <1>3, <1>4, <1>5, <1>6, <1>7, <1>8, <1>9, <1>10, <1>11, <1>12, <1>13 DEF Next, Host

----------------------------------------------------------------------------
(* The board and the reply.                                                *)

LEMMA SpeaksStep ==
  ASSUME Types, Firsts(wire), Speaks, [Next]_vars, Fixed
  PROVE  Speaks'
<1>1. host.tool \in Readers BY HostTypes
<1>2. CASE Arm BY <1>2, ArmEffect DEF Speaks, Begun, Same, Fixed
<1>3. CASE Accepted BY <1>3, AcceptedEffect DEF Speaks, Begun, Fixed
<1>4. CASE Callback BY <1>4, CallbackShape DEF Speaks, Fixed
<1>5. CASE Close BY <1>5, CloseEffect DEF Speaks, Fixed
<1>6. CASE EndStream
  <2>1. host.tool.status # "serial" /\ host'.at # "closing" BY <1>1, <1>6, EndStreamEffect, ReaderFacts
  <2>2. dev'.says = dev.says \/ dev'.says BY <1>6, EndStreamEffect
  <2> QED BY <2>1, <2>2 DEF Speaks, Fixed
<1>7. CASE Read BY <1>7, ReadEffect DEF Speaks, Fixed
<1>8. CASE Answer BY <1>8, AnswerEffect DEF Speaks, Fixed
<1>9. CASE Finish BY <1>9, FinishEffect DEF Speaks, Fixed
<1>10. CASE Packet
  <2>1. PICK p \in Data : Sent(p) /\ UNCHANGED host BY <1>10, PacketOut
  <2>2. dev'.says = dev.says BY <2>1, SentType
  <2> QED BY <2>1, <2>2 DEF Speaks
<1>11. CASE Stop BY <1>11, StopEffect DEF Speaks
<1>12. CASE TimedOut BY <1>12, TimedOutOut DEF Speaks
<1>13. CASE Done \/ UNCHANGED vars BY <1>13 DEF Done, vars, Speaks
<1> QED
  BY <1>2, <1>3, <1>4, <1>5, <1>6, <1>7, <1>8, <1>9, <1>10, <1>11, <1>12, <1>13 DEF Next, Host

\* What is left in the endpoint is of an earlier run, and only becomes less.
LEMMA SentLeft ==
  ASSUME Types, NEW p \in Data, Sent(p)
  PROVE  dev'.left = IF dev.left # <<>> THEN Tail(dev.left) ELSE <<>>
<1>1. dev \in DevRecord /\ dev.left \in Seq(Data) BY DEF Types, DevRecord
<1>2. CASE dev.left # <<>>
  <2>1. Tail(dev.left) \in Seq(Data) BY <1>1, <1>2, TailElements
  <2> QED BY <1>1, <1>2, <2>1 DEF Sent, DevRecord
<1>3. CASE dev.left = <<>> BY <1>3, SentType
<1> QED BY <1>2, <1>3

LEMMA OldStep ==
  ASSUME Types, Firsts(wire), Old, [Next]_vars
  PROVE  Old'
<1>1. dev.left \in Seq(Data) BY DEF Types, DevRecord
<1>2. ASSUME dev'.left \in {<<>>, dev.left} PROVE Old'
  <2>1. CASE dev'.left = <<>>
    <3>1. Len(dev'.left) = 0 BY <2>1
    <3> QED BY <3>1 DEF Old
  <2>2. CASE dev'.left = dev.left BY <2>2 DEF Old
  <2> QED BY <1>2, <2>1, <2>2
<1>3. CASE Arm BY <1>2, <1>3, ArmEffect
<1>4. CASE Accepted BY <1>2, <1>4, AcceptedEffect
<1>5. CASE Callback BY <1>2, <1>5, CallbackShape
<1>6. CASE Close BY <1>2, <1>6, CloseEffect
<1>7. CASE EndStream BY <1>2, <1>7, EndStreamEffect
<1>8. CASE Read BY <1>2, <1>8, ReadEffect
<1>9. CASE Answer BY <1>2, <1>9, AnswerEffect
<1>10. CASE Finish BY <1>2, <1>10, FinishEffect
<1>11. CASE Packet
  <2>1. PICK p \in Data : Sent(p) BY <1>11, PacketOut
  <2>2. dev'.left = IF dev.left # <<>> THEN Tail(dev.left) ELSE <<>> BY <2>1, SentLeft
  <2>3. CASE dev.left # <<>>
    <3>1. PICK n \in Nat : n + 1 = Len(dev.left)
      <4>1. PICK k \in Nat \ {0} : k = Len(dev.left) BY <1>1, <2>3, TailElements
      <4>2. k - 1 \in Nat /\ (k - 1) + 1 = k OBVIOUS
      <4> QED BY <4>1, <4>2
    <3>2. (n + 1) - 1 = n /\ \A i \in 1 .. n : i + 1 \in 1 .. n + 1 OBVIOUS
    <3>3. Len(dev'.left) = n /\ \A i \in 1 .. n : dev'.left[i] = dev.left[i + 1]
      BY <1>1, <2>2, <2>3, <3>1, <3>2, TailElements
    <3>4. ASSUME NEW i \in 1 .. n, NEW j \in 1 .. Len(dev'.left[i]) PROVE dev'.left[i][j][1] = "old"
      <4>1. dev'.left[i] = dev.left[i + 1] /\ i + 1 \in 1 .. Len(dev.left) BY <3>1, <3>2, <3>3
      <4>2. j \in 1 .. Len(dev.left[i + 1]) BY <4>1
      <4>3. dev.left[i + 1][j][1] = "old" BY <4>1, <4>2 DEF Old
      <4> QED BY <4>1, <4>3
    <3> QED BY <3>3, <3>4 DEF Old
  <2>4. CASE dev.left = <<>> BY <1>2, <2>2, <2>4
  <2> QED BY <2>3, <2>4
<1>12. CASE Stop BY <1>2, <1>12, StopEffect
<1>13. CASE TimedOut BY <1>2, <1>13, TimedOutOut
<1>14. CASE Done \/ UNCHANGED vars BY <1>2, <1>14 DEF Done, vars
<1> QED
  BY <1>3, <1>4, <1>5, <1>6, <1>7, <1>8, <1>9, <1>10, <1>11, <1>12, <1>13, <1>14 DEF Next, Host

LEMMA ArmedStep ==
  ASSUME Types, Firsts(wire), Armed, [Next]_vars
  PROVE  Armed'
<1>1. CASE Arm BY <1>1, ArmEffect DEF Armed, Begun, Same
<1>2. CASE Accepted BY <1>2, AcceptedEffect DEF Armed, Begun
<1>3. CASE Callback BY <1>3, CallbackShape, CallbackEffect DEF Armed
<1>4. CASE Close BY <1>4, CloseEffect DEF Armed
<1>5. CASE EndStream BY <1>5, EndStreamEffect DEF Armed
<1>6. CASE Read BY <1>6, ReadEffect DEF Armed
<1>7. CASE Answer BY <1>7, AnswerEffect DEF Armed, Same
<1>8. CASE Finish BY <1>8, FinishEffect DEF Armed
<1>9. CASE Packet
  <2>1. PICK p \in Data : Sent(p) /\ UNCHANGED host BY <1>9, PacketOut
  <2>2. host.at # "arm" BY <1>9 DEF Armed, Packet
  <2> QED BY <2>1, <2>2 DEF Armed
<1>10. CASE Stop BY <1>10, StopEffect DEF Armed
<1>11. CASE TimedOut
  <2>1. host.at # "arm" BY <1>11 DEF Armed, TimedOut
  <2> QED BY <1>11, <2>1, TimedOutOut DEF Armed
<1>12. CASE Done \/ UNCHANGED vars BY <1>12 DEF Done, vars, Armed
<1> QED
  BY <1>1, <1>2, <1>3, <1>4, <1>5, <1>6, <1>7, <1>8, <1>9, <1>10, <1>11, <1>12 DEF Next, Host

\* A packet that holds ACCEPT is the reply alone, and the first of its run.
LEMMA ReplyPacket ==
  ASSUME Types, Old, NEW p \in NextPackets, Sent(p), ~dev.replied => dev.sent = 0 /\ ~dev.said
  PROVE  /\ ~dev'.replied => dev'.sent = 0 /\ ~dev'.said
         /\ Accepts(p) =>
              Len(p) = 1 /\ dev'.left = <<>> /\ dev'.replied /\ dev'.sent = 0 /\ ~dev'.said
<1>1. dev \in DevRecord /\ dev.left \in Seq(Data) /\ dev.sent \in Nat BY DEF Types, DevRecord
<1>2. p \in Data BY PacketData
<1>3. dev' \in DevRecord /\ dev'.replied \in {dev.replied, TRUE} /\ (dev.left = <<>> => dev'.left = <<>>)
  BY <1>2, SentType
<1>4. Accept("own") = <<"own", -1>> BY DEF Accept
<1>5. CASE dev.left # <<>>
  <2>1. p = dev.left[1] /\ 1 \in 1 .. Len(dev.left)
    <3>1. Head(dev.left) = dev.left[1] /\ Len(dev.left) \in Nat \ {0} BY <1>1, <1>5, TailElements
    <3>2. p = Head(dev.left) BY <1>5 DEF NextPackets
    <3> QED BY <3>1, <3>2
  <2>2. \A j \in 1 .. Len(p) : p[j][1] = "old" BY <2>1 DEF Old
  <2>3. Accept("own")[1] = "own" BY <1>4
  <2>4. ~Accepts(p) BY <2>2, <2>3 DEF Accepts
  <2>5. dev' = [dev EXCEPT !.left = Tail(@)] BY <1>5 DEF Sent
  <2>6. dev'.replied = dev.replied /\ dev'.sent = dev.sent /\ dev'.said = dev.said
    BY <1>1, <2>5 DEF DevRecord
  <2> QED BY <2>4, <2>6
<1>6. CASE dev.left = <<>> /\ ~dev.replied
  <2>1. p \in {<<Accept("own")>>, <<Reject("own")>>} BY <1>6 DEF NextPackets
  <2>2. /\ <<Accept("own")>> # <<Status("own")>> /\ <<Reject("own")>> # <<Status("own")>>
        /\ <<Accept("own")>> # <<Reject("own")>> /\ Accept("own") # Reject("own")
    BY DEF Accept, Reject, Status
  <2>3. PICK said \in BOOLEAN : said = (p = <<Reject("own")>>) OBVIOUS
  <2>4. dev' = [dev EXCEPT !.replied = TRUE, !.said = said] BY <1>6, <2>1, <2>2, <2>3 DEF Sent
  <2>5. dev'.replied /\ dev'.sent = dev.sent /\ dev'.said = said BY <1>1, <2>4 DEF DevRecord
  <2>6. CASE p = <<Accept("own")>> BY <1>3, <1>6, <2>2, <2>3, <2>5, <2>6
  <2>7. CASE p = <<Reject("own")>>
    <3>1. Len(p) = 1 /\ p[1] = Reject("own") BY <2>7
    <3>2. ~Accepts(p) BY <2>2, <3>1 DEF Accepts
    <3> QED BY <2>5, <3>2
  <2> QED BY <2>1, <2>6, <2>7
<1>7. CASE dev.left = <<>> /\ dev.replied
  <2>1. p \in {<<Status("own")>>, <<<<"own", dev.sent + 1>>>>,
               <<<<"own", dev.sent + 1>>, <<"own", dev.sent + 2>>>>}
    BY <1>7 DEF NextPackets
  <2>2. \A j \in 1 .. Len(p) : p[j][2] >= 0
    <3>1. PICK n \in Nat : n = dev.sent BY <1>1
    <3>2. n + 1 >= 0 /\ n + 2 >= 0 OBVIOUS
    <3> QED BY <2>1, <3>1, <3>2 DEF Status
  <2>3. ~(Accept("own")[2] >= 0) BY <1>4
  <2>4. ~Accepts(p) BY <2>2, <2>3 DEF Accepts
  <2> QED BY <1>3, <1>7, <2>4
<1> QED BY <1>5, <1>6, <1>7

LEMMA AcceptsConcat ==
  ASSUME NEW a \in Data, NEW b \in Data, Accepts(a \o b)
  PROVE  Accepts(a) \/ Accepts(b)
<1>1. PICK i \in 1 .. Len(a \o b) : (a \o b)[i] = Accept("own") BY DEF Accepts
<1>2. \/ i \in 1 .. Len(a) /\ (a \o b)[i] = a[i]
      \/ \E j \in 1 .. Len(b) : i = Len(a) + j /\ (a \o b)[i] = b[j]
  BY <1>1, Parts
<1> QED BY <1>1, <1>2 DEF Accepts

\* The only transfer ends.
LEMMA OnlyMoved ==
  ASSUME Types, wire.flight # <<>>, Len(wire.flight) + Len(wire.done) <= 1, NEW r, Moved(r)
  PROVE  Len(wire'.flight) = 0 /\ Len(wire'.done) = 1 /\ wire'.done[1] = r
<1>1. wire.flight \in Seq(Requests) /\ wire.done \in Seq(Results) /\ r \in Results
  BY WireTypes DEF Moved
<1>2. PICK n \in Nat, m \in Nat \ {0} : n = Len(wire.done) /\ m = Len(wire.flight)
  BY <1>1, WireTypes
<1>3. n = 0 /\ m = 1
  <2>1. m + n <= 1 BY <1>2
  <2> QED BY <2>1
<1>4. /\ wire'.flight = Tail(wire.flight) /\ Len(Tail(wire.flight)) = m - 1
      /\ wire'.done = Append(wire.done, r) /\ Len(Append(wire.done, r)) = n + 1
      /\ Append(wire.done, r)[n + 1] = r
  BY <1>1, <1>2, TailElements, AppendElements DEF Moved
<1> QED BY <1>3, <1>4

LEMMA ReplyStep ==
  ASSUME Types, Firsts(wire), Armed, Old, Reply, [Next]_vars, Types', Fixed
  PROVE  Reply'
<1> SUFFICES ASSUME host'.at = "reply"
             PROVE  /\ Negotiates(host'.tool) /\ Len(wire'.flight) + Len(wire'.done) <= 1
                    /\ ~dev'.replied => dev'.sent = 0 /\ ~dev'.said
                    /\ \A i \in 1 .. Len(wire'.done) : Accepts(wire'.done[i].got) =>
                          dev'.left = <<>> /\ dev'.replied /\ dev'.sent = 0 /\ ~dev'.said
                    /\ \A i \in 1 .. Len(wire'.flight) : ~Accepts(wire'.flight[i].got)
  BY DEF Reply, Negotiates
<1>1. \A got : Len(got) = 0 => ~Accepts(got) BY DEF Accepts
<1>2. CASE Arm
  <2>1. /\ host.at = "arm" /\ UNCHANGED wire /\ Negotiates(host.tool)
        /\ dev'.sent = dev.sent /\ dev'.said = dev.said
    BY <1>2, ArmEffect DEF Begun
  <2>2. Len(wire'.flight) = 0 /\ Len(wire'.done) = 0 BY <2>1 DEF Armed
  <2> QED BY <2>1, <2>2 DEF Armed, Fixed
<1>3. CASE Accepted BY <1>3, AcceptedEffect DEF Begun
<1>4. CASE Callback BY <1>4, CallbackShape, CallbackEffect
<1>5. CASE Close BY <1>5, CloseEffect
<1>6. CASE EndStream BY <1>6, EndStreamEffect
<1>7. CASE Read
  <2>1. /\ host' = host /\ dev' = dev /\ wire'.done = <<>> /\ Len(wire'.flight) = 1
        /\ wire'.flight[1].got = <<>>
    BY <1>7, ReadEffect
  <2>2. Len(wire'.done) = 0 /\ Len(wire'.flight[1].got) = 0 BY <2>1
  <2>3. Len(wire'.flight) + Len(wire'.done) <= 1 BY <2>1, <2>2
  <2>4. \A i \in 1 .. Len(wire'.flight) : ~Accepts(wire'.flight[i].got)
    <3>1. \A i \in 1 .. 1 : i = 1 OBVIOUS
    <3> QED BY <1>1, <2>1, <2>2, <3>1
  <2>5. /\ host.at = "reply" /\ Negotiates(host'.tool)
        /\ ~dev'.replied => dev'.sent = 0 /\ ~dev'.said
    BY <2>1 DEF Reply
  <2>6. \A i \in 1 .. Len(wire'.done) : FALSE BY <2>2
  <2> QED BY <2>3, <2>4, <2>5, <2>6
<1>8. CASE Answer
  <2>1. host.at = "reply" /\ UNCHANGED dev /\ wire.done # <<>> BY <1>8, AnswerEffect
  <2>2. wire' = [wire EXCEPT !.done = Tail(@)] BY <1>8, AnswerEffect
  <2>3. wire'.flight = wire.flight /\ Len(wire'.done) = Len(wire.done) - 1
    BY <2>1, <2>2, PopOut
  <2>4. Len(wire.flight) + Len(wire.done) <= 1 BY <2>1 DEF Reply
  <2>5. PICK n \in Nat, m \in Nat \ {0} : n = Len(wire.flight) /\ m = Len(wire.done)
    BY <2>1, WireTypes
  <2>6. Len(wire'.done) = 0 /\ Len(wire'.flight) = 0
    <3>1. n + m <= 1 BY <2>4, <2>5
    <3>2. n = 0 /\ m = 1 BY <3>1
    <3> QED BY <2>3, <2>5, <3>2
  <2> QED BY <2>1, <2>6 DEF Reply, Fixed
<1>9. CASE Finish BY <1>9, FinishEffect
<1>10. CASE Packet
  <2>1. PICK p \in NextPackets, got \in Data :
           /\ p \in Data /\ Sent(p) /\ UNCHANGED host
           /\ wire.flight # <<>> /\ got = wire.flight[1].got \o p
           /\ wire' \in WireRecord
           /\ \/ Grown(got) /\ Len(p) # 1 /\ Len(got) <= wire.flight[1].want
              \/ \E r \in Results : Moved(r) /\ r.got = got /\ Len(got) <= r.want
              \/ \E r \in Results : Moved(r) /\ r.got = wire.flight[1].got
    BY <1>10, PacketEffect
  <2>2. host.at = "reply" /\ Len(wire.flight) + Len(wire.done) <= 1 BY <2>1 DEF Reply
  <2>3. PICK n \in Nat, m \in Nat \ {0} : n = Len(wire.done) /\ m = Len(wire.flight)
    BY <2>1, WireTypes
  <2>4. n = 0 /\ m = 1
    <3>1. m + n <= 1 BY <2>2, <2>3
    <3> QED BY <3>1
  <2>5. wire.flight[1].got \in Data /\ ~Accepts(wire.flight[1].got)
    <3>1. 1 \in 1 .. Len(wire.flight) BY <2>3
    <3>2. wire.flight[1] \in Requests BY <3>1, WireTypes
    <3> QED BY <2>2, <3>1, <3>2, RequestFields DEF Reply
  <2>6. Accepts(got) => Accepts(p) BY <2>1, <2>5, AcceptsConcat
  <2>7. /\ ~dev'.replied => dev'.sent = 0 /\ ~dev'.said
        /\ Accepts(p) =>
             Len(p) = 1 /\ dev'.left = <<>> /\ dev'.replied /\ dev'.sent = 0 /\ ~dev'.said
    <3>1. ~dev.replied => dev.sent = 0 /\ ~dev.said BY <2>2 DEF Reply
    <3> QED BY <2>1, <3>1, ReplyPacket
  <2>8. CASE Grown(got) /\ Len(p) # 1
    <3>1. Len(wire'.flight) = 1 /\ Len(wire'.done) = 0 /\ wire'.flight[1].got = got
      BY <2>3, <2>4, <2>8 DEF Grown
    <3>2. ~Accepts(got) BY <2>6, <2>7, <2>8
    <3>3. \A i \in 1 .. 1 : i = 1 OBVIOUS
    <3>4. Len(wire'.flight) + Len(wire'.done) <= 1 BY <3>1
    <3> QED BY <2>2, <2>7, <3>1, <3>2, <3>3, <3>4 DEF Reply, Fixed
  <2>9. ASSUME NEW r, Moved(r), r.got \in {got, wire.flight[1].got}
        PROVE  /\ Len(wire'.flight) = 0 /\ Len(wire'.done) = 1
               /\ Accepts(wire'.done[1].got) => Accepts(p)
    <3>1. Len(wire'.flight) = 0 /\ Len(wire'.done) = 1 /\ wire'.done[1] = r
      BY <2>1, <2>2, <2>9, OnlyMoved
    <3> QED BY <2>5, <2>6, <2>9, <3>1
  <2>10. CASE \E r \in Results : Moved(r) /\ r.got \in {got, wire.flight[1].got}
    <3>1. /\ Len(wire'.flight) = 0 /\ Len(wire'.done) = 1
          /\ Accepts(wire'.done[1].got) => Accepts(p)
      BY <2>9, <2>10
    <3> QED BY <2>2, <2>7, <3>1 DEF Reply, Fixed
  <2> QED BY <2>1, <2>8, <2>10
<1>11. CASE Stop BY <1>11, StopEffect DEF Reply
<1>12. CASE TimedOut
  <2>1. /\ wire.flight # <<>> /\ UNCHANGED <<host, dev>>
        /\ \E r \in Results : Moved(r) /\ r.got = wire.flight[1].got
    BY <1>12, TimedOutEffect
  <2>2. PICK r \in Results : Moved(r) /\ r.got = wire.flight[1].got BY <2>1
  <2>3. Len(wire.flight) + Len(wire.done) <= 1 /\ ~Accepts(wire.flight[1].got)
    <3>1. 1 \in 1 .. Len(wire.flight) BY <2>1, WireTypes
    <3> QED BY <2>1, <3>1 DEF Reply
  <2>4. Len(wire'.flight) = 0 /\ Len(wire'.done) = 1 /\ wire'.done[1] = r
    BY <2>1, <2>2, <2>3, OnlyMoved
  <2>5. \A i \in 1 .. 1 : i = 1 OBVIOUS
  <2>6. Len(wire'.flight) + Len(wire'.done) <= 1 BY <2>4
  <2>7. ~Accepts(r.got) BY <2>2, <2>3
  <2>8. /\ host.at = "reply" /\ Negotiates(host'.tool)
        /\ ~dev'.replied => dev'.sent = 0 /\ ~dev'.said
    BY <2>1 DEF Reply
  <2>9. \A i \in 1 .. Len(wire'.done) : ~Accepts(wire'.done[i].got) BY <2>4, <2>5, <2>7
  <2>10. \A i \in 1 .. Len(wire'.flight) : FALSE BY <2>4
  <2> QED BY <2>6, <2>8, <2>9, <2>10
<1>13. CASE Done \/ UNCHANGED vars
  <2>1. host' = host /\ wire' = wire /\ dev' = dev BY <1>13 DEF Done, vars
  <2> QED BY <2>1 DEF Reply
<1> QED
  BY <1>2, <1>3, <1>4, <1>5, <1>6, <1>7, <1>8, <1>9, <1>10, <1>11, <1>12, <1>13 DEF Next, Host

----------------------------------------------------------------------------
(* The order of the data, step by step.                                    *)

LEMMA LinedStart ==
  ASSUME NEW out, \A i \in 1 .. Len(out) : out[i].got = <<>>, NEW board, NEW total
  PROVE  Lined(<<>>, out, board, total)
<1>1. Len(<<>>) = 0 OBVIOUS
<1>2. Fresh(<<>>, board) /\ Sorted(<<>>, total) BY <1>1 DEF Fresh, Sorted
<1>3. Below(<<>>, <<>>, total) BY <1>1 DEF Below
<1> QED BY <1>2, <1>3 DEF Lined, AllFresh, InLine

LEMMA OrderedStep ==
  ASSUME Types, Firsts(wire), Armed, Reply, Ordered, [Next]_vars, Types', Fixed
  PROVE  Ordered'
<1>1. /\ host.total \in Nat /\ host.data \in Data /\ dev.sent \in Nat /\ wire \in WireRecord
      /\ wire' \in WireRecord /\ host'.data \in Data
  BY DEF Types, HostRecord, DevRecord
<1>2. Queue(Out) /\ Queue(OutOf(wire')) BY <1>1, QueueOut DEF Out
<1>3. Clean' <=> Clean BY DEF Clean, Fixed, Negotiates
<1> SUFFICES ASSUME Clean, host'.at \in {"stream", "closing", "status"}
             PROVE  /\ dev'.left = <<>> /\ dev'.replied /\ dev'.sent <= host.total
                    /\ dev'.said => dev'.says
                    /\ Lined(host'.data, OutOf(wire'), dev', host.total)
  BY <1>3 DEF Ordered, Flowing, Fixed, Out, OutOf
<1> DEFINE Before == /\ dev.left = <<>> /\ dev.replied /\ dev.sent <= host.total
                     /\ dev.said => dev.says
                     /\ Lined(host.data, Out, dev, host.total)
<1>4. ASSUME host.at \in {"stream", "closing", "status"} PROVE Before
  BY <1>4 DEF Ordered, Flowing
<1> HIDE DEF Before
<1>5. ASSUME wire' = [flight |-> FirstRequests, done |-> <<>>], host'.data = <<>>
      PROVE  Lined(host'.data, OutOf(wire'), dev', host.total)
  <2>1. /\ Len(OutOf(wire')) = Len(FirstRequests)
        /\ \A i \in 1 .. Len(FirstRequests) : OutOf(wire')[i] = FirstRequests[i]
    BY <1>5, FirstOut
  <2>2. \A i \in 1 .. Len(FirstRequests) : FirstRequests[i].got = <<>> BY FirstEffect
  <2>3. \A i \in 1 .. Len(OutOf(wire')) : OutOf(wire')[i].got = <<>> BY <2>1, <2>2
  <2> QED BY <1>5, <2>3, LinedStart
<1>6. CASE Arm
  <2>1. /\ host.at = "arm" /\ ~Negotiates(host.tool) /\ Begun
        /\ wire' = [flight |-> FirstRequests, done |-> wire.done]
    BY <1>6, ArmEffect
  <2>2. /\ wire.done = <<>> /\ host.data = <<>> /\ ~dev.said /\ dev.sent = 0 /\ dev.replied
        /\ dev.quiet => dev.left = <<>>
    BY <2>1 DEF Armed
  <2>3. dev'.left = <<>> BY <1>6, <2>1, <2>2, ArmEffect DEF Clean
  <2>4. dev'.replied /\ dev'.sent <= host.total /\ ~dev'.said
    <3>1. dev'.sent = 0 BY <1>6, <2>2, ArmEffect
    <3>2. dev'.replied /\ ~dev'.said BY <1>6, <2>2, ArmEffect
    <3>3. 0 <= host.total BY <1>1
    <3> QED BY <3>1, <3>2, <3>3
  <2>5. Lined(host'.data, OutOf(wire'), dev', host.total) BY <1>5, <2>1, <2>2 DEF Begun
  <2> QED BY <2>3, <2>4, <2>5
<1>7. CASE Accepted
  <2>1. /\ host.at = "reply" /\ UNCHANGED dev /\ wire.done # <<>> /\ Begun
        /\ Accepts(wire.done[1].got)
    BY <1>7, AcceptedEffect
  <2>2. wire' = [flight |-> FirstRequests, done |-> <<>>] BY <1>7, AcceptedOut
  <2>3. 1 \in 1 .. Len(wire.done) BY <2>1, WireTypes
  <2>4. dev.left = <<>> /\ dev.replied /\ dev.sent = 0 /\ ~dev.said BY <2>1, <2>3 DEF Reply
  <2>5. host'.data = <<>> BY <2>1 DEF Armed, Begun
  <2>6. Lined(host'.data, OutOf(wire'), dev', host.total) BY <1>5, <2>2, <2>5
  <2> QED BY <1>1, <2>1, <2>4, <2>6
<1>8. CASE Callback
  <2>1. /\ host.at \in {"stream", "closing"} /\ wire.done # <<>> /\ UNCHANGED dev
    BY <1>8, CallbackEffect
  <2>2. PICK t \in Results, rest \in WireRecord :
          /\ t = wire.done[1] /\ rest = [wire EXCEPT !.done = Tail(@)] /\ Firsts(rest)
          /\ \/ Resubmit(t, Took(t), rest)
             \/ host' = Failed(t) /\ wire' = rest
    BY <1>8, CallbackEffect
  <2>3. Before BY <1>4, <2>1
  <2>4. /\ Out[1] = t /\ Len(Out) > 0 /\ Len(OutOf(rest)) = Len(Out) - 1
        /\ \A i \in 1 .. Len(Out) - 1 : OutOf(rest)[i] = Out[i + 1]
    <3>1. /\ Out[1] = wire.done[1] /\ Len(Out) \in Nat \ {0} /\ Len(OutOf(rest)) = Len(Out) - 1
          /\ \A i \in 1 .. Len(Out) - 1 : OutOf(rest)[i] = Out[i + 1]
      BY <2>1, <2>2, PopOut
    <3>2. Len(Out) > 0 BY <3>1
    <3>3. Out[1] = t BY <2>2, <3>1
    <3> QED BY <3>1, <3>2, <3>3
  <2>5. /\ Lined(host.data, OutOf(rest), dev, host.total)
        /\ Lined(host.data \o t.got, OutOf(rest), dev, host.total)
    <3>1. Lined(host.data, Out, dev, host.total) BY <2>3 DEF Before
    <3>2. /\ Lined(host.data, OutOf(rest), dev, host.total)
          /\ Lined(host.data \o Out[1].got, OutOf(rest), dev, host.total)
      BY <1>1, <1>2, <2>4, <3>1, LinedPop
    <3> QED BY <2>4, <3>2
  <2>6. CASE Resubmit(t, Took(t), rest)
    <3>1. host'.data = host.data \o t.got BY <2>2, <2>6, ResubmitEffect
    <3>2. \/ Pushed(OutOf(rest), OutOf(wire'), Again(t, host'.received))
          \/ Alike(OutOf(rest), OutOf(wire'))
      BY <2>2, <2>6, ResubmitEffect
    <3>3. Lined(host'.data, OutOf(wire'), dev, host.total)
      <4>1. CASE Alike(OutOf(rest), OutOf(wire')) BY <2>5, <3>1, <4>1, LinedAlike
      <4>2. CASE Pushed(OutOf(rest), OutOf(wire'), Again(t, host'.received))
        <5>1. Queue(OutOf(rest)) BY QueueOut
        <5> QED BY <2>5, <3>1, <4>2, <5>1, LinedPush DEF Pushed
      <4> QED BY <3>2, <4>1, <4>2
    <3> QED BY <2>1, <2>3, <3>3 DEF Before
  <2>7. CASE host' = Failed(t) /\ wire' = rest
    <3>1. host'.data = host.data BY <2>7, FailedEffect
    <3> QED BY <2>1, <2>3, <2>5, <2>7, <3>1 DEF Before
  <2> QED BY <2>2, <2>6, <2>7
<1>9. CASE Close
  <2>1. host.at = "stream" /\ UNCHANGED dev /\ host'.data = host.data /\ wire' = CancelAll(wire)
    BY <1>9, CloseEffect DEF Same
  <2>2. Before BY <1>4, <2>1
  <2>3. Alike(OutOf(wire), OutOf(wire')) BY <1>1, <2>1, CancelOut
  <2>4. Lined(host.data, OutOf(wire'), dev, host.total) BY <2>2, <2>3, LinedAlike DEF Before, Out
  <2> QED BY <2>1, <2>2, <2>4 DEF Before
<1>10. CASE EndStream
  <2>1. /\ host.at = "stream" /\ UNCHANGED wire /\ host'.data = host.data
        /\ dev'.says /\ dev'.replied = dev.replied /\ dev'.sent = dev.sent
        /\ dev'.said = dev.said /\ dev'.left = dev.left
    BY <1>10, EndStreamEffect DEF Same
  <2>2. Before BY <1>4, <2>1
  <2>3. Lined(host.data, Out, dev', host.total) BY <1>1, <2>1, <2>2, LinedGrows DEF Before
  <2> QED BY <2>1, <2>2, <2>3 DEF Before, Out
<1>11. CASE Read
  <2>1. /\ host' = host /\ dev' = dev /\ Pushed(Out, OutOf(wire'), 8)
    BY <1>11, ReadEffect
  <2>2. Before BY <1>4, <2>1
  <2>3. Lined(host.data, OutOf(wire'), dev, host.total)
    BY <1>2, <2>1, <2>2, LinedPush DEF Before, Pushed
  <2> QED BY <2>1, <2>2, <2>3 DEF Before
<1>12. CASE Answer
  <2>1. /\ host.at = "status" /\ UNCHANGED dev /\ wire.done # <<>> /\ host'.data = host.data
        /\ wire' = [wire EXCEPT !.done = Tail(@)]
    BY <1>12, AnswerEffect DEF Same
  <2>2. Before BY <1>4, <2>1
  <2>3. /\ Len(Out) \in Nat \ {0} /\ Len(OutOf(wire')) = Len(Out) - 1
        /\ \A i \in 1 .. Len(Out) - 1 : OutOf(wire')[i] = Out[i + 1]
    BY <2>1, PopOut
  <2>4. Lined(host.data, OutOf(wire'), dev, host.total)
    <3>1. Lined(host.data, Out, dev, host.total) BY <2>2 DEF Before
    <3>2. Len(Out) > 0 BY <2>3
    <3> QED BY <1>1, <1>2, <2>3, <3>1, <3>2, LinedPop
  <2> QED BY <2>1, <2>2, <2>4 DEF Before
<1>13. CASE Finish BY <1>13, FinishEffect
<1>14. CASE Packet
  <2>1. PICK p \in NextPackets, got \in Data, k \in 1 .. Len(Out) :
           /\ p \in Data /\ Sent(p) /\ UNCHANGED host
           /\ Received(Out, OutOf(wire'), k, got) /\ got \in {Out[k].got, Out[k].got \o p}
    BY <1>14, PacketOut
  <2>2. Before BY <1>4, <2>1
  <2>3. /\ dev'.left = <<>> /\ dev'.replied /\ (dev'.said => dev'.says)
        /\ dev'.sent \in Nat /\ dev.sent <= dev'.sent /\ dev'.sent <= host.total
        /\ dev.said => dev'.said
        /\ p \in Data /\ Fresh(p, dev') /\ Sorted(p, host.total)
        /\ \A data : Fresh(data, dev) => Below(data, p, host.total)
    BY <2>1, <2>2, FlowingPacket DEF Before
  <2>4. Lined(host.data, Out, dev, host.total) BY <2>2 DEF Before
  <2>5. Below(host.data, p, host.total) /\ \A i \in 1 .. Len(Out) : Below(Out[i].got, p, host.total)
    BY <2>3, <2>4 DEF Lined, AllFresh
  <2>6. \A i \in 1 .. k : i \in 1 .. Len(Out) BY <1>2 DEF Queue
  <2>7. Lined(host.data, Out, dev', host.total) BY <1>1, <2>3, <2>4, LinedGrows
  <2>8. Lined(host.data, OutOf(wire'), dev', host.total)
    BY <1>1, <1>2, <2>1, <2>3, <2>5, <2>6, <2>7, LinedReceived
  <2> QED BY <2>1, <2>3, <2>8
<1>15. CASE Stop
  <2>1. /\ host' = host /\ wire' = wire
        /\ dev'.replied = dev.replied /\ dev'.says = dev.says /\ dev'.sent = dev.sent
        /\ dev'.said = dev.said /\ dev'.left = dev.left
    BY <1>15, StopEffect
  <2>2. Before BY <1>4, <2>1
  <2>3. Lined(host.data, Out, dev', host.total) BY <1>1, <2>1, <2>2, LinedGrows DEF Before
  <2> QED BY <2>1, <2>2, <2>3 DEF Before, Out
<1>16. CASE TimedOut
  <2>1. host' = host /\ dev' = dev /\ Alike(Out, OutOf(wire')) BY <1>16, TimedOutOut
  <2>2. Before BY <1>4, <2>1
  <2>3. Lined(host.data, OutOf(wire'), dev, host.total) BY <2>1, <2>2, LinedAlike DEF Before
  <2> QED BY <2>1, <2>2, <2>3 DEF Before
<1>17. CASE Done \/ UNCHANGED vars
  <2>1. host' = host /\ wire' = wire /\ dev' = dev BY <1>17 DEF Done, vars
  <2>2. Before BY <1>4, <2>1
  <2> QED BY <2>1, <2>2 DEF Before, Out
<1> QED
  BY <1>6, <1>7, <1>8, <1>9, <1>10, <1>11, <1>12, <1>13, <1>14, <1>15, <1>16, <1>17 DEF Next, Host

----------------------------------------------------------------------------
(* What is outstanding reaches to the total.                               *)

LEMMA PlanWants ==
  ASSUME NEW a, NEW b, Len(b) = Len(a), \A i \in 1 .. Len(a) : b[i].want = a[i].want,
         NEW received, NEW planned, Plan(a, received, planned)
  PROVE  Plan(b, received, planned)
  BY DEF Plan, Adds

LEMMA PlanEmpty ==
  ASSUME NEW a, Len(a) = 0, NEW received, NEW planned, Plan(a, received, planned)
  PROVE  received = planned
<1>1. PICK sum \in [0 .. Len(a) -> Int] : Adds(sum, received, a, planned) BY DEF Plan
<1> QED BY <1>1 DEF Adds

\* The first transfer is done, with `got` units.
LEMMA PlanPop ==
  ASSUME NEW a, Queue(a), Len(a) > 0, NEW b, Len(b) = Len(a) - 1,
         \A i \in 1 .. Len(a) - 1 : b[i] = a[i + 1],
         NEW received \in Int, NEW planned \in Int, Plan(a, received, planned), NEW got \in Int
  PROVE  Plan(b, received + got, planned - (a[1].want - got))
<1>1. PICK n \in Nat : n + 1 = Len(a)
  <2>1. PICK k \in Nat : k = Len(a) BY DEF Queue
  <2>2. k - 1 \in Nat /\ (k - 1) + 1 = k BY <2>1
  <2> QED BY <2>1, <2>2
<1>2. /\ (n + 1) - 1 = n /\ 0 \in 0 .. n /\ n \in 0 .. n /\ 1 \in 1 .. n + 1
      /\ \A i \in 0 .. n : i + 1 \in 0 .. n + 1
      /\ \A i \in 1 .. n : /\ i \in 0 .. n /\ i - 1 \in 0 .. n /\ i + 1 \in 1 .. n + 1
                           /\ (i + 1) - 1 = i /\ (i - 1) + 1 = i
  OBVIOUS
<1>3. Len(b) = n /\ \A i \in 1 .. n : b[i] = a[i + 1] BY <1>1, <1>2
<1>4. PICK sum \in [0 .. n + 1 -> Int] :
        /\ sum[0] = received /\ sum[n + 1] = planned
        /\ \A i \in 1 .. n + 1 : sum[i] = sum[i - 1] + a[i].want
  BY <1>1 DEF Plan, Adds
<1>5. PICK w \in Int : w = a[1].want
  <2>1. 1 \in 1 .. Len(a) BY <1>1
  <2> QED BY <2>1 DEF Queue
<1>6. sum[1] = received + w
  <2>1. 1 - 1 = 0 OBVIOUS
  <2> QED BY <1>2, <1>4, <1>5, <2>1
<1> DEFINE later == [i \in 0 .. n |-> sum[i + 1] - (w - got)]
<1>7. \A i \in 0 .. n : sum[i + 1] \in Int BY <1>2
<1>8. later \in [0 .. n -> Int] /\ \A i \in 0 .. n : later[i] = sum[i + 1] - (w - got) BY <1>7
<1> HIDE DEF later
<1>9. later[0] = received + got
  <2>1. later[0] = sum[1] - (w - got)
    <3>1. 0 + 1 = 1 OBVIOUS
    <3> QED BY <1>2, <1>8, <3>1
  <2> QED BY <1>6, <2>1
<1>10. later[n] = planned - (w - got) BY <1>2, <1>4, <1>8
<1>11. ASSUME NEW i \in 1 .. n PROVE later[i] = later[i - 1] + b[i].want
  <2>1. later[i] = sum[i + 1] - (w - got) /\ later[i - 1] = sum[i] - (w - got) BY <1>2, <1>8
  <2>2. sum[i + 1] = sum[i] + a[i + 1].want BY <1>2, <1>4
  <2>3. a[i + 1].want \in Int /\ sum[i] \in Int
    <3>1. i + 1 \in 1 .. Len(a) /\ i \in 0 .. n + 1 BY <1>1, <1>2
    <3> QED BY <3>1 DEF Queue
  <2>4. PICK x \in Int, y \in Int : x = a[i + 1].want /\ y = sum[i] BY <2>3
  <2>5. (y + x) - (w - got) = (y - (w - got)) + x OBVIOUS
  <2>6. b[i].want = x BY <1>3, <2>4
  <2> QED BY <2>1, <2>2, <2>4, <2>5, <2>6
<1>12. Adds(later, received + got, b, planned - (w - got)) BY <1>3, <1>9, <1>10, <1>11 DEF Adds
<1> QED BY <1>3, <1>5, <1>8, <1>12 DEF Plan

LEMMA PlanPush ==
  ASSUME NEW a, Queue(a), NEW b, NEW size \in Int, Pushed(a, b, size),
         NEW received, NEW planned \in Int, Plan(a, received, planned)
  PROVE  Plan(b, received, planned + size)
<1>1. PICK n \in Nat : n = Len(a) BY DEF Queue
<1>2. PICK sum \in [0 .. n -> Int] :
        /\ sum[0] = received /\ sum[n] = planned
        /\ \A i \in 1 .. n : sum[i] = sum[i - 1] + a[i].want
  BY <1>1 DEF Plan, Adds
<1>3. Len(b) = n + 1 /\ b[n + 1].want = size /\ \A i \in 1 .. n : b[i] = a[i]
  BY <1>1 DEF Pushed
<1>4. PICK m \in Nat : m = n + 1
  <2>1. n + 1 \in Nat OBVIOUS
  <2> QED BY <2>1
<1>5. /\ 0 \in 0 .. m /\ 0 # m /\ m \in 0 .. m /\ m - 1 = n /\ n \in 0 .. n /\ n # m /\ n \in 0 .. m
      /\ \A i \in 0 .. m : i = m \/ i \in 0 .. n
      /\ \A i \in 1 .. m : i = m \/ i \in 1 .. n
      /\ \A i \in 1 .. n : i \in 0 .. m /\ i - 1 \in 0 .. m /\ i # m /\ i - 1 # m
  BY <1>4
<1> DEFINE sums == [i \in 0 .. m |-> IF i = m THEN planned + size ELSE sum[i]]
<1>6. \A i \in 0 .. m : (IF i = m THEN planned + size ELSE sum[i]) \in Int
  <2>1. planned + size \in Int OBVIOUS
  <2> QED BY <1>5, <2>1
<1>7. /\ sums \in [0 .. m -> Int] /\ sums[m] = planned + size
      /\ \A i \in 0 .. m : i # m => sums[i] = sum[i]
  BY <1>5, <1>6
<1> HIDE DEF sums
<1>8. sums[0] = received BY <1>2, <1>5, <1>7
<1>9. ASSUME NEW i \in 1 .. m PROVE sums[i] = sums[i - 1] + b[i].want
  <2>1. CASE i = m BY <1>2, <1>3, <1>4, <1>5, <1>7, <2>1
  <2>2. CASE i \in 1 .. n
    <3>1. sums[i] = sum[i] /\ sums[i - 1] = sum[i - 1] BY <1>5, <1>7, <2>2
    <3> QED BY <1>2, <1>3, <2>2, <3>1
  <2> QED BY <1>5, <2>1, <2>2
<1>10. Adds(sums, received, b, planned + size) BY <1>3, <1>4, <1>7, <1>8, <1>9 DEF Adds
<1> QED BY <1>3, <1>4, <1>7, <1>10 DEF Plan

\* A transfer of a plan is called back.
LEMMA PlannedAgain ==
  ASSUME Types, Firsts(wire), Enough, wire.done # <<>>, host.tool.asks = "planned",
         NEW t \in Results, t = wire.done[1], NEW rest \in WireRecord,
         rest = [wire EXCEPT !.done = Tail(@)], Firsts(rest), Resubmit(t, Took(t), rest)
  PROVE  /\ host'.planned <= host.total
         /\ Plan(Out, host.received, host.planned) =>
              \/ host'.received >= host.total
              \/ Len(OutOf(wire')) > 0 /\ Plan(OutOf(wire'), host'.received, host'.planned)
<1>1. /\ host.total \in Nat /\ host.planned \in Int /\ host.received \in Nat /\ host.planned <= host.total
  BY HostTypes DEF Enough
<1>2. /\ host'.received = host.received + Len(t.got)
      /\ Again(t, host'.received) \in Int
      /\ host'.planned = IF host.tool.asks # "whole" /\ Len(t.got) = t.want
                         THEN host.planned + Again(t, host'.received) ELSE host.planned
      /\ \/ /\ Again(t, host'.received) > 0
            /\ Pushed(OutOf(rest), OutOf(wire'), Again(t, host'.received))
         \/ /\ ~(Again(t, host'.received) > 0)
            /\ Alike(OutOf(rest), OutOf(wire'))
  BY ResubmitEffect
<1>3. PICK r \in Nat, g \in Nat, w \in Int, P \in Int, N \in Nat, size \in Int :
        /\ r = host.received /\ g = Len(t.got) /\ w = t.want /\ P = host.planned /\ N = host.total
        /\ size = Again(t, host'.received)
  BY <1>1, <1>2, ResultFields
<1>4. g <= w
  <2>1. 1 \in 1 .. Len(wire.done) BY WireTypes
  <2> QED BY <1>3, <2>1 DEF Firsts
<1>5. wire \in WireRecord BY DEF Types
<1>6. /\ Out[1] = t /\ Len(Out) > 0 /\ Len(OutOf(rest)) = Len(Out) - 1 /\ Queue(Out)
      /\ \A i \in 1 .. Len(Out) - 1 : OutOf(rest)[i] = Out[i + 1]
  <2>1. /\ Out[1] = wire.done[1] /\ Len(Out) \in Nat \ {0} /\ Len(OutOf(rest)) = Len(Out) - 1
        /\ \A i \in 1 .. Len(Out) - 1 : OutOf(rest)[i] = Out[i + 1]
    BY PopOut
  <2>2. Out[1] = t BY <2>1
  <2>3. Len(Out) > 0 BY <2>1
  <2>4. Queue(Out) BY <1>5, QueueOut DEF Out
  <2> QED BY <2>1, <2>2, <2>3, <2>4
<1>7. Plan(Out, r, P) => Plan(OutOf(rest), r + g, P - (w - g))
  <2>1. Out[1].want = w BY <1>3, <1>6
  <2>2. ASSUME Plan(Out, r, P) PROVE Plan(OutOf(rest), r + g, P - (Out[1].want - g))
    <3>1. PICK a : a = Out OBVIOUS
    <3>2. PICK b : b = OutOf(rest) OBVIOUS
    <3>3. /\ Queue(a) /\ Len(a) > 0 /\ Len(b) = Len(a) - 1 /\ Plan(a, r, P)
          /\ \A i \in 1 .. Len(a) - 1 : b[i] = a[i + 1]
      BY <1>6, <2>2, <3>1, <3>2
    <3>4. r \in Int /\ P \in Int /\ g \in Int OBVIOUS
    <3>5. Plan(b, r + g, P - (a[1].want - g)) BY <3>3, <3>4, PlanPop
    <3> QED BY <3>1, <3>2, <3>5
  <2> QED BY <2>1, <2>2
<1>8. Queue(OutOf(rest)) BY QueueOut
<1>9. host'.received = r + g BY <1>2, <1>3
<1>10. CASE host.tool.cancels /\ r + g >= N
  <2>1. size = 0 BY <1>3, <1>9, <1>10 DEF Again
  <2>2. host'.planned = P BY <1>2, <1>3, <2>1
  <2> QED BY <1>1, <1>3, <1>9, <1>10, <2>2
<1>11. CASE ~(host.tool.cancels /\ r + g >= N) /\ g < w
  <2>1. size = w - g BY <1>3, <1>9, <1>11 DEF Again
  <2>2. host'.planned = P BY <1>2, <1>3, <1>11
  <2>3. Pushed(OutOf(rest), OutOf(wire'), size) BY <1>2, <1>3, <1>11, <2>1
  <2>4. ASSUME Plan(Out, r, P) PROVE Plan(OutOf(wire'), r + g, P) /\ Len(OutOf(wire')) > 0
    <3>1. P - (w - g) \in Int OBVIOUS
    <3>2. Plan(OutOf(wire'), r + g, (P - (w - g)) + size) BY <1>7, <1>8, <2>3, <2>4, <3>1, PlanPush
    <3>3. (P - (w - g)) + size = P BY <2>1
    <3>4. Len(OutOf(wire')) > 0 BY <1>8, <2>3 DEF Queue, Pushed
    <3> QED BY <3>2, <3>3, <3>4
  <2> QED BY <1>1, <1>3, <1>9, <2>2, <2>4
<1>12. CASE ~(host.tool.cancels /\ r + g >= N) /\ g = w
  <2>1. size = Piece(N - P) BY <1>3, <1>9, <1>12 DEF Again
  <2>2. host'.planned = P + size BY <1>2, <1>3, <1>12
  <2>3. size <= N - P /\ (N - P > 0 => size > 0)
    <3>1. N - P \in Int OBVIOUS
    <3> QED BY <2>1, <3>1, PieceType
  <2>4. P + size <= N BY <2>3
  <2>5. ASSUME Plan(Out, r, P)
        PROVE  \/ r + g >= N
               \/ Len(OutOf(wire')) > 0 /\ Plan(OutOf(wire'), r + g, P + size)
    <3>1. Plan(OutOf(rest), r + g, P)
      <4>1. P - (w - g) = P BY <1>12
      <4> QED BY <1>7, <2>5, <4>1
    <3>2. CASE size > 0
      <4>1. Pushed(OutOf(rest), OutOf(wire'), size) BY <1>2, <1>3, <3>2
      <4>2. Plan(OutOf(wire'), r + g, P + size) BY <1>8, <3>1, <4>1, PlanPush
      <4>3. Len(OutOf(wire')) > 0 BY <1>8, <4>1 DEF Queue, Pushed
      <4> QED BY <4>2, <4>3
    <3>3. CASE ~(size > 0)
      <4>1. P = N BY <1>1, <1>3, <2>3, <3>3
      <4>2. size = 0
        <5>1. N - P = 0 BY <4>1
        <5>2. Piece(0) = 0 BY Constants DEF Piece
        <5> QED BY <2>1, <5>1, <5>2
      <4>3. Alike(OutOf(rest), OutOf(wire')) BY <1>2, <1>3, <3>3
      <4>4. Plan(OutOf(wire'), r + g, P) BY <3>1, <4>3, PlanWants DEF Alike
      <4>5. Len(OutOf(wire')) \in Nat BY <1>8, <4>3 DEF Alike, Queue
      <4>6. CASE Len(OutOf(wire')) = 0
        <5>1. r + g = P BY <4>4, <4>6, PlanEmpty
        <5>2. r + g >= N BY <4>1, <5>1
        <5> QED BY <5>2
      <4>7. CASE Len(OutOf(wire')) # 0
        <5>1. P + size = P BY <4>2
        <5>2. Len(OutOf(wire')) > 0 BY <4>5, <4>7
        <5> QED BY <4>4, <5>1, <5>2
      <4> QED BY <4>6, <4>7
    <3> QED BY <3>2, <3>3
  <2> QED BY <1>3, <1>9, <2>2, <2>4, <2>5
<1> QED BY <1>4, <1>10, <1>11, <1>12

LEMMA BegunEnough ==
  ASSUME Types, Armed, host.at \in {"arm", "reply"}, Enough, Begun,
         wire' = [flight |-> FirstRequests, done |-> <<>>]
  PROVE  /\ host'.received = Len(host'.data)
         /\ host.tool.asks = "planned" => host'.planned <= host.total
         /\ Len(OutOf(wire')) > 0
         /\ host.tool.asks = "planned" => Plan(OutOf(wire'), host'.received, host'.planned)
<1>1. /\ Len(OutOf(wire')) = Len(FirstRequests)
      /\ \A i \in 1 .. Len(FirstRequests) : OutOf(wire')[i] = FirstRequests[i]
  BY FirstOut
<1>2. Len(FirstRequests) \in Nat \ {0} BY FirstEffect
<1>3. Len(OutOf(wire')) > 0 BY <1>1, <1>2
<1>4. host.data = <<>> /\ host.received = Len(host.data) BY DEF Armed, Enough
<1>5. host'.received = 0 /\ host'.received = Len(host'.data) BY <1>4 DEF Begun
<1>6. ASSUME host.tool.asks = "planned"
      PROVE  host'.planned <= host.total /\ Plan(OutOf(wire'), host'.received, host'.planned)
  <2>1. PICK T \in Nat, W \in Nat, N \in Nat : T = Transfer /\ W = Width /\ N = host.total
    BY Constants, WidthType, HostTypes
  <2>2. PICK first \in Int : first = IF T * W < N THEN T * W ELSE N
    <3>1. T * W \in Int OBVIOUS
    <3> QED BY <3>1
  <2>3. first <= N
    <3>1. T * W \in Int OBVIOUS
    <3> QED BY <2>2, <3>1
  <2>4. host'.planned = first BY <1>6, <2>1, <2>2 DEF Begun
  <2>5. PICK sum \in [0 .. Len(FirstRequests) -> Int] : Adds(sum, 0, FirstRequests, first)
    BY <1>6, <2>1, <2>2, FirstEffect
  <2>6. Plan(FirstRequests, 0, first) BY <2>5 DEF Plan
  <2>7. Plan(OutOf(wire'), 0, first) BY <1>1, <2>6, PlanWants
  <2> QED BY <1>5, <2>1, <2>3, <2>4, <2>7
<1> QED BY <1>3, <1>5, <1>6

LEMMA EnoughStep ==
  ASSUME Types, Firsts(wire), Armed, Reply, Enough, [Next]_vars, Types', Fixed
  PROVE  Enough'
<1>1. /\ host.total \in Nat /\ host.received \in Nat /\ host.data \in Data /\ host.tool \in Readers
      /\ wire \in WireRecord /\ wire' \in WireRecord
  BY DEF Types, HostRecord
<1> SUFFICES /\ host'.received = Len(host'.data)
             /\ host.tool.asks = "planned" => host'.planned <= host.total
             /\ host'.at = "stream" /\ host.tool.onError = "raise" /\ ~host'.error =>
                  \/ host'.received >= host.total
                  \/ /\ Len(OutOf(wire')) > 0
                     /\ host.tool.asks = "planned" =>
                          Plan(OutOf(wire'), host'.received, host'.planned)
             /\ host'.at = "status" => host'.received >= host.total
  BY DEF Enough, Fixed, Out, OutOf
<1>2. ASSUME Same(host'), host'.at # "stream", host'.at = "status" => host.at = "status"
      PROVE  /\ host'.received = Len(host'.data)
             /\ host.tool.asks = "planned" => host'.planned <= host.total
             /\ host'.at = "status" => host'.received >= host.total
  BY <1>2 DEF Enough, Same
\* The same number of transfers, which want the same.
<1>3. ASSUME host' = host, Len(OutOf(wire')) = Len(Out),
             \A i \in 1 .. Len(Out) : OutOf(wire')[i].want = Out[i].want
      PROVE  /\ host'.received = Len(host'.data)
             /\ host.tool.asks = "planned" => host'.planned <= host.total
             /\ host'.at = "stream" /\ host.tool.onError = "raise" /\ ~host'.error =>
                  \/ host'.received >= host.total
                  \/ /\ Len(OutOf(wire')) > 0
                     /\ host.tool.asks = "planned" =>
                          Plan(OutOf(wire'), host'.received, host'.planned)
             /\ host'.at = "status" => host'.received >= host.total
  <2>1. Plan(Out, host.received, host.planned) => Plan(OutOf(wire'), host.received, host.planned)
    BY <1>3, PlanWants
  <2> QED BY <1>3, <2>1 DEF Enough
<1>4. CASE Arm
  <2>1. CASE /\ Begun /\ wire' = [flight |-> FirstRequests, done |-> wire.done]
    <3>1. host.at = "arm" BY <1>4, ArmEffect
    <3>2. wire.done = <<>> BY <3>1 DEF Armed
    <3>3. wire' = [flight |-> FirstRequests, done |-> <<>>] BY <2>1, <3>2
    <3> QED BY <2>1, <3>1, <3>3, BegunEnough DEF Begun
  <2>2. CASE Same(host') /\ host'.at = "reply" BY <1>2, <2>2
  <2> QED BY <1>4, <2>1, <2>2, ArmEffect
<1>5. CASE Accepted
  <2>1. host.at = "reply" /\ Begun BY <1>5, AcceptedEffect
  <2>2. wire' = [flight |-> FirstRequests, done |-> <<>>] BY <1>5, AcceptedOut
  <2> QED BY <2>1, <2>2, BegunEnough DEF Begun
<1>6. CASE Callback
  <2>1. /\ host.at \in {"stream", "closing"} /\ wire.done # <<>> /\ host'.at = host.at
    BY <1>6, CallbackEffect, CallbackShape
  <2>2. PICK t \in Results, rest \in WireRecord :
          /\ t = wire.done[1] /\ rest = [wire EXCEPT !.done = Tail(@)] /\ Firsts(rest)
          /\ \/ Resubmit(t, Took(t), rest)
             \/ host' = Failed(t) /\ wire' = rest
    BY <1>6, CallbackEffect
  <2>3. CASE host' = Failed(t) /\ wire' = rest
    <3>1. /\ host'.planned = host.planned /\ host'.received = host.received /\ host'.data = host.data
          /\ host.tool.onError = "raise" /\ ~host'.error => host.received >= host.total
      BY <2>3, FailedEffect
    <3> QED BY <2>1, <3>1 DEF Enough
  <2>4. CASE Resubmit(t, Took(t), rest)
    <3>1. /\ host'.data = host.data \o t.got /\ host'.received = host.received + Len(t.got)
          /\ host'.error = host.error /\ Again(t, host'.received) \in Int
          /\ host'.planned = IF host.tool.asks # "whole" /\ Len(t.got) = t.want
                             THEN host.planned + Again(t, host'.received) ELSE host.planned
          /\ \/ /\ Again(t, host'.received) > 0
                /\ Pushed(OutOf(rest), OutOf(wire'), Again(t, host'.received))
             \/ ~(Again(t, host'.received) > 0)
      BY <2>2, <2>4, ResubmitEffect
    <3>2. t.got \in Data /\ Len(t.got) \in Nat BY ResultFields
    <3>3. host'.received = Len(host'.data) BY <1>1, <3>1, <3>2, DataConcat DEF Enough
    <3>4. host.received >= host.total => host'.received >= host.total BY <1>1, <3>1, <3>2
    <3>5. host'.received \in Nat BY <1>1, <3>1, <3>2
    <3>6. CASE host.tool.asks = "planned"
      <4>1. /\ host'.planned <= host.total
            /\ Plan(Out, host.received, host.planned) =>
                 \/ host'.received >= host.total
                 \/ Len(OutOf(wire')) > 0 /\ Plan(OutOf(wire'), host'.received, host'.planned)
        BY <2>1, <2>2, <2>4, <3>6, PlannedAgain
      <4>2. host'.at = "stream" /\ host.tool.onError = "raise" /\ ~host'.error =>
              host.received >= host.total \/ Plan(Out, host.received, host.planned)
        BY <2>1, <3>1, <3>6 DEF Enough
      <4> QED BY <2>1, <3>3, <3>4, <4>1, <4>2
    <3>7. CASE host.tool.asks # "planned"
      <4>1. host.tool.asks \in {"whole", "single"} BY <1>1, <3>7, ReaderFacts
      <4>2. host'.received >= host.total \/ Again(t, host'.received) > 0
        <5>1. CASE host.tool.asks = "whole"
          <6>1. host'.received < host.total => Again(t, host'.received) = Transfer
            BY <5>1 DEF Again
          <6>2. Transfer > 0 BY Constants
          <6> QED BY <1>1, <3>5, <6>1, <6>2
        <5>2. CASE host.tool.asks = "single"
          <6>1. ~host.tool.cancels BY <1>1, <5>2, ReaderFacts
          <6>2. Again(t, host'.received) = Piece(host.total - host'.received)
            BY <5>2, <6>1 DEF Again
          <6>3. host.total - host'.received \in Int BY <1>1, <3>5
          <6>4. host.total - host'.received > 0 => Piece(host.total - host'.received) > 0
            BY <6>3, PieceType
          <6> QED BY <1>1, <3>5, <6>2, <6>4
        <5> QED BY <4>1, <5>1, <5>2
      <4>3. Again(t, host'.received) > 0 => Len(OutOf(wire')) > 0
        <5>1. Len(OutOf(rest)) \in Nat BY QueueOut DEF Queue
        <5> QED BY <3>1, <5>1 DEF Pushed
      <4> QED BY <2>1, <3>3, <3>7, <4>2, <4>3
    <3> QED BY <3>6, <3>7
  <2> QED BY <2>2, <2>3, <2>4
<1>7. CASE Close BY <1>2, <1>7, CloseEffect
<1>8. CASE EndStream
  <2>1. Same(host') /\ host.at = "stream" /\ host.tool.onError = "raise" BY <1>8, EndStreamEffect
  <2>2. CASE host'.at = "exit" BY <1>2, <2>1, <2>2
  <2>3. CASE ~host.error /\ wire.flight = <<>> /\ wire.done = <<>> /\ host'.at = "status"
    <3>1. Len(Out) = 0 BY <1>1, <2>3, OutEmpty DEF Out
    <3>2. host.received >= host.total BY <2>1, <2>3, <3>1 DEF Enough
    <3> QED BY <2>1, <2>3, <3>2 DEF Enough, Same
  <2> QED BY <1>8, <2>2, <2>3, EndStreamEffect
<1>9. CASE Read
  <2>1. host' = host /\ host.at \in {"reply", "status"} BY <1>9, ReadEffect
  <2> QED BY <2>1 DEF Enough
<1>10. CASE Answer
  <2>1. Same(host') /\ host.at \in {"reply", "status"} /\ host'.at \in {host.at, "exit"}
    BY <1>10, AnswerEffect
  <2> QED BY <1>2, <2>1
<1>11. CASE Finish BY <1>2, <1>11, FinishEffect
<1>12. CASE Packet
  <2>1. PICK got \in Data, k \in 1 .. Len(Out) :
          UNCHANGED host /\ Received(Out, OutOf(wire'), k, got)
    BY <1>12, PacketOut
  <2> QED BY <1>3, <2>1 DEF Received
<1>13. CASE Stop
  <2>1. host' = host /\ wire' = wire BY <1>13, StopEffect
  <2> QED BY <1>3, <2>1 DEF Out
<1>14. CASE TimedOut
  <2>1. host' = host /\ Alike(Out, OutOf(wire')) BY <1>14, TimedOutOut
  <2> QED BY <1>3, <2>1 DEF Alike
<1>15. CASE Done \/ UNCHANGED vars
  <2>1. host' = host /\ wire' = wire BY <1>15 DEF Done, vars
  <2> QED BY <1>3, <2>1 DEF Out
<1> QED
  BY <1>4, <1>5, <1>6, <1>7, <1>8, <1>9, <1>10, <1>11, <1>12, <1>13, <1>14, <1>15 DEF Next, Host

----------------------------------------------------------------------------
(* The verdict.                                                            *)

\* An increasing function needs room.
LEMMA Room ==
  ASSUME NEW a \in Int, NEW b \in Int, a <= b, NEW c \in Int, NEW d \in Int,
         NEW f \in [a .. b -> c .. d], \A i, j \in a .. b : i < j => f[i] < f[j]
  PROVE  b - a <= d - c
<1> SUFFICES ASSUME ~(b - a <= d - c) PROVE FALSE OBVIOUS
<1>1. /\ IsFiniteSet(a .. b) /\ Cardinality(a .. b) = b - a + 1
      /\ IsFiniteSet(c .. d) /\ Cardinality(c .. d) = IF c > d THEN 0 ELSE d - c + 1
  <2>1. Cardinality(a .. b) = IF a > b THEN 0 ELSE b - a + 1 BY FS_Interval
  <2> QED BY <2>1, FS_Interval
<1>2. Cardinality(c .. d) < Cardinality(a .. b) BY <1>1
<1>3. PICK i \in a .. b, j \in a .. b : i # j /\ f[i] = f[j] BY <1>1, <1>2, FS_PigeonHole
<1>4. f[i] \in Int /\ f[j] \in Int BY <1>3
<1>5. i < j \/ j < i BY <1>3
<1> QED BY <1>3, <1>4, <1>5

\* As many units as the stream has, in order and all of it: the stream.
LEMMA OwnStream ==
  ASSUME NEW data \in Data, NEW total \in Nat, Sorted(data, total), Len(data) >= total,
         \A i \in 1 .. Len(data) : data[i][1] = "own" /\ data[i][2] \in 1 .. total
  PROVE  data = [k \in 1 .. total |-> <<"own", k>>]
<1>1. PICK n \in Nat : n = Len(data) BY DataConcat
<1> DEFINE f == [i \in 1 .. n |-> data[i][2]]
<1>2. f \in [1 .. n -> 1 .. total] /\ \A i \in 1 .. n : f[i] = data[i][2] BY <1>1
<1> HIDE DEF f
<1>3. \A i, j \in 1 .. n : i < j => f[i] < f[j]
  <2>1. \A i \in 1 .. n : data[i][2] # 0 BY <1>1
  <2>2. \A i \in 1 .. n : Place(data[i], total) = f[i] BY <1>2, <2>1 DEF Place
  <2> QED BY <1>1, <2>2 DEF Sorted
<1>4. ASSUME NEW i \in 1 .. n PROVE i <= f[i] /\ n - i <= total - f[i]
  <2>1. PICK y \in 1 .. total : y = f[i] BY <1>2
  <2> DEFINE low == [j \in 1 .. i |-> f[j]]
             high == [j \in i .. n |-> f[j]]
  <2>2. ASSUME NEW j \in 1 .. i PROVE j \in 1 .. n /\ f[j] \in 1 .. y
    <3>1. j \in 1 .. n /\ (j < i \/ j = i) OBVIOUS
    <3>2. f[j] \in 1 .. total /\ f[j] <= y BY <1>2, <1>3, <2>1, <3>1
    <3> QED BY <3>1, <3>2
  <2>3. ASSUME NEW j \in i .. n PROVE j \in 1 .. n /\ f[j] \in y .. total
    <3>1. j \in 1 .. n /\ (i < j \/ j = i) OBVIOUS
    <3>2. f[j] \in 1 .. total /\ y <= f[j] BY <1>2, <1>3, <2>1, <3>1
    <3> QED BY <3>1, <3>2
  <2>4. low \in [1 .. i -> 1 .. y] /\ \A j, l \in 1 .. i : j < l => low[j] < low[l]
    BY <1>3, <2>2
  <2>5. high \in [i .. n -> y .. total] /\ \A j, l \in i .. n : j < l => high[j] < high[l]
    BY <1>3, <2>3
  <2> HIDE DEF low, high
  <2>6. /\ i \in Int /\ n \in Int /\ y \in Int /\ total \in Int /\ 1 \in Int /\ 1 <= i /\ i <= n
    OBVIOUS
  <2>7. i - 1 <= y - 1 BY <2>4, <2>6, Room
  <2>8. n - i <= total - y BY <2>5, <2>6, Room
  <2> QED BY <2>1, <2>6, <2>7, <2>8
<1>5. n >= total BY <1>1
<1>6. ASSUME NEW i \in 1 .. n PROVE f[i] = i
  <2>1. PICK y \in 1 .. total : y = f[i] BY <1>2
  <2>2. i <= y /\ n - i <= total - y BY <1>4, <2>1
  <2> QED BY <1>5, <2>1, <2>2
<1>7. n = total
  <2>1. CASE n = 0 BY <1>5, <2>1
  <2>2. CASE n # 0
    <3>1. n \in 1 .. n BY <2>2
    <3>2. n \in 1 .. total BY <1>2, <1>6, <3>1
    <3> QED BY <1>5, <3>2
  <2> QED BY <2>1, <2>2
<1>8. ASSUME NEW i \in 1 .. n PROVE data[i] = <<"own", i>>
  <2>1. data[i] \in Units BY <1>1, DataElements
  <2>2. data[i][1] = "own" /\ data[i][2] = i BY <1>1, <1>2, <1>6
  <2> QED BY <2>1, <2>2 DEF Units
<1>9. data = [i \in 1 .. n |-> data[i]] BY <1>1 DEF Data
<1> QED BY <1>7, <1>8, <1>9

\* Units of the run alone, and none of them the status.
LEMMA OwnPlaces ==
  ASSUME NEW data, NEW board, board.sent \in Nat, NEW total \in Nat, Fresh(data, board),
         board.sent <= total,
         \A i \in 1 .. Len(data) : board.said => Place(data[i], total) < total + 1
  PROVE  \A i \in 1 .. Len(data) : data[i][1] = "own" /\ data[i][2] \in 1 .. total
<1> TAKE i \in 1 .. Len(data)
<1>1. Sent1(data[i], board) BY DEF Fresh
<1>2. CASE data[i][1] = "own" /\ data[i][2] \in 1 .. board.sent BY <1>2
<1>3. CASE data[i] = Status("own") /\ board.said
  <2>1. Place(data[i], total) = total + 1 BY <1>3 DEF Place, Status
  <2>2. Place(data[i], total) < total + 1 BY <1>3
  <2>3. ~(total + 1 < total + 1) OBVIOUS
  <2> QED BY <2>1, <2>2, <2>3
<1> QED BY <1>1, <1>2, <1>3 DEF Sent1

\* The status line of the run comes after all of its stream.
LEMMA AfterStatus ==
  ASSUME Types, Ordered, Clean, Enough, host.at = "status", wire.done # <<>>, Good(wire.done[1].got)
  PROVE  host.data = [k \in 1 .. host.total |-> <<"own", k>>]
<1>1. /\ host.total \in Nat /\ host.data \in Data /\ dev.sent \in Nat /\ wire \in WireRecord
  BY DEF Types, HostRecord, DevRecord
<1>2. dev.sent <= host.total /\ Lined(host.data, Out, dev, host.total) BY DEF Ordered, Flowing
<1>3. PICK line \in Data : line = wire.done[1].got /\ Fresh(line, dev) /\ Below(host.data, line, host.total)
  <2>1. 1 \in 1 .. Len(wire.done) BY WireTypes
  <2>2. wire.done[1].got \in Data BY <2>1, WireTypes, ResultFields
  <2>3. Out[1] = wire.done[1] BY <1>1, <2>1, OutElements DEF Out
  <2>4. 1 \in 1 .. Len(Out)
    <3>1. PICK n \in Nat, m \in Nat : n = Len(wire.done) /\ m = Len(wire.flight) BY WireTypes
    <3>2. Len(Out) = n + m BY <1>1, <3>1, OutElements DEF Out
    <3>3. 1 \in 1 .. n BY <2>1, <3>1
    <3>4. 1 \in 1 .. n + m BY <3>3
    <3> QED BY <3>2, <3>4
  <2>5. Fresh(Out[1].got, dev) /\ Below(host.data, Out[1].got, host.total)
    BY <1>2, <2>4 DEF Lined, AllFresh, InLine
  <2> QED BY <2>2, <2>3, <2>5
<1>4. ~Says(line, "old")
  <2>1. ASSUME NEW i \in 1 .. Len(line), line[i] = Status("old") PROVE FALSE
    <3>1. Sent1(Status("old"), dev) BY <1>3, <2>1 DEF Fresh
    <3>2. Status("old")[1] = "old" /\ Status("old") # Status("own") BY DEF Status
    <3> QED BY <3>1, <3>2 DEF Sent1
  <2> QED BY <2>1, InRange DEF Says
<1>5. Says(line, "own") BY <1>3, <1>4 DEF Good
<1>6. PICK i \in 1 .. Len(line) : line[i] = Status("own") BY <1>5, InRange DEF Says
<1>7. Place(line[i], host.total) = host.total + 1 BY <1>6 DEF Place, Status
<1>8. \A j \in 1 .. Len(host.data) : Place(host.data[j], host.total) < host.total + 1
  BY <1>3, <1>6, <1>7 DEF Below
<1>9. Fresh(host.data, dev) /\ Sorted(host.data, host.total)
  BY <1>2 DEF Lined, AllFresh, InLine
<1>10. \A j \in 1 .. Len(host.data) : host.data[j][1] = "own" /\ host.data[j][2] \in 1 .. host.total
  BY <1>1, <1>2, <1>8, <1>9, OwnPlaces
<1>11. Len(host.data) >= host.total BY DEF Enough
<1> QED BY <1>1, <1>9, <1>10, <1>11, OwnStream

\* Where the status line is not on USB there is nothing but the stream.
LEMMA AfterClose ==
  ASSUME Types, Ordered, Clean, Speaks, Enough, host.at = "closing", host.tool.status = "serial",
         host.received >= host.total
  PROVE  host.data = [k \in 1 .. host.total |-> <<"own", k>>]
<1>1. /\ host.total \in Nat /\ host.data \in Data /\ dev.sent \in Nat
  BY DEF Types, HostRecord, DevRecord
<1>2. dev.sent <= host.total /\ Lined(host.data, Out, dev, host.total) /\ ~dev.said
  BY DEF Ordered, Flowing, Speaks
<1>3. Fresh(host.data, dev) /\ Sorted(host.data, host.total)
  BY <1>2 DEF Lined, AllFresh, InLine
<1>4. \A j \in 1 .. Len(host.data) : host.data[j][1] = "own" /\ host.data[j][2] \in 1 .. host.total
  BY <1>1, <1>2, <1>3, OwnPlaces
<1>5. Len(host.data) >= host.total BY DEF Enough
<1> QED BY <1>1, <1>3, <1>4, <1>5, OwnStream

LEMMA VerdictStep ==
  ASSUME Types, Firsts(wire), Ordered, Speaks, Enough, Verdict, [Next]_vars, Fixed
  PROVE  Verdict'
<1> DEFINE Whole(h) == h.data = [k \in 1 .. host.total |-> <<"own", k>>]
<1>1. host.tool \in Readers BY HostTypes
<1> SUFFICES /\ host'.exit # "none" => host'.at = "exit"
             /\ /\ host'.exit = "good"
                /\ host.tool \notin {bl_stream_server, stream_to_sr}
                /\ Clean
                => Whole(host')
  BY DEF Verdict, StreamWhole, Fixed, Clean
<1>2. /\ host.exit # "none" => host.at = "exit"
      /\ /\ host.exit = "good"
         /\ host.tool \notin {bl_stream_server, stream_to_sr}
         /\ Clean
         => Whole(host)
  BY DEF Verdict, StreamWhole, Clean
<1> HIDE DEF Whole
<1>3. ASSUME host.at # "exit",
             \/ host'.exit = host.exit
             \/ host'.at = "exit" /\ host'.exit = "failed"
      PROVE  /\ host'.exit # "none" => host'.at = "exit"
             /\ host'.exit # "good"
  BY <1>2, <1>3
<1>4. CASE Arm BY <1>3, <1>4, ArmEffect DEF Begun
<1>5. CASE Accepted BY <1>3, <1>5, AcceptedEffect DEF Begun
<1>6. CASE Callback BY <1>3, <1>6, CallbackEffect, CallbackShape
<1>7. CASE Close BY <1>3, <1>7, CloseEffect
<1>8. CASE EndStream BY <1>3, <1>8, EndStreamEffect
<1>9. CASE Read BY <1>2, <1>9, ReadEffect
<1>10. CASE Answer
  <2>1. /\ host.at \in {"reply", "status"} /\ wire.done # <<>> /\ Same(host')
        /\ \/ host'.at = host.at /\ host'.exit = host.exit
           \/ host'.at = "exit" /\ host'.exit = "failed"
           \/ /\ host.at = "status" /\ host'.at = "exit" /\ host'.exit = "good"
              /\ Good(wire.done[1].got)
    BY <1>10, AnswerEffect
  <2>2. CASE /\ host.at = "status" /\ host'.at = "exit" /\ host'.exit = "good"
             /\ Good(wire.done[1].got)
    <3>1. Clean => host.data = [k \in 1 .. host.total |-> <<"own", k>>]
      BY <2>1, <2>2, AfterStatus
    <3> QED BY <2>1, <2>2, <3>1 DEF Same, Whole
  <2> QED BY <1>3, <2>1, <2>2
<1>11. CASE Finish
  <2>1. /\ host.at = "closing" /\ Same(host') /\ host'.at = "exit"
        /\ host'.exit = "good" =>
              /\ host.tool.verdict = "whole" => host.received = host.total
              /\ host.tool.verdict = "enough" => host.received >= host.total
    BY <1>11, FinishEffect
  <2>2. ASSUME host'.exit = "good", host.tool \notin {bl_stream_server, stream_to_sr}, Clean
        PROVE  Whole(host')
    <3>1. host.tool.onError # "raise" BY <2>1 DEF Speaks
    <3>2. host.tool.onError = "stop" BY <1>1, <2>2, <3>1, ReaderFacts
    <3>3. host.tool.status = "serial" /\ host.tool.verdict \in {"whole", "enough"}
      BY <1>1, <3>2, ReaderFacts
    <3>4. host.received >= host.total
      <4>1. host.received \in Int /\ host.total \in Int BY HostTypes
      <4> QED BY <2>1, <2>2, <3>3, <4>1
    <3>5. host.data = [k \in 1 .. host.total |-> <<"own", k>>]
      BY <2>1, <2>2, <3>3, <3>4, AfterClose
    <3> QED BY <2>1, <3>5 DEF Same, Whole
  <2> QED BY <2>1, <2>2
<1>12. CASE Packet
  <2>1. UNCHANGED host BY <1>12, PacketOut
  <2> QED BY <1>2, <2>1
<1>13. CASE Stop BY <1>2, <1>13, StopEffect
<1>14. CASE TimedOut BY <1>2, <1>14, TimedOutOut
<1>15. CASE Done \/ UNCHANGED vars
  <2>1. host' = host BY <1>15 DEF Done, vars
  <2> QED BY <1>2, <2>1
<1> QED
  BY <1>4, <1>5, <1>6, <1>7, <1>8, <1>9, <1>10, <1>11, <1>12, <1>13, <1>14, <1>15 DEF Next, Host

----------------------------------------------------------------------------
(* The invariant.                                                          *)

LEMMA LeftoversOld ==
  ASSUME NEW left \in Leftovers
  PROVE  \A i \in 1 .. Len(left) : \A j \in 1 .. Len(left[i]) : left[i][j][1] = "old"
<1> DEFINE stream == <<<<"old", 1>>, <<"old", 2>>>>
           line == <<Status("old")>>
<1>1. left \in {<<>>, <<stream>>, <<line>>, <<stream, line>>} BY DEF Leftovers
<1>2. \A j \in 1 .. Len(stream) : stream[j][1] = "old" OBVIOUS
<1>3. \A j \in 1 .. Len(line) : line[j][1] = "old" BY DEF Status
<1> HIDE DEF stream, line
<1>4. \A i \in 1 .. Len(left) : left[i] \in {stream, line} BY <1>1
<1> QED BY <1>2, <1>3, <1>4

LEMMA InitInv ==
  ASSUME Init
  PROVE  IInv
<1>1. PICK tool \in Readers, total \in Totals \ {0}, validate \in BOOLEAN, left \in Leftovers :
        /\ host = [at |-> "arm", tool |-> tool, total |-> total, validate |-> validate,
                   planned |-> 0, received |-> 0, error |-> FALSE, closing |-> FALSE,
                   bad |-> FALSE, data |-> <<>>, kept |-> <<>>, tries |-> 4,
                   exit |-> "none"]
        /\ dev = Board(left, Negotiates(tool), tool.status = "sent")
  BY DEF Init
<1>2. wire = [flight |-> <<>>, done |-> <<>>] BY DEF Init
<1>3. total \in Nat \ {0} BY Constants
<1>4. <<>> \in Data /\ <<>> \in Seq(Items) /\ <<>> \in Seq(Requests) /\ <<>> \in Seq(Results)
  BY DEF Data
<1>5. host \in HostRecord
  <2>1. 0 \in Nat /\ 0 \in Int /\ 4 \in 1 .. 4 OBVIOUS
  <2> QED BY <1>1, <1>3, <1>4, <2>1 DEF HostRecord
<1>6. wire \in WireRecord BY <1>2, <1>4 DEF WireRecord
<1>7. PICK replies \in BOOLEAN, says \in BOOLEAN, quiet \in BOOLEAN :
        replies = Negotiates(tool) /\ says = (tool.status = "sent") /\ quiet = (left = <<>>)
  BY DEF Negotiates
<1>8. PICK unreplied \in BOOLEAN : unreplied = ~replies OBVIOUS
<1>9. dev = [left |-> left, armed |-> FALSE, replied |-> unreplied, says |-> says, sent |-> 0,
             stopped |-> FALSE, said |-> FALSE, clean |-> FALSE, shorts |-> 0, quiet |-> quiet]
  BY <1>1, <1>7, <1>8 DEF Board
<1>10. dev \in DevRecord
  <2>1. left \in Seq(Data) BY LeftoversType
  <2>2. 0 \in Nat OBVIOUS
  <2> QED BY <1>9, <2>1, <2>2 DEF DevRecord
<1>11. /\ host.at = "arm" /\ host.tool = tool /\ host.total = total /\ host.planned = 0
       /\ host.received = 0 /\ ~host.error /\ host.data = <<>> /\ host.exit = "none"
       /\ wire.flight = <<>> /\ wire.done = <<>>
       /\ dev.left = left /\ dev.replied = ~Negotiates(host.tool) /\ dev.says = (tool.status = "sent")
       /\ dev.sent = 0 /\ ~dev.said /\ dev.quiet = (left = <<>>)
  BY <1>1, <1>2, <1>7, <1>8, <1>9
<1>12. Types BY <1>5, <1>6, <1>10 DEF Types
<1>13. Firsts(wire)
  <2>1. Len(wire.flight) = 0 /\ Len(wire.done) = 0 BY <1>11
  <2> QED BY <2>1 DEF Firsts
<1>14. Ordered BY <1>11 DEF Ordered, Flowing
<1>15. Armed BY <1>11 DEF Armed
<1>16. Old BY <1>11, LeftoversOld DEF Old
<1>17. Reply BY <1>11 DEF Reply
<1>18. Speaks BY <1>11 DEF Speaks
<1>19. Enough
  <2>1. host.received = Len(host.data) BY <1>11
  <2>2. host.planned <= host.total BY <1>3, <1>11
  <2> QED BY <1>11, <2>1, <2>2 DEF Enough
<1>20. Verdict BY <1>11 DEF Verdict, StreamWhole
<1> QED BY <1>12, <1>13, <1>14, <1>15, <1>16, <1>17, <1>18, <1>19, <1>20 DEF IInv

LEMMA StepInv ==
  ASSUME IInv, [Next]_vars
  PROVE  IInv'
<1>1. /\ Types /\ Firsts(wire) /\ Ordered /\ Armed /\ Old /\ Reply /\ Speaks /\ Enough /\ Verdict
  BY DEF IInv
<1>2. Types' /\ Firsts(wire)' /\ Fixed BY <1>1, ShapeStep
<1>3. Ordered' BY <1>1, <1>2, OrderedStep
<1>4. Armed' BY <1>1, ArmedStep
<1>5. Old' BY <1>1, OldStep
<1>6. Reply' BY <1>1, <1>2, ReplyStep
<1>7. Speaks' BY <1>1, <1>2, SpeaksStep
<1>8. Enough' BY <1>1, <1>2, EnoughStep
<1>9. Verdict' BY <1>1, <1>2, VerdictStep
<1> QED BY <1>2, <1>3, <1>4, <1>5, <1>6, <1>7, <1>8, <1>9 DEF IInv

\* The transfers and the received data keep the order of the stream, and what is outstanding
\* reaches to its end.
THEOREM ReadersInvariant == Spec => []IInv
<1>1. Init => IInv BY InitInv
<1>2. IInv /\ [Next]_vars => IInv' BY StepInv
<1> QED BY <1>1, <1>2, PTL DEF Spec

\* A program that reports a good run has received the whole stream of that run, once and in order:
\* the callbacks, the short and failed transfers and the status line of every reader.
THEOREM ReadersWhole == Spec => []StreamWhole
<1>1. IInv => StreamWhole BY DEF IInv, Verdict
<1> QED BY <1>1, ReadersInvariant, PTL
=============================================================================
