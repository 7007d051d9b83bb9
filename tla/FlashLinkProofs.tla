---- MODULE FlashLinkProofs ----
(***************************************************************************)
(* A flash script that reaches its end has left the pages as it promises,  *)
(* for every number of pages and however many packets are damaged, answers *)
(* lost or operations failed.                                              *)
(***************************************************************************)
EXTENDS FlashLink, SequenceTheorems, TLAPS

---------------------------------------------------------------------------
(* The two scripts.                                                        *)

LEMMA BackupScript ==
  /\ e130_page.name = "e130" /\ e130_page.guarded = 2 /\ e130_page.final = 4
  /\ e130_page.pages = 1 /\ e130_page.retry = {"packet_crc"}
  /\ Len(e130_page.steps) = 5
  /\ e130_page.steps[1] = ReadOp(1, "any") /\ e130_page.steps[2] = WriteOp(1, "pattern")
  /\ e130_page.steps[3] = ReadOp(1, "pattern") /\ e130_page.steps[4] = WriteOp(1, "backup")
  /\ e130_page.steps[5] = ReadOp(1, "backup")
  BY DEF e130_page

LEMMA ImageScript ==
  ASSUME Pages \in Nat \ {0}
  PROVE  /\ e131_page.name = "e131" /\ e131_page.guarded = 0 /\ e131_page.final = 0
         /\ e131_page.pages = Pages
         /\ e131_page.retry = {"packet_crc", "short_packet", "attach_failed", "program_failed",
                               "verify_failed"}
         /\ Len(e131_page.steps) = Pages
         /\ \A i \in 1 .. Pages : e131_page.steps[i] = WriteOp(i, "image")
<1> DEFINE S == {WriteOp(i, "image") : i \in 1 .. Pages}
           f == [i \in 1 .. Pages |-> WriteOp(i, "image")]
<1>1. f \in [1 .. Pages -> S] OBVIOUS
<1>2. f \in Seq(S)
  <2>1. Seq(S) = UNION {[1 .. n -> S] : n \in Nat} BY SeqDef
  <2>2. [1 .. Pages -> S] \in {[1 .. n -> S] : n \in Nat} OBVIOUS
  <2> QED BY <1>1, <2>1, <2>2
<1>3. Len(f) \in Nat /\ 1 .. Len(f) = 1 .. Pages BY <1>1, <1>2, LenProperties
<1>4. Len(f) = Pages BY <1>3
<1>5. \A i \in 1 .. Pages : f[i] = WriteOp(i, "image") OBVIOUS
<1>6. e131_page.steps = f BY DEF e131_page
<1> HIDE DEF f
<1>7. Len(e131_page.steps) = Pages /\ \A i \in 1 .. Pages : e131_page.steps[i] = WriteOp(i, "image")
  BY <1>4, <1>5, <1>6
<1> QED BY <1>7 DEF e131_page

LEMMA OtherScript == e130_page # e131_page
  BY DEF e130_page, e131_page

---------------------------------------------------------------------------
(* Types.                                                                  *)

Datum == {"none", "any", "original", "pattern", "image", "backup", "broken"}
Kinds == {"ok", "packet_crc", "short_packet", "attach_failed", "program_failed", "verify_failed",
          "page", "stop"}
PacketRecord ==
  [op : {"W", "V"}, page : Nat, data : Datum, damage : {"none", "changed", "missing"}]
LineRecord == [kind : Kinds, page : Nat, data : Datum]

Types ==
  /\ host \in [script : {e130_page, e131_page}, at : {"send", "wait", "end"}, step : Nat,
               attempt : Nat, backup : Datum, failed : BOOLEAN, restored : BOOLEAN]
  /\ host.step \in 1 .. Len(host.script.steps)
  /\ wire \in [down : Seq(PacketRecord), up : Seq(LineRecord)]
  /\ \A i \in 1 .. Len(wire.down) : wire.down[i].page \in 1 .. host.script.pages
  /\ dev \in [page : [1 .. host.script.pages -> Datum], faults : Nat]

---------------------------------------------------------------------------
(* The inductive invariant.                                                *)

\* A packet or its answer is under way, and neither before the next is sent.
Clean ==
  /\ host.at = "send" => wire.down = <<>> /\ wire.up = <<>>
  /\ Len(wire.down) + Len(wire.up) <= 1

\* e131: the pages before the current one are written; the one under way is the current one.
Image ==
  /\ Clean
  /\ \A p \in 1 .. host.step - 1 : dev.page[p] = "image"
  /\ \A i \in 1 .. Len(wire.down) :
        wire.down[i].op = "W" /\ wire.down[i].page = host.step /\ wire.down[i].data = "image"
  /\ \A i \in 1 .. Len(wire.up) : wire.up[i].kind = "ok" => dev.page[host.step] = "image"

\* e130 before its finally clause.
Early ==
  /\ Clean
  /\ host.step = 1 => dev.page[1] = "original"
  /\ host.step > 1 => host.backup = "original"
  /\ host.step = 3 => dev.page[1] = "pattern"
  /\ \A i \in 1 .. Len(wire.down) :
        IF host.step = 2 THEN wire.down[i].op = "W" /\ wire.down[i].data = "pattern"
        ELSE wire.down[i].op = "V"
  /\ \A i \in 1 .. Len(wire.up) :
        /\ host.step = 2 => wire.up[i].kind # "page"
        /\ wire.up[i].kind = "ok" => dev.page[1] = "pattern"
        /\ wire.up[i].kind = "page" => wire.up[i].data = dev.page[1]

\* The read that checks the restored page: nothing is sent after it.
LastRead(i) == i = Len(wire.down) /\ host.step = 5 /\ host.at = "wait"

\* e130 in its finally clause: a packet or line may be left from before, and is told apart.
Finally ==
  /\ host.backup = "original"
  /\ \A i \in 1 .. Len(wire.down) :
        /\ wire.down[i].op = "V" => (i = 1 /\ dev.page[1] = "pattern") \/ LastRead(i)
        /\ wire.down[i].op = "W" => i = 1 \/ wire.down[i].data = "original"
  /\ \A i \in 1 .. Len(wire.up) :
        wire.up[i].kind = "page" /\ wire.up[i].data = "original" =>
           /\ host.step = 5 /\ host.at = "wait"
           /\ wire.down = <<>> /\ dev.page[1] = "original"

Under ==
  /\ host.script = e131_page => Image
  /\ host.script = e130_page /\ host.step <= 3 => Early
  /\ host.script = e130_page /\ host.step > 3 => Finally

IInv ==
  /\ Types
  /\ host.restored => host.at = "end" /\ wire.down = <<>> /\ FlashRestored
  /\ host.at # "end" => Under

---------------------------------------------------------------------------
(* What the board does.                                                    *)

\* What a line says of the packet that it answers.
Tells(line) ==
  /\ line \in LineRecord
  /\ Packet.op = "W" => line.kind # "page" /\ (line.kind = "ok" => dev'.page[Packet.page] = Packet.data)
  /\ Packet.op = "V" => line.kind # "ok" /\ (line.kind = "page" => line.data = dev.page[Packet.page])

LEMMA AtMostOne ==
  ASSUME NEW a \in Nat, NEW b \in Nat, a + b <= 1
  PROVE  a \in {0, 1} /\ b \in {0, 1} /\ (a # 0 => b = 0)
  OBVIOUS

LEMMA LessThanOne ==
  ASSUME NEW a \in Nat, NEW b \in {0, 1}, a < b
  PROVE  a = 0
  OBVIOUS

\* The packet at the head is gone, its page alone may have changed, one line at most is said.
Answered ==
  /\ wire.down # <<>> /\ host' = host
  /\ wire' \in [down : Seq(PacketRecord), up : Seq(LineRecord)]
  /\ wire'.down = Tail(wire.down)
  /\ wire'.up = wire.up \/ \E line : Tells(line) /\ wire'.up = Append(wire.up, line)
  /\ dev' \in [page : [1 .. host.script.pages -> Datum], faults : Nat]
  /\ Packet.op = "V" => dev'.page = dev.page
  /\ \A q \in 1 .. host.script.pages : q # Packet.page => dev'.page[q] = dev.page[q]

LEMMA HeadType ==
  ASSUME Types, wire.down # <<>>
  PROVE  /\ wire.down \in Seq(PacketRecord) /\ wire.up \in Seq(LineRecord)
         /\ Packet \in PacketRecord /\ Packet.page \in 1 .. host.script.pages
         /\ Packet = wire.down[1] /\ Len(wire.down) \in Nat \ {0}
         /\ Tail(wire.down) \in Seq(PacketRecord) /\ Len(Tail(wire.down)) = Len(wire.down) - 1
         /\ \A i \in 1 .. Len(wire.down) - 1 : Tail(wire.down)[i] = wire.down[i + 1]
<1>1. wire.down \in Seq(PacketRecord) /\ wire.up \in Seq(LineRecord) BY DEF Types
<1>2. Len(wire.down) \in Nat \ {0} BY <1>1, EmptySeq
<1>3. Packet = wire.down[1] BY <1>1, <1>2 DEF Packet
<1>4. Packet \in PacketRecord BY <1>1, <1>2, <1>3, ElementOfSeq
<1>5. Packet.page \in 1 .. host.script.pages BY <1>2, <1>3 DEF Types
<1> QED BY <1>1, <1>2, <1>3, <1>4, <1>5, HeadTailProperties

LEMMA SayEffect ==
  ASSUME Types, wire.down # <<>>, MaxFaults \in Nat,
         NEW line \in LineRecord, NEW faults \in Nat,
         NEW page \in [1 .. host.script.pages -> Datum], Say(line, faults, page)
  PROVE  /\ wire'.down = Tail(wire.down) /\ wire'.up \in {wire.up, Append(wire.up, line)}
         /\ wire' \in [down : Seq(PacketRecord), up : Seq(LineRecord)]
         /\ dev'.page = page
         /\ dev' \in [page : [1 .. host.script.pages -> Datum], faults : Nat]
<1>1. PICK lost \in {0, 1} :
        /\ wire' = [down |-> Tail(wire.down), up |-> IF lost = 1 THEN wire.up ELSE Append(wire.up, line)]
        /\ dev' = [page |-> page, faults |-> dev.faults + faults + lost]
  BY DEF Say
<1>2. Append(wire.up, line) \in Seq(LineRecord) BY HeadType, AppendProperties
<1>3. dev.faults \in Nat BY DEF Types
<1> QED BY <1>1, <1>2, <1>3, HeadType

LEMMA WriteAnswered ==
  ASSUME Types, MaxFaults \in Nat, receiveFlashPage
  PROVE  Answered
<1> DEFINE p == Packet.page
           Pgs == [1 .. host.script.pages -> Datum]
<1>1. wire.down # <<>> /\ Packet.op = "W" /\ host' = host BY DEF receiveFlashPage
<1>2. Packet \in PacketRecord /\ p \in 1 .. host.script.pages BY <1>1, HeadType
<1>3. dev.page \in Pgs /\ p \in Nat /\ Packet.data \in Datum BY <1>2 DEF Types, PacketRecord
<1>4. \A k \in Kinds : Line(k, p, "none") \in LineRecord /\ Line(k, p, "none").kind = k
  BY <1>3 DEF Line, LineRecord, Datum
<1>5. \A d \in Datum :
        /\ [dev.page EXCEPT ![p] = d] \in Pgs /\ [dev.page EXCEPT ![p] = d][p] = d
        /\ \A q \in 1 .. host.script.pages : q # p => [dev.page EXCEPT ![p] = d][q] = dev.page[q]
  BY <1>2, <1>3
<1>6. ASSUME NEW k \in Kinds \ {"page"}, NEW f \in Nat, NEW g \in Pgs,
             k = "ok" => g[p] = Packet.data,
             \A q \in 1 .. host.script.pages : q # p => g[q] = dev.page[q],
             Say(Line(k, p, "none"), f, g)
      PROVE  Answered
  <2> DEFINE line == Line(k, p, "none")
  <2>1. line \in LineRecord /\ line.kind = k BY <1>4
  <2> HIDE DEF line
  <2>2. Say(line, f, g) BY <1>6 DEF line
  <2>3. /\ wire'.down = Tail(wire.down) /\ wire'.up \in {wire.up, Append(wire.up, line)}
        /\ wire' \in [down : Seq(PacketRecord), up : Seq(LineRecord)]
        /\ dev'.page = g
        /\ dev' \in [page : [1 .. host.script.pages -> Datum], faults : Nat]
    BY <1>1, <2>1, <2>2, SayEffect
  <2>4. Tells(line) BY <1>1, <1>6, <2>1, <2>3 DEF Tells
  <2> QED BY <1>1, <1>6, <2>3, <2>4 DEF Answered
<1>7. dev.page[p] \in Datum /\ "broken" \in Datum BY <1>2, <1>3 DEF Datum
<1>8. ASSUME NEW k \in Kinds \ {"page", "ok"}, NEW d \in Datum,
             Say(Line(k, p, "none"), 1, [dev.page EXCEPT ![p] = d])
      PROVE  Answered
  <2> DEFINE g == [dev.page EXCEPT ![p] = d]
  <2>1. g \in Pgs /\ \A q \in 1 .. host.script.pages : q # p => g[q] = dev.page[q] BY <1>5
  <2>2. Say(Line(k, p, "none"), 1, g) BY <1>8
  <2> HIDE DEF g
  <2> QED BY <1>6, <2>1, <2>2
<1>9. CASE ~Sound(Packet) /\ Say(Line(Refused(Packet), p, "none"), 0, dev.page)
  <2>1. Refused(Packet) \in Kinds \ {"page", "ok"} BY DEF Refused, Kinds
  <2> QED BY <1>3, <1>4, <1>6, <1>9, <2>1
<1>10. CASE Say(Line("ok", p, "none"), 0, [dev.page EXCEPT ![p] = Packet.data])
  BY <1>3, <1>4, <1>5, <1>6, <1>10 DEF Kinds
<1>11. CASE Say(Line("attach_failed", p, "none"), 1, dev.page)
  BY <1>3, <1>4, <1>6, <1>11 DEF Kinds
<1>12. CASE \E left \in {dev.page[p], "broken"} :
              Say(Line("program_failed", p, "none"), 1, [dev.page EXCEPT ![p] = left])
  <2>1. PICK left \in Datum : Say(Line("program_failed", p, "none"), 1, [dev.page EXCEPT ![p] = left])
    BY <1>7, <1>12
  <2>2. "program_failed" \in Kinds \ {"page", "ok"} BY DEF Kinds
  <2> QED BY <1>8, <2>1, <2>2
<1>13. CASE \E left \in {Packet.data, "broken"} :
              Say(Line("verify_failed", p, "none"), 1, [dev.page EXCEPT ![p] = left])
  <2>1. PICK left \in Datum : Say(Line("verify_failed", p, "none"), 1, [dev.page EXCEPT ![p] = left])
    BY <1>3, <1>7, <1>13
  <2>2. "verify_failed" \in Kinds \ {"page", "ok"} BY DEF Kinds
  <2> QED BY <1>8, <2>1, <2>2
<1> QED BY <1>9, <1>10, <1>11, <1>12, <1>13 DEF receiveFlashPage

LEMMA ReadAnswered ==
  ASSUME Types, MaxFaults \in Nat, receiveReadPage
  PROVE  Answered
<1> DEFINE p == Packet.page
<1>1. wire.down # <<>> /\ Packet.op = "V" /\ host' = host BY DEF receiveReadPage
<1>2. Packet \in PacketRecord /\ p \in 1 .. host.script.pages BY <1>1, HeadType
<1>3. dev.page \in [1 .. host.script.pages -> Datum] /\ p \in Nat BY <1>2 DEF Types, PacketRecord
<1>4. dev.page[p] \in Datum BY <1>2, <1>3
<1>5. \A k \in Kinds, d \in Datum :
         Line(k, p, d) \in LineRecord /\ Line(k, p, d).kind = k /\ Line(k, p, d).data = d
  BY <1>3 DEF Line, LineRecord
<1>6. ASSUME NEW k \in {"page", "stop"}, NEW d \in Datum, NEW f \in Nat,
             k = "page" => d = dev.page[p], Say(Line(k, p, d), f, dev.page)
      PROVE  Answered
  <2> DEFINE line == Line(k, p, d)
  <2>1. line \in LineRecord /\ line.kind = k /\ line.data = d BY <1>5 DEF Kinds
  <2> HIDE DEF line
  <2>2. Say(line, f, dev.page) BY <1>6 DEF line
  <2>3. /\ wire'.down = Tail(wire.down) /\ wire'.up \in {wire.up, Append(wire.up, line)}
        /\ wire' \in [down : Seq(PacketRecord), up : Seq(LineRecord)]
        /\ dev'.page = dev.page
        /\ dev' \in [page : [1 .. host.script.pages -> Datum], faults : Nat]
    BY <1>1, <1>3, <2>1, <2>2, SayEffect
  <2>4. Tells(line) BY <1>1, <1>6, <2>1 DEF Tells
  <2> QED BY <1>1, <2>3, <2>4 DEF Answered
<1>7. CASE Say(Line("page", p, dev.page[p]), 0, dev.page)
  BY <1>4, <1>5, <1>6, <1>7 DEF Kinds
<1>8. CASE \E f \in {0, 1} : Say(Line("stop", p, "none"), f, dev.page)
  BY <1>5, <1>6, <1>8 DEF Kinds, Datum
<1> QED BY <1>7, <1>8 DEF receiveReadPage

LEMMA UnheardAnswered ==
  ASSUME Types, MaxFaults \in Nat, Unheard
  PROVE  Answered
<1>1. wire.down # <<>> /\ host' = host BY DEF Unheard
<1>2. wire \in [down : Seq(PacketRecord), up : Seq(LineRecord)] BY DEF Types
<1>3. dev \in [page : [1 .. host.script.pages -> Datum], faults : Nat] BY DEF Types
<1>4. wire' = [down |-> Tail(wire.down), up |-> wire.up] BY <1>2 DEF Unheard
<1>5. dev' = [page |-> dev.page, faults |-> dev.faults + 1] BY <1>3 DEF Unheard
<1>6. wire' \in [down : Seq(PacketRecord), up : Seq(LineRecord)] BY <1>1, <1>4, HeadType
<1>7. dev' \in [page : [1 .. host.script.pages -> Datum], faults : Nat] /\ dev'.page = dev.page
  BY <1>3, <1>5
<1>8. wire'.down = Tail(wire.down) /\ wire'.up = wire.up BY <1>4
<1> QED BY <1>1, <1>6, <1>7, <1>8 DEF Answered

LEMMA BoardEffect ==
  ASSUME Types, MaxFaults \in Nat, Board
  PROVE  Answered
  BY WriteAnswered, ReadAnswered, UnheardAnswered DEF Board

---------------------------------------------------------------------------
(* What the board leaves standing.                                         *)

LEMMA BoardTypes ==
  ASSUME Types, Answered
  PROVE  Types'
<1>1. \A i \in 1 .. Len(Tail(wire.down)) : Tail(wire.down)[i].page \in 1 .. host.script.pages
  <2> SUFFICES ASSUME NEW i \in 1 .. Len(Tail(wire.down))
               PROVE  Tail(wire.down)[i].page \in 1 .. host.script.pages
    OBVIOUS
  <2>1. i + 1 \in 1 .. Len(wire.down) /\ Tail(wire.down)[i] = wire.down[i + 1]
    BY HeadType DEF Answered
  <2> QED BY <2>1 DEF Types
<1> QED BY <1>1 DEF Answered, Types

\* The lines there before, and the one that the board may add.
LEMMA UpLines ==
  ASSUME Types, Answered
  PROVE  /\ Len(wire'.up) \in Nat
         /\ wire'.up = wire.up \/ Len(wire'.up) = Len(wire.up) + 1
         /\ \A i \in 1 .. Len(wire'.up) :
               (i \in 1 .. Len(wire.up) /\ wire'.up[i] = wire.up[i]) \/ Tells(wire'.up[i])
<1>1. wire.up \in Seq(LineRecord) /\ Len(wire.up) \in Nat BY LenProperties DEF Types
<1>2. CASE wire'.up = wire.up BY <1>1, <1>2
<1>3. ASSUME NEW line, Tells(line), wire'.up = Append(wire.up, line)
      PROVE  /\ Len(wire'.up) = Len(wire.up) + 1
             /\ \A i \in 1 .. Len(wire'.up) :
                   (i \in 1 .. Len(wire.up) /\ wire'.up[i] = wire.up[i]) \/ Tells(wire'.up[i])
  <2>1. line \in LineRecord BY <1>3 DEF Tells
  <2>2. /\ Len(wire'.up) = Len(wire.up) + 1
        /\ \A i \in 1 .. Len(wire.up) : wire'.up[i] = wire.up[i]
        /\ wire'.up[Len(wire.up) + 1] = line
    BY <1>1, <1>3, <2>1, AppendProperties
  <2> QED BY <1>1, <1>3, <2>2
<1> QED BY <1>1, <1>2, <1>3 DEF Answered

LEMMA BoardClean ==
  ASSUME Types, Answered, Clean
  PROVE  /\ Clean' /\ Len(wire.down) = 1 /\ Len(wire.up) = 0
         /\ wire'.down = <<>>
         /\ \A i \in 1 .. Len(wire'.up) : Tells(wire'.up[i])
<1>1. Len(wire.down) \in Nat \ {0} /\ Len(wire.up) \in Nat
  BY HeadType, LenProperties DEF Answered, Types
<1>2. Len(wire.down) = 1 /\ Len(wire.up) = 0
  <2>1. Len(wire.down) + Len(wire.up) <= 1 BY DEF Clean
  <2> QED BY <1>1, <2>1, AtMostOne
<1>3. wire'.down \in Seq(PacketRecord) /\ Len(wire'.down) = 0
  BY <1>2, HeadType DEF Answered
<1>4. wire'.down = <<>> BY <1>3, EmptySeq
<1>5. host.at # "send" BY <1>2, EmptySeq DEF Clean, Answered
<1>6. Len(wire'.up) \in {0, 1} BY <1>2, UpLines
<1> QED BY <1>2, <1>3, <1>4, <1>5, <1>6, UpLines DEF Clean, Answered

LEMMA BoardImage ==
  ASSUME Types, Answered, Image, Pages \in Nat \ {0}, host.script = e131_page
  PROVE  Image'
<1>1. /\ Clean' /\ wire'.down = <<>> /\ Len(wire.down) = 1 /\ host' = host
      /\ \A i \in 1 .. Len(wire'.up) : Tells(wire'.up[i])
  BY BoardClean DEF Image, Answered
<1>2. Packet.op = "W" /\ Packet.page = host.step /\ Packet.data = "image"
  BY <1>1, HeadType DEF Image, Answered
<1>3. \A p \in 1 .. host.step - 1 : dev'.page[p] = "image"
  <2>1. host.step \in 1 .. host.script.pages BY ImageScript DEF Types
  <2>2. host.script.pages = Pages BY ImageScript
  <2> QED BY <1>2, <2>1, <2>2 DEF Answered, Image
<1>4. \A i \in 1 .. Len(wire'.up) : wire'.up[i].kind = "ok" => dev'.page[host.step] = "image"
  BY <1>1, <1>2 DEF Tells
<1> QED BY <1>1, <1>3, <1>4 DEF Image

LEMMA BoardEarly ==
  ASSUME Types, Answered, Early, host.script = e130_page
  PROVE  Early'
<1>1. /\ Clean' /\ wire'.down = <<>> /\ Len(wire.down) = 1 /\ host' = host
      /\ \A i \in 1 .. Len(wire'.up) : Tells(wire'.up[i])
  BY BoardClean DEF Early, Answered
<1>2. Packet \in PacketRecord /\ Packet = wire.down[1] /\ Packet.page = 1
  BY <1>1, HeadType, BackupScript DEF Answered
<1>3. CASE host.step = 2
  <2>1. Packet.op = "W" /\ Packet.data = "pattern" BY <1>1, <1>2, <1>3 DEF Early
  <2> QED BY <1>1, <1>2, <1>3, <2>1 DEF Early, Tells
<1>4. CASE host.step # 2
  <2>1. Packet.op = "V" BY <1>1, <1>2, <1>4 DEF Early
  <2>2. dev'.page = dev.page BY <2>1 DEF Answered
  <2> QED BY <1>1, <1>2, <1>4, <2>1, <2>2 DEF Early, Tells
<1> QED BY <1>3, <1>4

LEMMA BoardFinally ==
  ASSUME Types, Answered, Finally, host.script = e130_page
  PROVE  Finally'
<1>1. /\ host' = host /\ wire'.down = Tail(wire.down) /\ wire.down # <<>>
      /\ wire'.down \in Seq(PacketRecord)
  BY HeadType DEF Answered
<1>2. /\ Packet \in PacketRecord /\ Packet = wire.down[1] /\ Packet.page = 1
      /\ Len(wire.down) \in Nat \ {0} /\ Len(wire'.down) = Len(wire.down) - 1
      /\ \A i \in 1 .. Len(wire.down) - 1 : wire'.down[i] = wire.down[i + 1]
  BY <1>1, HeadType, BackupScript
<1>3. Packet.op \in {"W", "V"} BY <1>2 DEF PacketRecord
<1>4. \A i \in 1 .. Len(wire'.down) :
        /\ wire'.down[i].op = "V" => LastRead(i)'
        /\ wire'.down[i].op = "W" => wire'.down[i].data = "original"
  <2> SUFFICES ASSUME NEW i \in 1 .. Len(wire'.down)
               PROVE  /\ wire'.down[i].op = "V" => LastRead(i)'
                      /\ wire'.down[i].op = "W" => wire'.down[i].data = "original"
    OBVIOUS
  <2>1. i + 1 \in 1 .. Len(wire.down) /\ i + 1 # 1 /\ wire'.down[i] = wire.down[i + 1] BY <1>2
  <2>2. /\ wire.down[i + 1].op = "V" => LastRead(i + 1)
        /\ wire.down[i + 1].op = "W" => wire.down[i + 1].data = "original"
    BY <2>1 DEF Finally
  <2>3. LastRead(i + 1) => LastRead(i)' BY <1>1, <1>2 DEF LastRead
  <2> QED BY <2>1, <2>2, <2>3
<1>5. ASSUME NEW i \in 1 .. Len(wire'.up), wire'.up[i].kind = "page", wire'.up[i].data = "original"
      PROVE  host.step = 5 /\ host.at = "wait" /\ wire'.down = <<>> /\ dev'.page[1] = "original"
  <2>1. ~(i \in 1 .. Len(wire.up) /\ wire'.up[i] = wire.up[i])
    BY <1>1, <1>5 DEF Finally
  <2>2. Tells(wire'.up[i]) BY <2>1, UpLines
  <2>3. Packet.op = "V" /\ dev'.page = dev.page /\ dev.page[1] = "original"
    BY <1>2, <1>3, <1>5, <2>2 DEF Tells, Answered
  <2>4. LastRead(1) BY <1>2, <2>3 DEF Finally
  <2>5. Len(wire'.down) = 0 BY <1>2, <2>4 DEF LastRead
  <2>6. wire'.down = <<>> BY <1>1, <2>5, EmptySeq
  <2> QED BY <2>3, <2>4, <2>6 DEF LastRead
<1>6. host'.backup = "original" BY <1>1 DEF Finally
<1> QED BY <1>1, <1>4, <1>5, <1>6 DEF Finally

LEMMA BoardKeeps ==
  ASSUME IInv, Pages \in Nat \ {0}, MaxFaults \in Nat, Board
  PROVE  IInv'
<1>1. Types /\ Answered /\ Types' BY BoardEffect, BoardTypes DEF IInv
<1>2. host' = host /\ wire.down # <<>> BY <1>1 DEF Answered
<1>3. ~host.restored BY <1>2 DEF IInv
<1>4. host.at # "end" => Under'
  BY <1>1, <1>2, BoardImage, BoardEarly, BoardFinally DEF IInv, Under
<1> QED BY <1>1, <1>2, <1>3, <1>4 DEF IInv

---------------------------------------------------------------------------
(* What the script does.                                                   *)

HostRecord == [script : {e130_page, e131_page}, at : {"send", "wait", "end"}, step : Nat,
               attempt : Nat, backup : Datum, failed : BOOLEAN, restored : BOOLEAN]

LEMMA StepType ==
  ASSUME Types, Pages \in Nat \ {0}
  PROVE  /\ Step.op \in {"W", "V"} /\ Step.page \in 1 .. host.script.pages /\ Step.page \in Nat
         /\ Data \in Datum
         /\ host.script = e131_page =>
              Step.op = "W" /\ Step.page = host.step /\ Step.data = "image" /\ Data = "image"
         /\ host.script = e130_page =>
              /\ host.step \in 1 .. 5 /\ Step.page = 1
              /\ Step.op = IF host.step \in {2, 4} THEN "W" ELSE "V"
              /\ host.step = 1 => Data = "any"
              /\ host.step \in {2, 3} => Data = "pattern"
              /\ host.step \in {4, 5} => Data = host.backup
<1>1. host.script \in {e130_page, e131_page} /\ host.backup \in Datum BY DEF Types
<1>2. CASE host.script = e131_page
  <2>1. host.step \in 1 .. Pages /\ host.script.pages = Pages BY <1>2, ImageScript DEF Types
  <2>2. Step = WriteOp(host.step, "image") BY <1>2, <2>1, ImageScript DEF Step
  <2>3. Step.op = "W" /\ Step.page = host.step /\ Step.data = "image" BY <2>2 DEF WriteOp
  <2> QED BY <1>2, <2>1, <2>3, OtherScript DEF Data, Datum
<1>3. CASE host.script = e130_page
  <2>1. host.step \in 1 .. 5 /\ host.script.pages = 1 BY <1>3, BackupScript DEF Types
  <2>2. /\ host.step = 1 => Step = ReadOp(1, "any")
        /\ host.step = 2 => Step = WriteOp(1, "pattern")
        /\ host.step = 3 => Step = ReadOp(1, "pattern")
        /\ host.step = 4 => Step = WriteOp(1, "backup")
        /\ host.step = 5 => Step = ReadOp(1, "backup")
    BY <1>3, BackupScript DEF Step
  <2>3. /\ Step.page = 1 /\ Step.op = IF host.step \in {2, 4} THEN "W" ELSE "V"
        /\ host.step = 1 => Step.data = "any"
        /\ host.step \in {2, 3} => Step.data = "pattern"
        /\ host.step \in {4, 5} => Step.data = "backup"
    BY <2>1, <2>2 DEF ReadOp, WriteOp
  <2> QED BY <1>1, <1>3, <2>1, <2>3, OtherScript DEF Data, Datum
<1> QED BY <1>1, <1>2, <1>3

\* A packet of the current step is sent.
LEMMA SendEffect ==
  ASSUME Types, Pages \in Nat \ {0}, Send
  PROVE  /\ host.at = "send" /\ host'.at = "wait" /\ host'.script = host.script
         /\ host'.step = host.step /\ host'.backup = host.backup /\ host'.restored = host.restored
         /\ dev'.page = dev.page /\ wire'.up = wire.up /\ Types'
         /\ \E packet \in PacketRecord :
               /\ wire'.down = Append(wire.down, packet)
               /\ packet.op = Step.op /\ packet.data = Data /\ packet.page = Step.page
<1> DEFINE packet(d) == [op |-> Step.op, page |-> Step.page, data |-> Data, damage |-> d]
<1>1. PICK d \in {"none", "changed", "missing"} :
        /\ wire' = [wire EXCEPT !.down = Append(wire.down, packet(d))]
        /\ dev' = [dev EXCEPT !.faults = IF d = "none" THEN dev.faults ELSE dev.faults + 1]
  BY DEF Send
<1>2. packet(d) \in PacketRecord BY <1>1, StepType DEF PacketRecord
<1>3. host.at = "send" /\ host' = [host EXCEPT !.at = "wait"] BY DEF Send
<1>4. host \in HostRecord /\ wire \in [down : Seq(PacketRecord), up : Seq(LineRecord)]
      /\ dev \in [page : [1 .. host.script.pages -> Datum], faults : Nat]
  BY DEF Types, HostRecord
<1>5. /\ host' \in HostRecord /\ host'.at = "wait" /\ host'.script = host.script
      /\ host'.step = host.step /\ host'.backup = host.backup /\ host'.restored = host.restored
  BY <1>3, <1>4 DEF HostRecord
<1>6. wire.down \in Seq(PacketRecord) /\ Append(wire.down, packet(d)) \in Seq(PacketRecord)
      /\ Len(Append(wire.down, packet(d))) = Len(wire.down) + 1 /\ Len(wire.down) \in Nat
      /\ Append(wire.down, packet(d))[Len(wire.down) + 1] = packet(d)
      /\ \A i \in 1 .. Len(wire.down) : Append(wire.down, packet(d))[i] = wire.down[i]
  BY <1>2, <1>4, AppendProperties, LenProperties
<1>7. /\ wire'.down = Append(wire.down, packet(d)) /\ wire'.up = wire.up
      /\ wire' \in [down : Seq(PacketRecord), up : Seq(LineRecord)]
  BY <1>1, <1>4, <1>6
<1>8. dev'.page = dev.page /\ dev' \in [page : [1 .. host.script.pages -> Datum], faults : Nat]
  BY <1>1, <1>4
<1>9. \A i \in 1 .. Len(wire'.down) : wire'.down[i].page \in 1 .. host.script.pages
  <2> SUFFICES ASSUME NEW i \in 1 .. Len(wire'.down)
               PROVE  wire'.down[i].page \in 1 .. host.script.pages
    OBVIOUS
  <2>1. CASE i = Len(wire.down) + 1
    <3>1. wire'.down[i] = packet(d) BY <1>6, <1>7, <2>1
    <3> QED BY <3>1, StepType
  <2>2. CASE i \in 1 .. Len(wire.down) BY <1>6, <1>7, <2>2 DEF Types
  <2> QED BY <1>6, <1>7, <2>1, <2>2
<1>10. Types' BY <1>5, <1>7, <1>8, <1>9 DEF Types, HostRecord
<1> QED BY <1>2, <1>3, <1>5, <1>7, <1>8, <1>10

\* The first packet of an empty line.
LEMMA AppendToEmpty ==
  ASSUME NEW x
  PROVE  Len(Append(<<>>, x)) = 1 /\ Append(<<>>, x)[1] = x
  OBVIOUS

LEMMA SendKeeps ==
  ASSUME IInv, Pages \in Nat \ {0}, Send
  PROVE  IInv'
<1>1. PICK packet \in PacketRecord :
        /\ wire'.down = Append(wire.down, packet)
        /\ packet.op = Step.op /\ packet.data = Data /\ packet.page = Step.page
  BY SendEffect DEF IInv
<1>2. /\ host.at = "send" /\ host'.at = "wait" /\ host'.script = host.script
      /\ host'.step = host.step /\ host'.backup = host.backup /\ host'.restored = host.restored
      /\ dev'.page = dev.page /\ wire'.up = wire.up /\ Types' /\ Types
  BY SendEffect DEF IInv
<1>3. Under /\ ~host'.restored BY <1>2 DEF IInv
<1>4. host.script \in {e130_page, e131_page} /\ host.step \in Nat BY <1>2 DEF Types
<1>5. ASSUME Clean
      PROVE  Clean' /\ Len(wire'.down) = 1 /\ wire'.down[1] = packet /\ Len(wire'.up) = 0
  <2>1. wire.down = <<>> /\ wire.up = <<>> BY <1>2, <1>5 DEF Clean
  <2>2. Len(wire'.down) = 1 /\ wire'.down[1] = packet /\ Len(wire'.up) = 0
    BY <1>1, <1>2, <2>1, AppendToEmpty
  <2> QED BY <1>2, <2>2 DEF Clean
<1>6. CASE host.script = e131_page
  <2>1. Image BY <1>3, <1>6 DEF Under
  <2>2. packet.op = "W" /\ packet.page = host.step /\ packet.data = "image"
    BY <1>1, <1>2, <1>6, StepType
  <2>3. Clean' /\ Len(wire'.down) = 1 /\ wire'.down[1] = packet /\ Len(wire'.up) = 0
    BY <1>5, <2>1 DEF Image
  <2>4. Image' BY <1>2, <2>1, <2>2, <2>3 DEF Image
  <2> QED BY <1>2, <1>3, <1>6, <2>4, OtherScript DEF IInv, Under
<1>7. CASE host.script = e130_page /\ host.step <= 3
  <2>1. Early BY <1>3, <1>7 DEF Under
  <2>2. IF host.step = 2 THEN packet.op = "W" /\ packet.data = "pattern" ELSE packet.op = "V"
    BY <1>1, <1>2, <1>7, StepType
  <2>3. Clean' /\ Len(wire'.down) = 1 /\ wire'.down[1] = packet /\ Len(wire'.up) = 0
    BY <1>5, <2>1 DEF Early
  <2>4. Early' BY <1>2, <2>1, <2>2, <2>3 DEF Early
  <2> QED BY <1>2, <1>3, <1>7, <1>4, <2>4, OtherScript DEF IInv, Under
<1>8. CASE host.script = e130_page /\ host.step > 3
  <2>1. Finally BY <1>3, <1>8 DEF Under
  <2>2. host.step \in {4, 5} /\ packet.data = "original"
        /\ packet.op = IF host.step = 4 THEN "W" ELSE "V"
    BY <1>1, <1>2, <1>8, <2>1, StepType DEF Finally
  <2>3. /\ Len(wire.down) \in Nat /\ Len(wire'.down) = Len(wire.down) + 1
        /\ wire'.down[Len(wire.down) + 1] = packet
        /\ \A i \in 1 .. Len(wire.down) : wire'.down[i] = wire.down[i]
    <3>1. wire.down \in Seq(PacketRecord) BY <1>2 DEF Types
    <3> QED BY <1>1, <3>1, AppendProperties, LenProperties
  <2>4. \A i \in 1 .. Len(wire.down) : ~LastRead(i) BY <1>2 DEF LastRead
  <2>5. \A i \in 1 .. Len(wire'.down) :
          /\ wire'.down[i].op = "V" => (i = 1 /\ dev.page[1] = "pattern") \/ LastRead(i)'
          /\ wire'.down[i].op = "W" => i = 1 \/ wire'.down[i].data = "original"
    <3> SUFFICES ASSUME NEW i \in 1 .. Len(wire'.down)
                 PROVE  /\ wire'.down[i].op = "V" =>
                             (i = 1 /\ dev.page[1] = "pattern") \/ LastRead(i)'
                        /\ wire'.down[i].op = "W" => i = 1 \/ wire'.down[i].data = "original"
      OBVIOUS
    <3>1. CASE i \in 1 .. Len(wire.down) BY <2>1, <2>3, <2>4, <3>1 DEF Finally
    <3>2. CASE i = Len(wire.down) + 1 BY <1>2, <2>2, <2>3, <3>2 DEF LastRead
    <3> QED BY <2>3, <3>1, <3>2
  <2>6. \A i \in 1 .. Len(wire.up) : ~(wire.up[i].kind = "page" /\ wire.up[i].data = "original")
    BY <1>2, <2>1 DEF Finally
  <2>7. Finally' BY <1>2, <2>1, <2>5, <2>6 DEF Finally
  <2> QED BY <1>2, <1>3, <1>8, <1>4, <2>7, OtherScript DEF IInv, Under
<1> QED BY <1>6, <1>7, <1>8, <1>4

---------------------------------------------------------------------------
(* Where the script goes on.                                               *)

\* The script, its backup and what it claims stay; the step is one of its steps.
Goes(h, r) ==
  /\ r \in HostRecord /\ r.script = h.script /\ r.backup = h.backup
  /\ r.step \in 1 .. Len(h.script.steps)

LEMMA RaisedEffect ==
  ASSUME NEW h \in HostRecord, h.step \in 1 .. Len(h.script.steps), Pages \in Nat \ {0}
  PROVE  /\ Goes(h, Raised(h)) /\ Raised(h).restored = h.restored
         /\ Raised(h).at # "end" =>
              h.script = e130_page /\ h.step \in {2, 3} /\ Raised(h).at = "send" /\ Raised(h).step = 4
<1>1. h.script \in {e130_page, e131_page} /\ h.step \in Nat BY DEF HostRecord
<1> DEFINE back == [h EXCEPT !.at = "send", !.step = h.script.final, !.attempt = 1, !.failed = TRUE]
           stop == [h EXCEPT !.at = "end", !.failed = TRUE]
<1>2. /\ stop \in HostRecord /\ stop.script = h.script /\ stop.backup = h.backup
      /\ stop.step = h.step /\ stop.restored = h.restored /\ stop.at = "end"
  BY DEF HostRecord
<1>3. ASSUME h.step >= h.script.guarded, h.step < h.script.final
      PROVE  h.script = e130_page /\ h.step \in {2, 3} /\ h.script.final = 4
  BY <1>1, <1>3, BackupScript, ImageScript
<1>4. ASSUME h.script.final \in Nat
      PROVE  /\ back \in HostRecord /\ back.script = h.script /\ back.backup = h.backup
             /\ back.step = h.script.final /\ back.restored = h.restored /\ back.at = "send"
  BY <1>4 DEF HostRecord
<1>5. CASE h.step >= h.script.guarded /\ h.step < h.script.final
  <2>1. Raised(h) = back BY <1>5 DEF Raised
  <2> HIDE DEF back, stop
  <2>2. 4 \in 1 .. Len(h.script.steps) BY <1>3, <1>5, BackupScript
  <2> QED BY <1>3, <1>4, <1>5, <2>1, <2>2 DEF Goes
<1>6. CASE ~(h.step >= h.script.guarded /\ h.step < h.script.final)
  <2>1. Raised(h) = stop BY <1>6 DEF Raised
  <2> HIDE DEF back, stop
  <2> QED BY <1>2, <2>1 DEF Goes
<1> QED BY <1>5, <1>6

LEMMA ReturnedEffect ==
  ASSUME NEW h \in HostRecord, h.step \in 1 .. Len(h.script.steps), Len(h.script.steps) \in Nat
  PROVE  /\ Goes(h, Returned(h))
         /\ h.step = Len(h.script.steps) => Returned(h).at = "end"
         /\ h.step # Len(h.script.steps) =>
              /\ Returned(h).at = "send" /\ Returned(h).step = h.step + 1
              /\ Returned(h).restored = h.restored
<1> DEFINE up == h.step + 1
<1>1. h.step \in Nat /\ up \in Nat BY DEF HostRecord
<1> HIDE DEF up
<1> DEFINE stop == [h EXCEPT !.at = "end", !.restored = TRUE]
           next == [h EXCEPT !.at = "send", !.step = up, !.attempt = 1]
<1>2. /\ stop \in HostRecord /\ stop.script = h.script /\ stop.backup = h.backup
      /\ stop.step = h.step /\ stop.at = "end"
  BY DEF HostRecord
<1>3. /\ next \in HostRecord /\ next.script = h.script /\ next.backup = h.backup
      /\ next.step = up /\ next.at = "send" /\ next.restored = h.restored
  BY <1>1 DEF HostRecord
<1>4. CASE h.step = Len(h.script.steps)
  <2>1. Returned(h) = stop BY <1>4 DEF Returned
  <2> HIDE DEF stop, next
  <2> QED BY <1>2, <1>4, <2>1 DEF Goes
<1>5. CASE h.step # Len(h.script.steps)
  <2>1. Returned(h) = next BY <1>5 DEF Returned, up
  <2> HIDE DEF stop, next
  <2>2. up \in 1 .. Len(h.script.steps) BY <1>1, <1>5 DEF up
  <2>3. Goes(h, Returned(h)) BY <1>3, <2>1, <2>2 DEF Goes
  <2> QED BY <1>3, <1>5, <2>1, <2>3 DEF up
<1> QED BY <1>4, <1>5

LEMMA RetryEffect ==
  ASSUME NEW h \in HostRecord, h.step \in 1 .. Len(h.script.steps)
  PROVE  \/ Retry(h) = Raised(h)
         \/ /\ Goes(h, Retry(h)) /\ Retry(h).at = "send" /\ Retry(h).step = h.step
            /\ Retry(h).restored = h.restored
<1> DEFINE n == h.attempt + 1
<1>1. h.attempt \in Nat /\ n \in Nat BY DEF HostRecord
<1> HIDE DEF n
<1> DEFINE again == [h EXCEPT !.at = "send", !.attempt = n]
<1>2. /\ again \in HostRecord /\ again.script = h.script /\ again.backup = h.backup
      /\ again.step = h.step /\ again.at = "send" /\ again.restored = h.restored
  BY <1>1 DEF HostRecord
<1>3. CASE h.attempt = 3 BY <1>3 DEF Retry
<1>4. CASE h.attempt # 3
  <2>1. Retry(h) = again BY <1>4 DEF Retry, n
  <2> HIDE DEF again
  <2> QED BY <1>2, <2>1 DEF Goes
<1> QED BY <1>3, <1>4

LEMMA HostType ==
  ASSUME Types, Pages \in Nat \ {0}
  PROVE  /\ host \in HostRecord /\ host.step \in 1 .. Len(host.script.steps) /\ host.step \in Nat
         /\ Len(host.script.steps) \in Nat /\ host.script \in {e130_page, e131_page}
         /\ Len(wire.down) \in Nat /\ Len(wire.up) \in Nat
<1>1. wire.down \in Seq(PacketRecord) /\ wire.up \in Seq(LineRecord) BY DEF Types
<1> QED BY <1>1, BackupScript, ImageScript, LenProperties DEF Types, HostRecord

---------------------------------------------------------------------------
(* Waits.                                                                  *)

\* The lines behind the one that was taken.
LEMMA Rest ==
  ASSUME Types, NEW i \in 1 .. Len(wire.up), wire' = [wire EXCEPT !.up = SubSeq(@, i + 1, Len(@))]
  PROVE  /\ wire' \in [down : Seq(PacketRecord), up : Seq(LineRecord)] /\ wire'.down = wire.down
         /\ Len(wire'.up) \in Nat /\ Len(wire'.up) < Len(wire.up)
         /\ \A j \in 1 .. Len(wire'.up) : \E k \in 1 .. Len(wire.up) : wire'.up[j] = wire.up[k]
<1>1. wire \in [down : Seq(PacketRecord), up : Seq(LineRecord)] /\ Len(wire.up) \in Nat
  BY LenProperties DEF Types
<1> DEFINE n == Len(wire.up)
           rest == SubSeq(wire.up, i + 1, n)
<1>2. \A j \in i + 1 .. n : wire.up[j] \in LineRecord
  <2> SUFFICES ASSUME NEW j \in i + 1 .. n PROVE wire.up[j] \in LineRecord OBVIOUS
  <2>1. j \in 1 .. Len(wire.up) /\ wire.up \in Seq(LineRecord) BY <1>1
  <2> QED BY <2>1, ElementOfSeq
<1>3. /\ rest \in Seq(LineRecord) /\ Len(rest) = IF i + 1 <= n THEN n - (i + 1) + 1 ELSE 0
      /\ \A j \in 1 .. n - (i + 1) + 1 : rest[j] = wire.up[i + 1 + j - 1]
  BY <1>1, <1>2, SubSeqProperties
<1>4. wire'.down = wire.down /\ wire'.up = rest BY <1>1
<1>5. wire' \in [down : Seq(PacketRecord), up : Seq(LineRecord)] BY <1>1, <1>3
<1> HIDE DEF rest
<1>6. n \in Nat /\ Len(rest) \in Nat /\ Len(rest) = n - i BY <1>1, <1>3
<1>7. \A j \in 1 .. Len(rest) : \E k \in 1 .. n : rest[j] = wire.up[k]
  <2> SUFFICES ASSUME NEW j \in 1 .. Len(rest) PROVE \E k \in 1 .. n : rest[j] = wire.up[k]
    OBVIOUS
  <2>1. j \in 1 .. n - (i + 1) + 1 BY <1>6
  <2>2. rest[j] = wire.up[i + 1 + j - 1] BY <1>3, <2>1
  <2> DEFINE k == i + 1 + j - 1
  <2>3. k \in 1 .. n BY <1>6, <2>1
  <2> HIDE DEF k
  <2> QED BY <2>2, <2>3 DEF k
<1>8. Len(rest) < n BY <1>6
<1> QED BY <1>4, <1>5, <1>6, <1>7, <1>8

\* The packets and the pages stay; the script goes on from h, some lines are consumed.
Resumes(h) ==
  /\ h \in HostRecord /\ h.script = host.script /\ h.step = host.step /\ h.restored = host.restored
  /\ wire' \in [down : Seq(PacketRecord), up : Seq(LineRecord)] /\ wire'.down = wire.down
  /\ dev' = dev
  /\ \A j \in 1 .. Len(wire'.up) : \E k \in 1 .. Len(wire.up) : wire'.up[j] = wire.up[k]

LEMMA ResumeTypes ==
  ASSUME Types, NEW h, Resumes(h), Goes(h, host')
  PROVE  Types'
  BY DEF Types, Resumes, Goes, HostRecord

\* In its finally clause the script goes on to the next packet.
LEMMA ResumeFinally ==
  ASSUME Types, Pages \in Nat \ {0}, NEW h, Resumes(h), Goes(h, host'),
         host.step = 4, Finally, h.backup = host.backup, host'.at = "send"
  PROVE  Finally'
<1>1. /\ wire'.down = wire.down /\ dev' = dev /\ host'.backup = host.backup
  BY DEF Resumes, Goes
<1>2. \A i \in 1 .. Len(wire.down) :
        /\ wire.down[i].op = "V" => i = 1 /\ dev.page[1] = "pattern"
        /\ wire.down[i].op = "W" => i = 1 \/ wire.down[i].data = "original"
  BY DEF Finally, LastRead
<1>3. \A i \in 1 .. Len(wire.up) : ~(wire.up[i].kind = "page" /\ wire.up[i].data = "original")
  BY DEF Finally
<1>4. \A i \in 1 .. Len(wire'.up) : ~(wire'.up[i].kind = "page" /\ wire'.up[i].data = "original")
  BY <1>3 DEF Resumes
<1> QED BY <1>1, <1>2, <1>4 DEF Finally

\* An experiment of e130 that failed: what is under way is told apart in the finally clause.
LEMMA RaisedKeeps ==
  ASSUME IInv, Pages \in Nat \ {0}, host.at = "wait", Resumes(host), host' = Raised(host)
  PROVE  IInv'
<1>1. /\ Goes(host, host') /\ host'.restored = host.restored
      /\ host'.at # "end" => host.script = e130_page /\ host.step \in {2, 3} /\ host'.step = 4
  BY HostType, RaisedEffect DEF IInv
<1>2. Types' /\ ~host'.restored BY <1>1, ResumeTypes DEF IInv
<1>3. CASE host'.at = "end" BY <1>2, <1>3 DEF IInv
<1>4. CASE host'.at # "end"
  <2>1. Early /\ host.step \in {2, 3} /\ host.script = e130_page BY <1>1, <1>4 DEF IInv, Under
  <2>2. Len(wire.down) \in Nat /\ Len(wire.up) \in Nat /\ Len(wire.down) + Len(wire.up) <= 1
    BY <2>1, HostType DEF Early, Clean, IInv
  <2>3. \A i \in 1 .. Len(wire.down) : i = 1
    <3> DEFINE n == Len(wire.down)
    <3>1. n \in {0, 1} BY <2>2, AtMostOne
    <3> HIDE DEF n
    <3>2. \A i \in 1 .. n : i = 1 BY <3>1
    <3> QED BY <3>2 DEF n
  <2>4. \A i \in 1 .. Len(wire.down) : wire.down[i].op = "V" => dev.page[1] = "pattern"
    BY <2>1 DEF Early
  <2>5. \A i \in 1 .. Len(wire.up) : ~(wire.up[i].kind = "page" /\ wire.up[i].data = "original")
    BY <2>1 DEF Early
  <2>6. \A i \in 1 .. Len(wire'.up) : ~(wire'.up[i].kind = "page" /\ wire'.up[i].data = "original")
    BY <2>5 DEF Resumes
  <2>7. host'.backup = "original" /\ wire'.down = wire.down /\ dev' = dev
    BY <1>1, <2>1 DEF Early, Goes, Resumes
  <2>8. Finally' BY <2>3, <2>4, <2>6, <2>7 DEF Finally
  <2>9. host'.script = e130_page /\ host'.step = 4 BY <1>1, <1>4 DEF Goes
  <2> QED BY <1>2, <2>8, <2>9, OtherScript DEF IInv, Under
<1> QED BY <1>3, <1>4

LEMMA TimeoutKeeps ==
  ASSUME IInv, Pages \in Nat \ {0}, Timeout
  PROVE  IInv'
<1>1. host.at = "wait" /\ host' = Raised(host) /\ wire' = wire /\ dev' = dev BY DEF Timeout
<1>2. Resumes(host) BY <1>1, HostType DEF Resumes, IInv, Types
<1> QED BY <1>1, <1>2, RaisedKeeps

\* The line that the script takes, and where it goes on.
LEMMA WaitEffect ==
  ASSUME Types, Wait
  PROVE  /\ host.at = "wait"
         /\ \E i \in 1 .. Len(wire.up) :
               /\ Expected(wire.up[i])
               /\ wire' = [wire EXCEPT !.up = SubSeq(@, i + 1, Len(@))] /\ dev' = dev
               /\ host' = IF Step.op = "V"
                          THEN IF Data \in {"any", wire.up[i].data}
                               THEN Returned([host EXCEPT !.backup =
                                                 IF Data = "any" THEN wire.up[i].data ELSE @])
                               ELSE Raised(host)
                          ELSE IF wire.up[i].kind = "ok" THEN Returned(host) ELSE Retry(host)
<1>1. DOMAIN wire.up = 1 .. Len(wire.up) BY LenProperties DEF Types
<1> QED BY <1>1 DEF Wait

LEMMA WaitImage ==
  ASSUME IInv, Pages \in Nat \ {0}, host.at = "wait", host.script = e131_page,
         NEW i \in 1 .. Len(wire.up), Resumes(host), Len(wire'.up) < Len(wire.up),
         Len(wire'.up) \in Nat,
         host' = IF wire.up[i].kind = "ok" THEN Returned(host) ELSE Retry(host)
  PROVE  IInv'
<1>1. Image /\ Types /\ ~host.restored BY DEF IInv, Under
<1>2. /\ host \in HostRecord /\ host.step \in 1 .. Pages /\ Len(host.script.steps) = Pages
      /\ host.script.pages = Pages /\ host.script.name = "e131" /\ host.step \in Nat
  BY <1>1, HostType, ImageScript
<1>3. Len(wire.down) = 0 /\ Len(wire'.up) = 0
  <2>1. /\ Len(wire.down) \in Nat /\ Len(wire.up) \in Nat /\ Len(wire.down) + Len(wire.up) <= 1
    BY <1>1, HostType DEF Image, Clean
  <2>2. Len(wire.up) # 0 BY <2>1
  <2>3. Len(wire.down) = 0 /\ Len(wire.up) \in {0, 1} BY <2>1, <2>2, AtMostOne
  <2> QED BY <2>3, LessThanOne
<1>4. wire.down \in Seq(PacketRecord) /\ wire'.up \in Seq(LineRecord) /\ wire'.down = wire.down
      /\ dev' = dev
  BY <1>1 DEF Types, Resumes
<1>5. wire'.down = <<>> /\ wire'.up = <<>> BY <1>3, <1>4, EmptySeq
<1>6. CASE wire.up[i].kind = "ok"
  <2>1. dev.page[host.step] = "image" BY <1>1, <1>6 DEF Image
  <2>2. \A p \in 1 .. host.step : dev.page[p] = "image" BY <1>1, <1>2, <2>1 DEF Image
  <2>3. host' = Returned(host) BY <1>6
  <2>4. Goes(host, host') BY <1>2, <2>3, ReturnedEffect
  <2>5. Types' BY <1>1, <2>4, ResumeTypes
  <2>6. CASE host.step = Pages
    <3>1. host'.at = "end" /\ host'.script = e131_page
      BY <1>2, <2>3, <2>4, <2>6, ReturnedEffect DEF Goes
    <3>2. DOMAIN dev.page = 1 .. Pages BY <1>1, <1>2 DEF Types
    <3>3. FlashRestored' BY <1>2, <1>4, <2>2, <2>6, <3>1, <3>2 DEF FlashRestored
    <3> QED BY <1>5, <2>5, <3>1, <3>3 DEF IInv
  <2>7. CASE host.step # Pages
    <3>1. /\ host'.at = "send" /\ host'.script = e131_page /\ host'.step = host.step + 1
          /\ ~host'.restored
      BY <1>1, <1>2, <2>3, <2>4, <2>7, ReturnedEffect DEF Goes
    <3>2. host'.step - 1 = host.step BY <1>2, <3>1
    <3>3. Image' BY <1>3, <1>4, <1>5, <2>2, <3>1, <3>2 DEF Image, Clean
    <3> QED BY <2>5, <3>1, <3>3, OtherScript DEF IInv, Under
  <2> QED BY <2>6, <2>7
<1>7. CASE wire.up[i].kind # "ok" /\ host' # Raised(host)
  <2>1. /\ Goes(host, host') /\ host'.at = "send" /\ host'.step = host.step
        /\ host'.script = e131_page /\ ~host'.restored
    BY <1>1, <1>2, <1>7, RetryEffect DEF Goes
  <2>2. Types' BY <1>1, <2>1, ResumeTypes
  <2>3. Image' BY <1>1, <1>3, <1>4, <1>5, <2>1 DEF Image, Clean
  <2> QED BY <2>1, <2>2, <2>3, OtherScript DEF IInv, Under
<1>8. CASE host' = Raised(host) BY <1>8, RaisedKeeps
<1> QED BY <1>6, <1>7, <1>8

LEMMA WaitEarly ==
  ASSUME IInv, Pages \in Nat \ {0}, host.at = "wait", host.script = e130_page, host.step <= 3,
         NEW i \in 1 .. Len(wire.up), Expected(wire.up[i]),
         NEW h, Resumes(h), host' # Raised(host),
         Len(wire'.up) < Len(wire.up), Len(wire'.up) \in Nat,
         h.backup = IF host.step = 1 THEN wire.up[i].data ELSE host.backup,
         \/ host' = Returned(h) /\ (host.step = 2 => wire.up[i].kind = "ok")
         \/ host.step = 2 /\ h = host /\ host' = Retry(host)
  PROVE  IInv'
<1>1. Early /\ Types /\ ~host.restored BY DEF IInv, Under
<1>2. /\ host \in HostRecord /\ host.step \in {1, 2, 3} /\ Len(host.script.steps) = 5
      /\ host.script.pages = 1
  <2>1. host.step \in Nat /\ host.step \in 1 .. 5 /\ host \in HostRecord
    BY <1>1, HostType, BackupScript
  <2> QED BY <2>1, BackupScript
<1>3. Len(wire.down) = 0 /\ Len(wire'.up) = 0
  <2>1. /\ Len(wire.down) \in Nat /\ Len(wire.up) \in Nat /\ Len(wire.down) + Len(wire.up) <= 1
    BY <1>1, HostType DEF Early, Clean
  <2>2. Len(wire.up) # 0 BY <2>1
  <2>3. Len(wire.down) = 0 /\ Len(wire.up) \in {0, 1} BY <2>1, <2>2, AtMostOne
  <2> QED BY <2>3, LessThanOne
<1>4. wire.down \in Seq(PacketRecord) /\ wire'.up \in Seq(LineRecord) /\ wire'.down = wire.down
      /\ dev' = dev
  BY <1>1 DEF Types, Resumes
<1>5. wire'.down = <<>> /\ wire'.up = <<>> BY <1>3, <1>4, EmptySeq
<1>6. /\ h \in HostRecord /\ h.step = host.step /\ h.script = host.script /\ ~h.restored
      /\ h.step \in 1 .. Len(h.script.steps) /\ Len(h.script.steps) \in Nat
      /\ h.step # Len(h.script.steps)
  <2>1. /\ h \in HostRecord /\ h.step = host.step /\ h.script = host.script /\ ~h.restored
    BY <1>1 DEF Resumes
  <2> DEFINE n == Len(h.script.steps)
             m == h.step
  <2>2. n = 5 /\ m \in {1, 2, 3} BY <1>2, <2>1
  <2> HIDE DEF n, m
  <2>3. m \in 1 .. n /\ n \in Nat /\ m # n BY <2>2
  <2> QED BY <2>1, <2>3 DEF n, m
<1>7. h.backup = "original"
  <2>1. CASE host.step = 1
    <3>1. Step.op = "V" BY <1>1, <2>1, StepType
    <3>2. wire.up[i].kind = "page" BY <3>1 DEF Expected
    <3> QED BY <1>1, <2>1, <3>2 DEF Early
  <2>2. CASE host.step # 1 BY <1>1, <1>2, <2>2 DEF Early
  <2> QED BY <2>1, <2>2
<1>8. CASE host' = Returned(h) /\ (host.step = 2 => wire.up[i].kind = "ok")
  <2>1. /\ Goes(h, host') /\ host'.at = "send" /\ host'.step = host.step + 1 /\ ~host'.restored
    BY <1>2, <1>6, <1>8, ReturnedEffect
  <2>2. Types' BY <1>1, <2>1, ResumeTypes
  <2>3. host'.script = e130_page /\ host'.backup = "original" BY <1>6, <1>7, <2>1 DEF Goes
  <2>4. CASE host.step = 3
    <3>1. host'.step = 4 BY <2>1, <2>4
    <3>2. Finally' BY <1>3, <1>4, <2>3 DEF Finally
    <3> QED BY <2>1, <2>2, <2>3, <3>1, <3>2, OtherScript DEF IInv, Under
  <2>5. CASE host.step # 3
    <3>1. host'.step \in {2, 3} /\ (host'.step = 3 => host.step = 2) BY <1>2, <2>1, <2>5
    <3>2. host'.step = 3 => dev.page[1] = "pattern" BY <1>1, <1>8, <3>1 DEF Early
    <3>3. Early' BY <1>3, <1>4, <1>5, <2>1, <2>3, <3>1, <3>2 DEF Early, Clean
    <3> QED BY <2>1, <2>2, <2>3, <3>1, <3>3, OtherScript DEF IInv, Under
  <2> QED BY <2>4, <2>5
<1>9. CASE host.step = 2 /\ h = host /\ host' = Retry(host)
  <2>1. /\ Goes(host, host') /\ host'.at = "send" /\ host'.step = 2 /\ ~host'.restored
    BY <1>1, <1>2, <1>6, <1>9, RetryEffect
  <2>2. Types' BY <1>1, <1>9, <2>1, ResumeTypes
  <2>3. host'.script = e130_page /\ host'.backup = "original" BY <1>7, <1>9, <2>1 DEF Goes
  <2>4. Early' BY <1>3, <1>4, <1>5, <2>1, <2>3 DEF Early, Clean
  <2> QED BY <2>1, <2>2, <2>3, <2>4, OtherScript DEF IInv, Under
<1> QED BY <1>8, <1>9

LEMMA WaitFinally ==
  ASSUME IInv, Pages \in Nat \ {0}, host.at = "wait", host.script = e130_page, host.step > 3,
         NEW i \in 1 .. Len(wire.up), Expected(wire.up[i]),
         NEW h, Resumes(h), host' # Raised(host), h.backup = host.backup,
         \/ host.step = 4 /\ host' \in {Returned(h), Retry(host)} /\ h = host
         \/ host.step = 5 /\ wire.up[i].data = host.backup /\ host' = Returned(h)
  PROVE  IInv'
<1>1. Finally /\ Types /\ ~host.restored BY DEF IInv, Under
<1>2. /\ host \in HostRecord /\ host.step \in {4, 5} /\ Len(host.script.steps) = 5
      /\ host.script.pages = 1 /\ host.script.name = "e130"
  BY <1>1, HostType, BackupScript
<1>3. /\ h \in HostRecord /\ h.step = host.step /\ h.script = host.script /\ ~h.restored
      /\ wire'.down = wire.down /\ dev' = dev
      /\ h.step \in 1 .. Len(h.script.steps) /\ Len(h.script.steps) = 5
  <2>1. /\ h \in HostRecord /\ h.step = host.step /\ h.script = host.script /\ ~h.restored
        /\ wire'.down = wire.down /\ dev' = dev
    BY <1>1 DEF Resumes
  <2> DEFINE n == Len(h.script.steps)
             m == h.step
  <2>2. n = 5 /\ m \in {4, 5} BY <1>2, <2>1
  <2> HIDE DEF n, m
  <2>3. m \in 1 .. n BY <2>2
  <2> QED BY <2>1, <2>2, <2>3 DEF n, m
<1>4. CASE host.step = 4
  <2>1. /\ Goes(h, host') /\ host'.at = "send" /\ host'.step \in {4, 5} /\ ~host'.restored
    <3>1. CASE host' = Returned(h)
      <4>1. h.step # Len(h.script.steps) /\ Len(h.script.steps) \in Nat BY <1>3, <1>4
      <4>2. Goes(h, host') /\ host'.at = "send" /\ host'.step = h.step + 1 /\ ~host'.restored
        BY <1>3, <3>1, <4>1, ReturnedEffect
      <4>3. h.step = 4 BY <1>3, <1>4
      <4> QED BY <4>2, <4>3
    <3>2. CASE host' = Retry(host) /\ h = host BY <1>2, <1>3, <1>4, <3>2, RetryEffect
    <3> QED BY <1>4, <3>1, <3>2
  <2>2. Types' BY <1>1, <2>1, ResumeTypes
  <2>3. Finally' BY <1>1, <1>4, <2>1, ResumeFinally
  <2>4. host'.script = e130_page BY <1>3, <2>1 DEF Goes
  <2> QED BY <2>1, <2>2, <2>3, <2>4, OtherScript DEF IInv, Under
<1>5. CASE host.step = 5
  <2>1. wire.up[i].data = "original" /\ host' = Returned(h) BY <1>1, <1>5 DEF Finally
  <2>2. Step.op = "V" BY <1>1, <1>5, StepType
  <2>3. wire.up[i].kind = "page" BY <2>2 DEF Expected
  <2>4. wire.down = <<>> /\ dev.page[1] = "original" BY <1>1, <2>1, <2>3 DEF Finally
  <2>5. Goes(h, host') /\ host'.at = "end"
    <3>1. h.step = Len(h.script.steps) /\ Len(h.script.steps) \in Nat BY <1>3, <1>5
    <3> QED BY <1>3, <2>1, <3>1, ReturnedEffect
  <2>6. Types' BY <1>1, <2>5, ResumeTypes
  <2>7. host'.script = e130_page BY <1>3, <2>5 DEF Goes
  <2>8. DOMAIN dev.page = 1 .. 1 BY <1>1, <1>2 DEF Types
  <2>9. FlashRestored' BY <1>2, <1>3, <2>4, <2>7, <2>8 DEF FlashRestored
  <2> QED BY <1>3, <2>4, <2>5, <2>6, <2>9 DEF IInv
<1> QED BY <1>2, <1>4, <1>5

LEMMA WaitKeeps ==
  ASSUME IInv, Pages \in Nat \ {0}, Wait
  PROVE  IInv'
<1>1. Types BY DEF IInv
<1>2. PICK i \in 1 .. Len(wire.up) :
        /\ Expected(wire.up[i])
        /\ wire' = [wire EXCEPT !.up = SubSeq(@, i + 1, Len(@))] /\ dev' = dev
        /\ host' = IF Step.op = "V"
                   THEN IF Data \in {"any", wire.up[i].data}
                        THEN Returned([host EXCEPT !.backup =
                                          IF Data = "any" THEN wire.up[i].data ELSE @])
                        ELSE Raised(host)
                   ELSE IF wire.up[i].kind = "ok" THEN Returned(host) ELSE Retry(host)
  BY <1>1, WaitEffect
<1>3. host.at = "wait" BY <1>1, WaitEffect
<1>4. /\ wire' \in [down : Seq(PacketRecord), up : Seq(LineRecord)] /\ wire'.down = wire.down
      /\ Len(wire'.up) \in Nat /\ Len(wire'.up) < Len(wire.up)
      /\ \A j \in 1 .. Len(wire'.up) : \E k \in 1 .. Len(wire.up) : wire'.up[j] = wire.up[k]
  BY <1>1, <1>2, Rest
<1>5. host \in HostRecord /\ host.script \in {e130_page, e131_page} /\ host.step \in Nat
  BY <1>1, HostType
<1>6. wire.up[i].data \in Datum /\ wire.up[i] \in LineRecord
  <2>1. wire.up \in Seq(LineRecord) BY <1>1 DEF Types
  <2>2. wire.up[i] \in LineRecord BY <2>1, ElementOfSeq
  <2> QED BY <2>2 DEF LineRecord
<1> DEFINE h == [host EXCEPT !.backup = IF Data = "any" THEN wire.up[i].data ELSE host.backup]
<1>7. /\ h \in HostRecord /\ h.step = host.step /\ h.script = host.script
      /\ h.restored = host.restored
      /\ h.backup = IF Data = "any" THEN wire.up[i].data ELSE host.backup
  BY <1>5, <1>6 DEF HostRecord
<1>8. Step.op = "V" /\ Data \in {"any", wire.up[i].data} => host' = Returned(h) BY <1>2
<1>9. Resumes(host) BY <1>2, <1>4, <1>5 DEF Resumes
<1>10. Resumes(h) BY <1>2, <1>4, <1>7 DEF Resumes
<1> HIDE DEF h
<1>11. CASE host' = Raised(host) BY <1>3, <1>9, <1>11, RaisedKeeps
<1>12. CASE host' # Raised(host) /\ host.script = e131_page
  <2>1. host' = IF wire.up[i].kind = "ok" THEN Returned(host) ELSE Retry(host)
    BY <1>1, <1>2, <1>12, StepType
  <2> QED BY <1>3, <1>4, <1>9, <1>12, <2>1, WaitImage
<1>13. CASE host' # Raised(host) /\ host.script = e130_page /\ host.step <= 3
  <2>1. CASE host.step = 2
    <3>1. host' = IF wire.up[i].kind = "ok" THEN Returned(host) ELSE Retry(host)
      BY <1>1, <1>2, <1>13, <2>1, StepType
    <3>2. \/ host' = Returned(host) /\ (host.step = 2 => wire.up[i].kind = "ok")
          \/ host.step = 2 /\ host = host /\ host' = Retry(host)
      BY <2>1, <3>1
    <3>3. host.backup = IF host.step = 1 THEN wire.up[i].data ELSE host.backup BY <2>1
    <3>4. Expected(wire.up[i]) BY <1>2
    <3> QED BY <1>3, <1>4, <1>9, <1>13, <3>2, <3>3, <3>4, WaitEarly
  <2>2. CASE host.step # 2
    <3>1. Step.op = "V" BY <1>1, <1>13, <1>5, <2>2, StepType
    <3>2. Data \in {"any", wire.up[i].data} BY <1>2, <1>13, <3>1
    <3>3. host.step \in {1, 3} /\ (host.step = 1 => Data = "any") /\ (host.step = 3 => Data = "pattern")
      BY <1>1, <1>13, <1>5, <2>2, StepType
    <3>4. h.backup = IF host.step = 1 THEN wire.up[i].data ELSE host.backup BY <1>7, <3>3
    <3>5. host' = Returned(h) /\ (host.step = 2 => wire.up[i].kind = "ok") BY <1>8, <2>2, <3>1, <3>2
    <3>6. Expected(wire.up[i]) BY <1>2
    <3> QED BY <1>3, <1>4, <1>10, <1>13, <3>4, <3>5, <3>6, WaitEarly
  <2> QED BY <2>1, <2>2
<1>14. CASE host' # Raised(host) /\ host.script = e130_page /\ host.step > 3
  <2>1. Data = "original" /\ host.backup = "original" /\ host.step \in {4, 5}
        /\ Step.op = IF host.step = 4 THEN "W" ELSE "V"
    BY <1>1, <1>3, <1>14, StepType DEF IInv, Under, Finally
  <2>2. CASE host.step = 4
    <3>1. host' \in {Returned(host), Retry(host)} BY <1>2, <2>1, <2>2
    <3>2. Expected(wire.up[i]) BY <1>2
    <3> QED BY <1>3, <1>9, <1>14, <2>2, <3>1, <3>2, WaitFinally
  <2>3. CASE host.step = 5
    <3>1. Data \in {"any", wire.up[i].data} BY <1>2, <1>14, <2>1, <2>3
    <3>2. wire.up[i].data = host.backup /\ host' = Returned(h) BY <1>8, <2>1, <2>3, <3>1
    <3>3. h.backup = host.backup BY <1>7, <2>1
    <3> QED BY <1>2, <1>3, <1>10, <1>14, <2>3, <3>2, <3>3, WaitFinally
  <2> QED BY <2>1, <2>2, <2>3
<1> QED BY <1>5, <1>11, <1>12, <1>13, <1>14

---------------------------------------------------------------------------

LEMMA InitInv ==
  ASSUME Pages \in Nat \ {0}, Init
  PROVE  IInv
<1>1. PICK script \in {e130_page, e131_page} :
        /\ host = [script |-> script, at |-> "send", step |-> 1, attempt |-> 1,
                   backup |-> "none", failed |-> FALSE, restored |-> FALSE]
        /\ dev = [page |-> [p \in 1 .. script.pages |-> "original"], faults |-> 0]
  BY DEF Init
<1>2. wire = [down |-> <<>>, up |-> <<>>] BY DEF Init
<1>3. 1 \in 1 .. Len(script.steps) /\ 1 \in 1 .. script.pages BY BackupScript, ImageScript
<1>4. /\ host.script = script /\ host.at = "send" /\ host.step = 1 /\ ~host.restored
      /\ dev.page[1] = "original" /\ wire.down = <<>> /\ wire.up = <<>>
      /\ Len(wire.down) = 0 /\ Len(wire.up) = 0
  BY <1>1, <1>2, <1>3
<1>5. wire \in [down : Seq(PacketRecord), up : Seq(LineRecord)] BY <1>2, EmptySeq
<1>6. dev \in [page : [1 .. script.pages -> Datum], faults : Nat] BY <1>1 DEF Datum
<1>7. host \in HostRecord BY <1>1 DEF HostRecord, Datum
<1>8. Types BY <1>3, <1>4, <1>5, <1>6, <1>7 DEF Types, HostRecord
<1>9. Image /\ Early BY <1>4 DEF Image, Early, Clean
<1> QED BY <1>4, <1>8, <1>9 DEF IInv, Under

LEMMA StepInv ==
  ASSUME Pages \in Nat \ {0}, MaxFaults \in Nat, IInv, [Next]_vars
  PROVE  IInv'
<1>1. CASE Send BY <1>1, SendKeeps
<1>2. CASE Wait BY <1>2, WaitKeeps
<1>3. CASE Timeout BY <1>3, TimeoutKeeps
<1>4. CASE Board BY <1>4, BoardKeeps
<1>5. CASE UNCHANGED vars
  <2>1. host' = host /\ wire' = wire /\ dev' = dev BY <1>5 DEF vars
  <2> QED BY <2>1 DEF IInv, Types, FlashRestored, Under, Image, Early, Finally, Clean, LastRead
<1> QED BY <1>1, <1>2, <1>3, <1>4, <1>5 DEF Next, Done

\* A script that reaches its end has left every page as it promises, whatever was lost, damaged or
\* late on the way (e130's finally clause, e131's retries).
THEOREM PagesRestored ==
  ASSUME Pages \in Nat \ {0}, MaxFaults \in Nat
  PROVE  Spec => []FlashRestored
<1>1. Init => IInv BY InitInv
<1>2. IInv /\ [Next]_vars => IInv' BY StepInv
<1>3. IInv => FlashRestored BY DEF IInv, FlashRestored
<1> QED BY <1>1, <1>2, <1>3, PTL DEF Spec
====
