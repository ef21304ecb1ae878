--------------------------- MODULE TcpLineProofs ---------------------------
(***************************************************************************)
(* The order of the segments in the queues of lwIP's TCP, for every size   *)
(* and pattern of losses: without a driver in between unacked and unsent   *)
(* stay one line of segments, each beginning where the one before it ends, *)
(* from the last acknowledgement to the end of the stream.  tcp_write then *)
(* always appends at that end, and a connection always has something that  *)
(* moves it.                                                               *)
(*                                                                         *)
(* What is assumed of the network is WindowKept: the peer's window does    *)
(* not move back over what was sent.                                       *)
(***************************************************************************)
EXTENDS TcpProofs

-----------------------------------------------------------------------------
(* The queues in the order of the stream.                                  *)

Rising(q) == \A i, j \in 1 .. Len(q) : i < j => q[i].seq < q[j].seq
Below(q, r) == \A i \in 1 .. Len(q), j \in 1 .. Len(r) : q[i].seq < r[j].seq

\* What is sent comes before what is not.
Straight(e) == Rising(e.unacked) /\ Rising(e.unsent) /\ Below(e.unacked, e.unsent)

\* The same, but for the head of unsent, which tcp_rexmit_fast has put there.
Bent(e) ==
  /\ Rising(e.unacked) /\ Rising(e.unsent) /\ e.unsent # <<>>
  /\ \A i \in 1 .. Len(e.unacked) :
       /\ e.unsent[1].seq < e.unacked[i].seq
       /\ \A j \in 2 .. Len(e.unsent) : e.unacked[i].seq < e.unsent[j].seq

\* A part of a rising queue rises.
LEMMA PartRises ==
  ASSUME NEW A, NEW q \in Seq(A), Rising(q), NEW k \in 0 .. Len(q), \A s \in A : s.seq \in Nat
  PROVE  /\ Rising(SubSeq(q, 1, k)) /\ Rising(SubSeq(q, k + 1, Len(q)))
         /\ Below(SubSeq(q, 1, k), SubSeq(q, k + 1, Len(q)))
<1>1. Len(q) \in Nat
  BY LenProperties
<1>2. PICK a, b : a = SubSeq(q, 1, k) /\ b = SubSeq(q, k + 1, Len(q))
  OBVIOUS
<1>3. /\ Len(a) = k /\ \A i \in 1 .. k : a[i] = q[i]
      /\ Len(b) = Len(q) - k /\ \A i \in 1 .. Len(q) - k : b[i] = q[k + i]
  BY <1>2, CutInTwo
<1>4. Rising(a)
  <2>1. \A i \in 1 .. k : i \in 1 .. Len(q)
    BY <1>1
  <2> QED BY <1>3, <2>1 DEF Rising
<1>5. Rising(b)
  <2> SUFFICES ASSUME NEW i \in 1 .. Len(q) - k, NEW j \in 1 .. Len(q) - k, i < j
               PROVE  b[i].seq < b[j].seq
    BY <1>3 DEF Rising
  <2>1. k + i \in 1 .. Len(q) /\ k + j \in 1 .. Len(q) /\ k + i < k + j
    BY <1>1
  <2> QED BY <1>3, <2>1 DEF Rising
<1>6. Below(a, b)
  <2>1. \A i \in 1 .. k, j \in 1 .. Len(q) - k :
          i \in 1 .. Len(q) /\ k + j \in 1 .. Len(q) /\ i < k + j
    BY <1>1
  <2> QED BY <1>3, <2>1 DEF Rising, Below
<1> QED BY <1>2, <1>4, <1>5, <1>6

\* Two rising queues, one after the other.
LEMMA JoinRises ==
  ASSUME NEW A, NEW q \in Seq(A), NEW r \in Seq(A), Rising(q), Rising(r), Below(q, r)
  PROVE  Rising(q \o r)
<1>1. Len(q) \in Nat /\ Len(r) \in Nat
  BY LenProperties
<1>2. PICK c : c = q \o r
  OBVIOUS
<1>3. /\ Len(c) = Len(q) + Len(r)
      /\ \A i \in 1 .. Len(q) + Len(r) : c[i] = IF i <= Len(q) THEN q[i] ELSE r[i - Len(q)]
  BY <1>2, ConcatProperties
<1>4. ASSUME NEW i \in 1 .. Len(c), NEW j \in 1 .. Len(c), i < j
      PROVE  c[i].seq < c[j].seq
  <2>1. CASE j <= Len(q)
    <3>1. i \in 1 .. Len(q) /\ j \in 1 .. Len(q) /\ c[i] = q[i] /\ c[j] = q[j]
      BY <1>1, <1>3, <1>4, <2>1
    <3> QED BY <1>4, <3>1 DEF Rising
  <2>2. CASE i > Len(q)
    <3>1. /\ i - Len(q) \in 1 .. Len(r) /\ j - Len(q) \in 1 .. Len(r)
          /\ i - Len(q) < j - Len(q) /\ c[i] = r[i - Len(q)] /\ c[j] = r[j - Len(q)]
      BY <1>1, <1>3, <1>4, <2>2
    <3> QED BY <3>1 DEF Rising
  <2>3. CASE i <= Len(q) /\ j > Len(q)
    <3>1. i \in 1 .. Len(q) /\ j - Len(q) \in 1 .. Len(r) /\ c[i] = q[i] /\ c[j] = r[j - Len(q)]
      BY <1>1, <1>3, <1>4, <2>3
    <3> QED BY <3>1 DEF Below
  <2> QED BY <1>1, <1>3, <2>1, <2>2, <2>3
<1> QED BY <1>2, <1>4 DEF Rising

\* A segment is put in its place.
LEMMA InsertSegRises ==
  ASSUME NEW A, NEW q \in Seq(A), NEW s \in A, \A x \in A : x.seq \in Nat, Rising(q),
         \A i \in 1 .. Len(q) : q[i].seq # s.seq
  PROVE  Rising(InsertSeg(q, s))
<1>1. Len(q) \in Nat /\ DOMAIN q = 1 .. Len(q) /\ \A i \in 1 .. Len(q) : q[i] \in A
  BY LenProperties, ElementOfSeq
<1>2. PICK k : k = Lead(q, {i \in DOMAIN q : q[i].seq < s.seq})
  OBVIOUS
<1>3. /\ k \in 0 .. Len(q) /\ \A i \in 1 .. k : q[i].seq < s.seq
      /\ k < Len(q) => ~(q[k + 1].seq < s.seq)
  BY <1>1, <1>2, LeadCounts
<1>4. \A i \in k + 1 .. Len(q) : s.seq < q[i].seq
  <2> SUFFICES ASSUME NEW i \in k + 1 .. Len(q) PROVE s.seq < q[i].seq
    OBVIOUS
  <2>1. k + 1 \in 1 .. Len(q) /\ i \in 1 .. Len(q)
    BY <1>1, <1>3
  <2>2. s.seq < q[k + 1].seq
    <3>1. s.seq \in Nat /\ q[k + 1].seq \in Nat /\ q[k + 1].seq # s.seq
      BY <1>1, <2>1
    <3> QED BY <1>1, <1>3, <2>1, <3>1
  <2>3. i = k + 1 \/ k + 1 < i
    BY <1>1, <1>3
  <2>4. s.seq \in Nat /\ q[k + 1].seq \in Nat /\ q[i].seq \in Nat
    BY <1>1, <2>1
  <2> QED BY <2>1, <2>2, <2>3, <2>4 DEF Rising
<1>5. PICK a, b, one : a = SubSeq(q, 1, k) /\ b = SubSeq(q, k + 1, Len(q)) /\ one = <<s>>
  OBVIOUS
<1>6. /\ a \in Seq(A) /\ Len(a) = k /\ \A i \in 1 .. k : a[i] = q[i]
      /\ b \in Seq(A) /\ Len(b) = Len(q) - k /\ \A i \in 1 .. Len(q) - k : b[i] = q[k + i]
      /\ Rising(a) /\ Rising(b) /\ Below(a, b)
  BY <1>3, <1>5, CutInTwo, PartRises
<1>7. one \in Seq(A) /\ Len(one) = 1 /\ one[1] = s
  BY <1>5
<1>8. Rising(one) /\ Below(a, one)
  BY <1>3, <1>6, <1>7 DEF Rising, Below
<1>9. a \o one \in Seq(A) /\ Rising(a \o one)
  <2>1. a \o one \in Seq(A)
    BY <1>6, <1>7, ConcatProperties
  <2> QED BY <1>6, <1>7, <1>8, <2>1, JoinRises
<1>10. PICK c : c = a \o one
  OBVIOUS
<1>11. /\ Len(c) = k + 1
       /\ \A i \in 1 .. k + 1 : c[i] = IF i <= k THEN a[i] ELSE one[i - k]
  <2>1. /\ Len(a \o one) = Len(a) + Len(one)
        /\ \A i \in 1 .. Len(a) + Len(one) :
             (a \o one)[i] = IF i <= Len(a) THEN a[i] ELSE one[i - Len(a)]
    <3>1. a \in Seq(A) /\ one \in Seq(A)
      BY <1>6, <1>7
    <3> QED BY <3>1, ConcatProperties
  <2> QED BY <1>6, <1>7, <1>10, <2>1
<1>12. Below(c, b)
  <2> SUFFICES ASSUME NEW i \in 1 .. k + 1, NEW j \in 1 .. Len(b) PROVE c[i].seq < b[j].seq
    BY <1>11 DEF Below
  <2>1. CASE i <= k
    <3>1. i \in 1 .. Len(a) /\ c[i] = a[i]
      BY <1>6, <1>11, <2>1
    <3> QED BY <1>6, <3>1 DEF Below
  <2>2. CASE i = k + 1
    <3>1. c[i] = s
      BY <1>3, <1>7, <1>11, <2>2
    <3>2. k + j \in k + 1 .. Len(q) /\ b[j] = q[k + j]
      BY <1>1, <1>3, <1>6
    <3> QED BY <1>4, <3>1, <3>2
  <2> QED BY <1>3, <2>1, <2>2
<1>13. Rising(c \o b)
  BY <1>6, <1>9, <1>10, <1>12, JoinRises
<1>14. InsertSeg(q, s) = c \o b
  BY <1>2, <1>5, <1>10 DEF InsertSeg
<1> QED BY <1>13, <1>14
-----------------------------------------------------------------------------
(* tcp_output, when the driver sends each segment at once.                 *)

Idle(e) == e.slots = 0 /\ e.drv = <<>>

\* A segment that is transmitted is put in its place.
LEMMA TransmitPuts ==
  ASSUME NEW o, NEW k \in Nat, NEW e, Sound(e, o, k), NEW s \in Segs(o), Idle(e)
  PROVE  LET f == Transmit(e, s) IN
         /\ Idle(f) /\ f.cwnd = e.cwnd /\ f.unacked = InsertSeg(e.unacked, s)
         /\ f.snd_nxt = e.snd_nxt \/ f.snd_nxt = End(s)
         /\ "ACK_NOW" \in f.flags => "ACK_NOW" \in e.flags /\ e.st = "SYN_SENT"
<1> DEFINE acks == e.st # "SYN_SENT"
<1>1. PICK d : d = IF acks THEN NoAckDue(e) ELSE e
  OBVIOUS
<1>2. /\ IsPcb(d) /\ Idle(d) /\ d.cwnd = e.cwnd
      /\ "ACK_NOW" \in d.flags => "ACK_NOW" \in e.flags /\ e.st = "SYN_SENT"
  BY <1>1 DEF NoAckDue, Sound, IsPcb, PcbFields, Idle
<1>3. PICK p : p = Packet(e, s, acks)
  OBVIOUS
<1>4. PICK g : g = Driven(d, p)
  OBVIOUS
<1>5. IsPcb(g) /\ Idle(g) /\ g.cwnd = d.cwnd /\ g.flags = d.flags
  <2>1. PICK q : q = Append(d.drv, p)
    OBVIOUS
  <2>2. Len(q) = 1 /\ Tail(q) = <<>>
    BY <1>2, <2>1 DEF Idle
  <2>3. g = [Send(d, Head(q)) EXCEPT !.drv = Tail(q)]
    BY <1>2, <1>4, <2>1, <2>2 DEF Driven, Idle
  <2> QED BY <1>2, <2>2, <2>3 DEF Send, IsPcb, PcbFields, Idle
<1>6. PICK h : h = Announced(g)
  OBVIOUS
<1>7. IsPcb(h) /\ Idle(h) /\ h.cwnd = g.cwnd /\ h.flags = g.flags
  BY <1>5, <1>6 DEF Announced, IsPcb, PcbFields, Idle
<1>8. h.unacked = e.unacked /\ h.snd_nxt = e.snd_nxt
  BY <1>1, <1>4, <1>6 DEF Driven, Send, Announced, NoAckDue, Sound, IsPcb, PcbFields
<1>9. PICK f : f = [h EXCEPT !.snd_nxt = IF End(s) > @ THEN End(s) ELSE @,
                             !.unacked = InsertSeg(@, s), !.timing = TRUE]
  OBVIOUS
<1>10. Transmit(e, s) = f
  BY <1>1, <1>3, <1>4, <1>6, <1>9, Zenon DEF Transmit
<1>11. /\ f.slots = h.slots /\ f.drv = h.drv /\ f.cwnd = h.cwnd /\ f.flags = h.flags
       /\ f.unacked = InsertSeg(h.unacked, s)
       /\ f.snd_nxt = h.snd_nxt \/ f.snd_nxt = End(s)
  BY <1>7, <1>9 DEF IsPcb, PcbFields
<1>12. "ACK_NOW" \in f.flags => "ACK_NOW" \in e.flags /\ e.st = "SYN_SENT"
  BY <1>2, <1>5, <1>7, <1>11
<1> QED BY <1>2, <1>5, <1>7, <1>8, <1>10, <1>11, <1>12 DEF Idle

\* The loop of tcp_output keeps unacked in order.
LEMMA SendAllPuts ==
  ASSUME NEW o, NEW k \in Nat, NEW e, Sound(e, o, k), NEW q \in Seq(Segs(o)), Idle(e),
         Rising(e.unacked), Rising(q),
         \A i \in 1 .. Len(e.unacked), j \in 1 .. Len(q) : e.unacked[i].seq # q[j].seq,
         NEW b \in Nat, e.snd_nxt <= b, \A i \in 1 .. Len(q) : End(q[i]) <= b
  PROVE  LET f == SendAll(e, q) IN
         /\ Idle(f) /\ f.cwnd = e.cwnd /\ Rising(f.unacked) /\ f.snd_nxt <= b
         /\ "ACK_NOW" \in f.flags => "ACK_NOW" \in e.flags
         /\ Len(q) > 0 /\ "ACK_NOW" \in f.flags => e.st = "SYN_SENT"
<1>1. Len(q) \in Nat /\ \A i \in 1 .. Len(q) : q[i] \in Segs(o)
  BY LenProperties, ElementOfSeq
<1>2. PICK p : /\ p = [i \in 0 .. Len(q) |-> IF i = 0 THEN e ELSE Transmit(p[i - 1], q[i])]
               /\ SendAll(e, q) = p[Len(q)]
  BY <1>1, SendAllLoop
<1>3. p[0] = e
  BY <1>1, <1>2
<1>4. \A i \in 1 .. Len(q) : p[i] = Transmit(p[i - 1], q[i])
  BY <1>1, <1>2
<1> DEFINE In(f, T) ==
             /\ Sound(f, o, k) /\ Idle(f) /\ f.cwnd = e.cwnd /\ f.st = e.st
             /\ Rising(f.unacked) /\ Range(f.unacked) = Range(e.unacked) \cup T
             /\ f.snd_nxt <= b
             /\ "ACK_NOW" \in f.flags => "ACK_NOW" \in e.flags
             /\ T # {} /\ "ACK_NOW" \in f.flags => e.st = "SYN_SENT"
           Places(n) == {q[i] : i \in 1 .. n}
           S == {n \in Nat : n <= Len(q) => In(p[n], Places(n))}
<1>5. 0 \in S
  <2>1. Places(0) = {}
    OBVIOUS
  <2>2. In(p[0], {})
    BY <1>3
  <2> HIDE DEF In, Places
  <2> QED BY <2>1, <2>2
<1>6. ASSUME NEW n \in Nat, n \in S PROVE n + 1 \in S
  <2>1. SUFFICES ASSUME n + 1 <= Len(q) PROVE In(p[n + 1], Places(n + 1))
    <3> HIDE DEF In, Places
    <3> QED OBVIOUS
  <2>2. PICK d, s, g, T : d = p[n] /\ s = q[n + 1] /\ g = p[n + 1] /\ T = Places(n)
    OBVIOUS
  <2>3. In(d, T)
    <3> HIDE DEF In, Places
    <3> QED BY <1>1, <1>6, <2>1, <2>2
  <2>4. n + 1 \in 1 .. Len(q) /\ s \in Segs(o) /\ End(s) <= b
    BY <1>1, <2>1, <2>2
  <2>5. g = Transmit(d, s)
    BY <1>4, <2>2, <2>4
  <2>6. Transmits(d, g, {s}, o, k)
    BY <2>3, <2>4, <2>5, TransmitKeeps
  <2>7. /\ Idle(g) /\ g.cwnd = d.cwnd /\ g.unacked = InsertSeg(d.unacked, s)
        /\ g.snd_nxt = d.snd_nxt \/ g.snd_nxt = End(s)
        /\ "ACK_NOW" \in g.flags => "ACK_NOW" \in d.flags /\ d.st = "SYN_SENT"
    BY <2>3, <2>4, <2>5, TransmitPuts
  <2>8. d.unacked \in Seq(Segs(o)) /\ e.unacked \in Seq(Segs(o))
    BY <2>3 DEF Sound, Queues
  <2>9. \A x \in Range(d.unacked) : x.seq # s.seq
    <3> SUFFICES ASSUME NEW x \in Range(e.unacked) \cup T PROVE x.seq # s.seq
      BY <2>3
    <3>1. CASE x \in Range(e.unacked)
      <4>1. PICK i \in 1 .. Len(e.unacked) : x = e.unacked[i]
        BY <2>8, <3>1, RangeEquality
      <4> QED BY <2>2, <2>4, <4>1
    <3>2. CASE x \in T
      <4>1. PICK i \in 1 .. n : x = q[i]
        BY <2>2, <3>2
      <4>2. i \in 1 .. Len(q) /\ i < n + 1
        BY <1>1, <2>1
      <4>3. q[i].seq < q[n + 1].seq
        BY <2>4, <4>2 DEF Rising
      <4>4. q[i].seq \in Nat /\ q[n + 1].seq \in Nat
        BY <1>1, <2>4, <4>2 DEF Segs, Segment
      <4> QED BY <2>2, <4>1, <4>3, <4>4
    <3> QED BY <3>1, <3>2
  <2>10. Rising(g.unacked)
    <3>1. \A i \in 1 .. Len(d.unacked) : d.unacked[i].seq # s.seq
      <4>1. \A i \in 1 .. Len(d.unacked) : d.unacked[i] \in Range(d.unacked)
        BY <2>8, RangeEquality
      <4> QED BY <2>9, <4>1
    <3>2. \A x \in Segs(o) : x.seq \in Nat
      BY DEF Segs, Segment
    <3>3. Rising(d.unacked)
      BY <2>3
    <3> QED BY <2>4, <2>7, <2>8, <3>1, <3>2, <3>3, InsertSegRises
  <2>11. Places(n + 1) = T \cup {s}
    BY <2>2
  <2>12. g.snd_nxt <= b
    BY <2>3, <2>4, <2>7
  <2>13. Sound(g, o, k) /\ g.st = d.st /\ Range(g.unacked) = Range(d.unacked) \cup {s}
    BY <2>6 DEF Transmits, SameCore
  <2>14. In(g, T \cup {s})
    BY <2>3, <2>7, <2>10, <2>12, <2>13
  <2> HIDE DEF In, Places
  <2> QED BY <2>2, <2>11, <2>14
<1>7. In(p[Len(q)], Places(Len(q)))
  <2>1. Nat \subseteq S
    <3> HIDE DEF S
    <3> QED BY <1>5, <1>6, Climbs
  <2> HIDE DEF In, Places
  <2> QED BY <1>1, <2>1
<1>8. Len(q) > 0 => Places(Len(q)) # {}
  BY <1>1
<1> QED BY <1>2, <1>7, <1>8

\* The window of tcp_output.
Usable(e) == IF e.cwnd < e.snd_wnd THEN e.cwnd ELSE e.snd_wnd

\* In both cases tcp_output puts the queues straight.
Sendable(e) == Straight(e) \/ (Bent(e) /\ Fits(e, Head(e.unsent), Usable(e)))

LEMMA StraightOrBent ==
  ASSUME NEW A, NEW e, e.unsent \in Seq(A), e.unacked \in Seq(A), \A x \in A : x.seq \in Nat,
         Straight(e) \/ Bent(e)
  PROVE  /\ Rising(e.unacked) /\ Rising(e.unsent)
         /\ \A i \in 1 .. Len(e.unacked), j \in 1 .. Len(e.unsent) :
              /\ e.unacked[i].seq # e.unsent[j].seq
              /\ j > 1 => e.unacked[i].seq < e.unsent[j].seq
<1>1. Len(e.unsent) \in Nat /\ Len(e.unacked) \in Nat
  BY LenProperties
<1>2. /\ \A i \in 1 .. Len(e.unacked) : e.unacked[i].seq \in Nat
      /\ \A i \in 1 .. Len(e.unsent) : e.unsent[i].seq \in Nat
  BY ElementOfSeq
<1>3. CASE Straight(e)
  BY <1>2, <1>3 DEF Straight, Below
<1>4. CASE Bent(e)
  <2>1. \A j \in 1 .. Len(e.unsent) : j = 1 \/ j \in 2 .. Len(e.unsent)
    BY <1>1
  <2> QED BY <1>1, <1>2, <1>4, <2>1 DEF Bent
<1> QED BY <1>3, <1>4

LEMMA OutputOrders ==
  ASSUME NEW o, NEW k \in Nat, NEW e, Sound(e, o, k), Idle(e), Sendable(e),
         NEW b \in Nat, e.snd_nxt <= b, \A s \in Range(e.unsent) : End(s) <= b
  PROVE  LET f == Output(e) IN
         /\ Idle(f) /\ f.cwnd = e.cwnd /\ Straight(f) /\ f.snd_nxt <= b
         /\ ("ACK_NOW" \in e.flags => e.st # "SYN_SENT") => "ACK_NOW" \notin f.flags
<1> DEFINE wnd == Usable(e)
           go == {i \in DOMAIN e.unsent : Fits(e, e.unsent[i], wnd) /\ ~Held(e, e.unsent[i])}
           acks == "ACK_NOW" \in e.flags /\ (e.unsent = <<>> \/ ~Fits(e, Head(e.unsent), wnd))
<1>1. e.unsent \in Seq(Segs(o)) /\ e.unacked \in Seq(Segs(o)) /\ \A x \in Segs(o) : x.seq \in Nat
  BY DEF Sound, Queues, Segs, Segment
<1>2. /\ Len(e.unsent) \in Nat /\ DOMAIN e.unsent = 1 .. Len(e.unsent)
      /\ Range(e.unsent) = {e.unsent[i] : i \in 1 .. Len(e.unsent)}
  BY <1>1, LenProperties, RangeEquality
<1>3. /\ Rising(e.unacked) /\ Rising(e.unsent)
      /\ \A i \in 1 .. Len(e.unacked), j \in 1 .. Len(e.unsent) :
           /\ e.unacked[i].seq # e.unsent[j].seq
           /\ j > 1 => e.unacked[i].seq < e.unsent[j].seq
  BY <1>1, StraightOrBent DEF Sendable
<1>4. PICK ready : ready = Lead(e.unsent, go)
  OBVIOUS
<1>5. ready \in 0 .. Len(e.unsent) /\ (ready < Len(e.unsent) => ready + 1 \notin go)
  <2> HIDE DEF go
  <2> QED BY <1>1, <1>4, LeadCounts
<1>6. e.unsent # <<>> /\ Fits(e, Head(e.unsent), wnd) => ready > 0
  <2> SUFFICES ASSUME e.unsent # <<>>, Fits(e, Head(e.unsent), wnd), ready = 0 PROVE FALSE
    BY <1>5
  <2>1. 1 \in DOMAIN e.unsent /\ Head(e.unsent) = e.unsent[1]
    BY <1>1, <1>2, EmptySeq
  <2>2. ~Held(e, e.unsent[1])
    BY DEF Held, Idle
  <2>3. 1 \in go
    BY <2>1, <2>2
  <2> HIDE DEF go
  <2> QED BY <1>2, <1>5, <2>1, <2>3
<1>7. PICK head : head = SubSeq(e.unsent, 1, ready)
  OBVIOUS
<1>8. PICK rest : rest = SubSeq(e.unsent, ready + 1, Len(e.unsent))
  OBVIOUS
<1>9. /\ head \in Seq(Segs(o)) /\ Len(head) = ready /\ \A i \in 1 .. ready : head[i] = e.unsent[i]
      /\ rest \in Seq(Segs(o)) /\ Len(rest) = Len(e.unsent) - ready
      /\ \A i \in 1 .. Len(e.unsent) - ready : rest[i] = e.unsent[ready + i]
  BY <1>1, <1>5, <1>7, <1>8, CutInTwo
<1>10. Rising(head) /\ Rising(rest) /\ Below(head, rest)
  BY <1>1, <1>3, <1>5, <1>7, <1>8, PartRises
<1>11. PICK sent : sent = SendAll(e, head)
  OBVIOUS
<1>12. Transmits(e, sent, Range(head), o, k)
  <2>1. head \in Seq(Segs(o))
    BY <1>9
  <2> QED BY <1>11, <2>1, SendAllKeeps
<1>13. /\ Idle(sent) /\ sent.cwnd = e.cwnd /\ Rising(sent.unacked) /\ sent.snd_nxt <= b
       /\ "ACK_NOW" \in sent.flags => "ACK_NOW" \in e.flags
       /\ Len(head) > 0 /\ "ACK_NOW" \in sent.flags => e.st = "SYN_SENT"
  <2>1. \A i \in 1 .. ready : i \in 1 .. Len(e.unsent)
    BY <1>2, <1>5
  <2>2. \A i \in 1 .. Len(e.unacked), j \in 1 .. Len(head) : e.unacked[i].seq # head[j].seq
    BY <1>3, <1>9, <2>1, ZenonT(30)
  <2>3. \A i \in 1 .. Len(head) : End(head[i]) <= b
    BY <1>2, <1>9, <2>1
  <2>4. head \in Seq(Segs(o)) /\ Rising(head) /\ Rising(e.unacked)
    BY <1>3, <1>9, <1>10
  <2> QED BY <1>11, <2>2, <2>3, <2>4, SendAllPuts
<1>14. CASE acks
  <2>1. Output(e) = SendEmptyAck(e)
    BY <1>14, Zenon DEF Output, Usable
  <2>2. PICK f : f = SendEmptyAck(e)
    OBVIOUS
  <2>3. /\ f.slots = e.slots /\ f.drv = e.drv /\ f.cwnd = e.cwnd /\ f.unsent = e.unsent
        /\ f.unacked = e.unacked /\ f.snd_nxt = e.snd_nxt /\ "ACK_NOW" \notin f.flags
    BY <2>2 DEF SendEmptyAck, NoAckDue, Announced, Send, Sound, IsPcb, PcbFields
  <2>4. Straight(e)
    BY <1>14 DEF Sendable, Bent
  <2> QED BY <2>1, <2>2, <2>3, <2>4 DEF Idle, Straight
<1>15. CASE ~acks
  <2>1. PICK per : per = (sent.persist \/ WindowTooSmall(e, rest))
    OBVIOUS
  <2>2. PICK f : f = [sent EXCEPT !.unsent = rest, !.persist = per]
    OBVIOUS
  <2>3. Output(e) = f
    BY <1>4, <1>7, <1>8, <1>11, <1>15, <2>1, <2>2, Zenon DEF Output, Usable
  <2>4. /\ f.slots = sent.slots /\ f.drv = sent.drv /\ f.cwnd = sent.cwnd /\ f.unsent = rest
        /\ f.unacked = sent.unacked /\ f.snd_nxt = sent.snd_nxt /\ f.flags = sent.flags
    BY <1>12, <2>2 DEF Transmits, Sound, IsPcb, PcbFields
  <2>5. ("ACK_NOW" \in e.flags => e.st # "SYN_SENT") => "ACK_NOW" \notin f.flags
    <3> SUFFICES ASSUME "ACK_NOW" \in e.flags => e.st # "SYN_SENT"
                 PROVE  "ACK_NOW" \notin f.flags
      OBVIOUS
    <3>1. ASSUME "ACK_NOW" \in e.flags PROVE ready > 0 /\ e.st # "SYN_SENT"
      BY <1>6, <1>15, <3>1
    <3> QED BY <1>9, <1>13, <2>4, <3>1
  <2>6. Below(sent.unacked, rest)
    <3> SUFFICES ASSUME NEW i \in 1 .. Len(sent.unacked), NEW j \in 1 .. Len(rest)
                 PROVE  sent.unacked[i].seq < rest[j].seq
      BY DEF Below
    <3>1. PICK x : x = sent.unacked[i]
      OBVIOUS
    <3>2. x \in Range(e.unacked) \cup Range(head)
      <4>1. sent.unacked \in Seq(Segs(o)) /\ Range(sent.unacked) = Range(e.unacked) \cup Range(head)
        BY <1>12 DEF Transmits, Sound, Queues
      <4> QED BY <3>1, <4>1, RangeEquality
    <3>3. CASE x \in Range(head)
      <4>1. PICK l \in 1 .. Len(head) : x = head[l]
        BY <1>9, <3>3, RangeEquality
      <4> QED BY <1>10, <3>1, <4>1 DEF Below
    <3>4. CASE x \in Range(e.unacked)
      <4>1. PICK l \in 1 .. Len(e.unacked) : x = e.unacked[l]
        BY <1>1, <3>4, RangeEquality
      <4>2. ready + j \in 1 .. Len(e.unsent) /\ rest[j] = e.unsent[ready + j]
        BY <1>2, <1>5, <1>9
      <4>3. CASE Straight(e)
        BY <3>1, <4>1, <4>2, <4>3 DEF Straight, Below
      <4>4. CASE ~Straight(e)
        <5>1. ready > 0
          BY <1>6, <4>4 DEF Sendable, Bent
        <5>2. ready + j > 1
          BY <1>5, <1>9, <5>1
        <5> QED BY <1>3, <3>1, <4>1, <4>2, <5>2
      <4> QED BY <4>3, <4>4
    <3> QED BY <3>2, <3>3, <3>4
  <2> QED BY <1>10, <1>13, <2>3, <2>4, <2>5, <2>6 DEF Idle, Straight
<1> QED BY <1>14, <1>15

-----------------------------------------------------------------------------
(* The queues without a gap.                                               *)

Opened(e) == e.st \in {"SYN_SENT", "SYN_RCVD", "ESTABLISHED", "CLOSE_WAIT"}

\* What is queued begins at lastack or before, ends after it, and each segment
\* begins where another one ends.
Adjoins(e) ==
  /\ \A s \in Queued(e) : e.lastack < End(s)
  /\ \A s \in Queued(e) : s.seq <= e.lastack \/ \E t \in Queued(e) : End(t) = s.seq
  /\ \A s, t \in Queued(e) : s.seq < t.seq => End(s) <= t.seq

\* It ends at snd_lbb.
Meets(e) ==
  /\ e.lastack <= e.snd_lbb
  /\ \A s \in Queued(e) :
       /\ End(s) <= e.snd_lbb
       /\ End(s) = e.snd_lbb \/ \E t \in Queued(e) : t.seq = End(s)
  /\ e.lastack = e.snd_lbb \/ \E s \in Queued(e) : End(s) = e.snd_lbb

\* So it does until a FIN is queued.
Ending(e) == e.snd_nxt <= e.snd_lbb /\ Meets(e)
Line(e) == Adjoins(e) /\ (Opened(e) => Ending(e))

\* The windows are at least one segment once the handshake has begun.
Wide(e) == e.cwnd \in Nat /\ e.snd_wnd \in Nat /\ (e.lastack >= 1 => e.cwnd >= Mss)

\* What a pcb is between two steps, and what it is when tcp_output is called.
InLine(e) == Idle(e) /\ Wide(e) /\ Line(e) /\ Straight(e) /\ "ACK_NOW" \notin e.flags
Lined(e) ==
  /\ Idle(e) /\ Wide(e) /\ Line(e)
  /\ Straight(e) \/ (Bent(e) /\ Living(e) /\ e.cwnd >= Mss)
  /\ "ACK_NOW" \in e.flags => e.st # "SYN_SENT"

\* The peer's window has room for what was sent.
WindowHolds(e) == \A s \in Range(e.unacked) : DataEnd(s) <= e.lastack + e.snd_wnd

LEMMA SegsAre ==
  ASSUME NEW o, o.written \in Nat, NEW s \in Segs(o)
  PROVE  /\ s.seq \in Nat /\ Len(s.data) \in Nat /\ Len(s.data) <= Mss
         /\ End(s) \in Nat /\ DataEnd(s) \in Nat
         /\ s.seq < End(s) /\ DataEnd(s) <= End(s) /\ End(s) <= DataEnd(s) + 1
         /\ ~s.syn /\ ~s.fin => DataEnd(s) = End(s)
<1>1. s.seq \in Nat /\ s.data \in Seq(Nat) /\ Len(s.data) <= Mss
      /\ (s.syn \/ s.fin \/ s.data # <<>>)
  BY DEF Segs, Segment
<1>2. Len(s.data) \in Nat /\ (s.data # <<>> => Len(s.data) > 0)
  BY <1>1, LenProperties, EmptySeq
<1>3. CASE s.syn \/ s.fin
  <2>1. TcpLen(s) = Len(s.data) + 1
    BY <1>2, <1>3, TcpLenIs
  <2> QED BY <1>1, <1>2, <1>3, <2>1, SMTT(30) DEF End, DataEnd
<1>4. CASE ~s.syn /\ ~s.fin
  <2>1. TcpLen(s) = Len(s.data)
    BY <1>2, <1>4, TcpLenIs
  <2> QED BY <1>1, <1>2, <1>4, <2>1 DEF End, DataEnd
<1> QED BY <1>3, <1>4

\* The first segment of all is the one the peer waits for.
LEMMA LeastBegins ==
  ASSUME NEW o, o.written \in Nat, NEW e, Queued(e) \subseteq Segs(o), Adjoins(e),
         NEW h \in Queued(e), \A s \in Queued(e) : h.seq <= s.seq
  PROVE  h.seq <= e.lastack
<1> SUFFICES ASSUME NEW t \in Queued(e), End(t) = h.seq PROVE FALSE
  BY DEF Adjoins
<1>1. t.seq < End(t) /\ t.seq \in Nat /\ End(t) \in Nat /\ h.seq \in Nat
  BY SegsAre
<1> QED BY <1>1

\* The queues of a sound pcb.
LEMMA QueuedAre ==
  ASSUME NEW o, NEW k, NEW e, Sound(e, o, k)
  PROVE  /\ o.written \in Nat /\ Queued(e) \subseteq Segs(o) /\ e.lastack \in Nat
         /\ e.snd_lbb \in Nat /\ e.snd_nxt \in Nat
         /\ Len(e.unsent) \in Nat /\ Len(e.unacked) \in Nat
         /\ e.unsent \in Seq(Segs(o)) /\ e.unacked \in Seq(Segs(o))
<1>1. e.unsent \in Seq(Segs(o)) /\ e.unacked \in Seq(Segs(o))
  BY DEF Sound, Queues
<1>2. ASSUME NEW q \in Seq(Segs(o)) PROVE Len(q) \in Nat /\ Range(q) \subseteq Segs(o)
  <2>1. Len(q) \in Nat /\ \A i \in 1 .. Len(q) : q[i] \in Segs(o)
    BY LenProperties, ElementOfSeq
  <2>2. Range(q) = {q[i] : i \in 1 .. Len(q)}
    BY RangeEquality
  <2> QED BY <2>1, <2>2
<1>3. Queued(e) \subseteq Segs(o) /\ Len(e.unsent) \in Nat /\ Len(e.unacked) \in Nat
  BY <1>1, <1>2 DEF Queued
<1>4. o.written \in Nat /\ e.lastack \in Nat /\ e.snd_lbb \in Nat /\ e.snd_nxt \in Nat
  BY DEF Sound, Numbers
<1> QED BY <1>1, <1>3, <1>4

\* A member of a queue has a place in it.
LEMMA PlaceOf ==
  ASSUME NEW A, NEW q \in Seq(A)
  PROVE  /\ \A i \in 1 .. Len(q) : q[i] \in Range(q)
         /\ \A s \in Range(q) : \E i \in 1 .. Len(q) : s = q[i]
<1>1. Range(q) = {q[i] : i \in 1 .. Len(q)}
  BY RangeEquality
<1> QED BY <1>1

\* Where unsent ends.
LEMMA LastIsTheEnd ==
  ASSUME NEW o, NEW k, NEW e, Sound(e, o, k), Straight(e), Ending(e), e.unsent # <<>>
  PROVE  End(Last(e.unsent)) = e.snd_lbb
<1>1. PICK n : n = Len(e.unsent)
  OBVIOUS
<1>2. n \in Nat /\ n >= 1 /\ e.unsent \in Seq(Segs(o)) /\ e.unacked \in Seq(Segs(o))
  BY <1>1, LenProperties, EmptySeq DEF Sound, Queues
<1>3. PICK s : s = e.unsent[n]
  OBVIOUS
<1>4. Last(e.unsent) = s /\ s \in Queued(e)
  BY <1>1, <1>2, <1>3, PlaceOf DEF Last, Queued
<1> SUFFICES ASSUME NEW t \in Queued(e), t.seq = End(s) PROVE FALSE
  BY <1>4 DEF Ending, Meets
<1>5. s.seq \in Nat /\ t.seq \in Nat /\ s.seq < t.seq
  BY <1>4, QueuedAre, SegsAre
<1>6. CASE t \in Range(e.unsent)
  <2>1. PICK i \in 1 .. n : t = e.unsent[i]
    BY <1>1, <1>2, <1>6, PlaceOf
  <2>2. i = n \/ i < n
    BY <1>2
  <2>3. t.seq <= s.seq
    BY <1>1, <1>2, <1>3, <1>5, <2>1, <2>2 DEF Straight, Rising
  <2> QED BY <1>5, <2>3
<1>7. CASE t \in Range(e.unacked)
  <2>1. PICK i \in 1 .. Len(e.unacked) : t = e.unacked[i]
    BY <1>2, <1>7, PlaceOf
  <2>2. t.seq < s.seq
    BY <1>1, <1>2, <1>3, <2>1 DEF Straight, Below
  <2> QED BY <1>5, <2>2
<1> QED BY <1>6, <1>7 DEF Queued

LEMMA LineEndsTheStream ==
  ASSUME NEW o, NEW k, NEW e, Sound(e, o, k), Straight(e), Ending(e)
  PROVE  EndsTheStream(e)
<1> SUFFICES ASSUME e.unsent # <<>>, ~Last(e.unsent).syn, ~Last(e.unsent).fin
             PROVE  DataEnd(Last(e.unsent)) = e.snd_lbb
  BY DEF EndsTheStream
<1>1. Last(e.unsent) \in Segs(o)
  BY LenProperties, EmptySeq, ElementOfSeq DEF Last, Sound, Queues
<1> QED BY <1>1, LastIsTheEnd, QueuedAre, SegsAre

\* What tcp_rexmit_fast has put before the other segments fits the window, for
\* one that was sent later does.
LEMMA BentFits ==
  ASSUME NEW o, NEW k, NEW e, Sound(e, o, k), Bent(e), Adjoins(e), e.unacked # <<>>,
         Wide(e), e.cwnd >= Mss, WindowHolds(e)
  PROVE  Fits(e, Head(e.unsent), Usable(e))
<1>1. PICK h, u : h = e.unsent[1] /\ u = e.unacked[1]
  OBVIOUS
<1>2. 1 \in 1 .. Len(e.unsent) /\ 1 \in 1 .. Len(e.unacked) /\ Head(e.unsent) = h
  BY <1>1, LenProperties, EmptySeq DEF Bent, Sound, Queues
<1>3. h \in Queued(e) /\ u \in Queued(e) /\ u \in Range(e.unacked)
  <2>1. h \in Range(e.unsent) /\ u \in Range(e.unacked)
    BY <1>1, <1>2, QueuedAre, PlaceOf
  <2> QED BY <2>1 DEF Queued
<1>4. h.seq < u.seq
  BY <1>1, <1>2 DEF Bent
<1>5. \A s \in Queued(e) : h.seq <= s.seq
  <2> SUFFICES ASSUME NEW s \in Queued(e) PROVE h.seq <= s.seq
    OBVIOUS
  <2>1. s.seq \in Nat /\ h.seq \in Nat
    BY <1>3, QueuedAre, SegsAre
  <2>2. CASE s \in Range(e.unsent)
    <3>1. PICK i \in 1 .. Len(e.unsent) : s = e.unsent[i]
      BY <2>2, QueuedAre, PlaceOf
    <3>2. i = 1 \/ 1 < i
      BY QueuedAre
    <3> QED BY <1>1, <1>2, <2>1, <3>1, <3>2 DEF Bent, Rising
  <2>3. CASE s \in Range(e.unacked)
    <3>1. PICK i \in 1 .. Len(e.unacked) : s = e.unacked[i]
      BY <2>3, QueuedAre, PlaceOf
    <3> QED BY <1>1, <2>1, <3>1 DEF Bent
  <2> QED BY <2>2, <2>3 DEF Queued
<1>6. h.seq <= e.lastack /\ e.lastack < End(h)
  BY <1>3, <1>5, QueuedAre, LeastBegins DEF Adjoins
<1>7. End(h) <= u.seq
  BY <1>3, <1>4 DEF Adjoins
<1>8. DataEnd(u) <= e.lastack + e.snd_wnd
  BY <1>3 DEF WindowHolds
<1>9. /\ h.seq \in Nat /\ Len(h.data) \in Nat /\ Len(h.data) <= Mss /\ End(h) \in Nat
      /\ DataEnd(h) \in Nat /\ DataEnd(h) <= End(h) /\ End(h) <= DataEnd(h) + 1
      /\ u.seq \in Nat /\ Len(u.data) \in Nat
      /\ e.lastack \in Nat /\ e.cwnd \in Nat /\ e.snd_wnd \in Nat /\ Mss \in Nat
  BY <1>3, QueuedAre, SegsAre, TcpAssumption DEF Wide
<1>10. /\ Need(e, h) \in Int /\ Need(e, h) >= 0
       /\ Need(e, h) <= e.cwnd /\ Need(e, h) <= e.snd_wnd
  <2>1. DataEnd(h) = h.seq + Len(h.data) /\ DataEnd(u) = u.seq + Len(u.data)
    BY DEF DataEnd
  <2>2. Need(e, h) = h.seq - e.lastack + Len(h.data)
    BY DEF Need
  <2>3. PICK a, x, l, c, w, n, v, y : /\ a = h.seq /\ x = Len(h.data) /\ l = e.lastack /\ c = e.cwnd
                                      /\ w = e.snd_wnd /\ n = End(h) /\ v = u.seq /\ y = Len(u.data)
    OBVIOUS
  <2>4. /\ a \in Nat /\ x \in Nat /\ l \in Nat /\ c \in Nat /\ w \in Nat /\ n \in Nat /\ v \in Nat
        /\ y \in Nat /\ Mss \in Nat
    BY <1>9, <2>3
  <2>5. a <= l /\ l < n /\ n <= v /\ v + y <= l + w /\ x <= Mss /\ Mss <= c /\ n <= a + x + 1 /\ a + x <= n
    BY <1>6, <1>7, <1>8, <1>9, <2>1, <2>3
  <2>6. a - l + x \in Int /\ a - l + x >= 0 /\ a - l + x <= c /\ a - l + x <= w
    BY <2>4, <2>5
  <2> QED BY <2>2, <2>3, <2>6
<1>11. SeqBetween(Need(e, h), 0, Usable(e))
  BY <1>10 DEF SeqBetween, Usable
<1> QED BY <1>2, <1>11 DEF Fits

\* What leaves the queues and the numbers leaves the line.
LEMMA LineStays ==
  ASSUME NEW e, NEW f, Line(e), Queued(f) = Queued(e), f.lastack = e.lastack,
         f.snd_lbb = e.snd_lbb, Opened(f) => Opened(e), Opened(f) => f.snd_nxt <= f.snd_lbb
  PROVE  Line(f)
<1>1. Adjoins(f)
  BY DEF Line, Adjoins
<1>2. ASSUME Opened(f) PROVE Ending(f)
  BY <1>2 DEF Line, Ending, Meets
<1> QED BY <1>1, <1>2 DEF Line

\* tcp_output takes nothing from unacked.
LEMMA OutputAdds ==
  ASSUME NEW o, NEW k \in Nat, NEW e, Sound(e, o, k)
  PROVE  Range(e.unacked) \subseteq Range(Output(e).unacked)
<1> DEFINE go == {i \in DOMAIN e.unsent : Fits(e, e.unsent[i], Usable(e)) /\ ~Held(e, e.unsent[i])}
           acks == "ACK_NOW" \in e.flags /\ (e.unsent = <<>> \/ ~Fits(e, Head(e.unsent), Usable(e)))
<1>1. e.unsent \in Seq(Segs(o))
  BY DEF Sound, Queues
<1>2. PICK ready : ready = Lead(e.unsent, go)
  OBVIOUS
<1>3. ready \in 0 .. Len(e.unsent)
  <2> HIDE DEF go
  <2> QED BY <1>1, <1>2, LeadCounts
<1>4. PICK head, rest : /\ head = SubSeq(e.unsent, 1, ready)
                        /\ rest = SubSeq(e.unsent, ready + 1, Len(e.unsent))
  OBVIOUS
<1>5. head \in Seq(Segs(o))
  BY <1>1, <1>3, <1>4, CutInTwo
<1>6. PICK sent : sent = SendAll(e, head)
  OBVIOUS
<1>7. Sound(sent, o, k) /\ Range(e.unacked) \subseteq Range(sent.unacked)
  BY <1>5, <1>6, SendAllKeeps DEF Transmits
<1>8. CASE acks
  <2>1. Output(e) = SendEmptyAck(e)
    BY <1>8, Zenon DEF Output, Usable
  <2>2. SendEmptyAck(e).unacked = e.unacked
    BY DEF SendEmptyAck, NoAckDue, Announced, Send, Sound, IsPcb, PcbFields
  <2> QED BY <2>1, <2>2
<1>9. CASE ~acks
  <2>1. PICK per : per = (sent.persist \/ WindowTooSmall(e, rest))
    OBVIOUS
  <2>2. PICK f : f = [sent EXCEPT !.unsent = rest, !.persist = per]
    OBVIOUS
  <2>3. Output(e) = f
    BY <1>2, <1>4, <1>6, <1>9, <2>1, <2>2, Zenon DEF Output, Usable
  <2>4. f.unacked = sent.unacked
    BY <1>7, <2>2 DEF Sound, IsPcb, PcbFields
  <2> QED BY <1>7, <2>3, <2>4
<1> QED BY <1>8, <1>9

\* tcp_output puts what is in line straight.
LEMMA OutputKeepsLine ==
  ASSUME NEW o, NEW k \in Nat, NEW e, Sound(e, o, k), Idle(e), Wide(e), Line(e),
         Straight(e) \/ (Bent(e) /\ Living(e) /\ e.cwnd >= Mss),
         Living(e) => WindowHolds(Output(e))
  PROVE  LET f == Output(e) IN
         /\ Idle(f) /\ Wide(f) /\ Line(f) /\ Straight(f)
         /\ ("ACK_NOW" \in e.flags => e.st # "SYN_SENT") => "ACK_NOW" \notin f.flags
<1>1. PICK f : f = Output(e)
  OBVIOUS
<1>2. /\ f.st = e.st /\ f.snd_lbb = e.snd_lbb /\ f.lastack = e.lastack /\ Queued(f) = Queued(e)
      /\ f.snd_wnd = e.snd_wnd /\ Range(e.unacked) \subseteq Range(f.unacked)
  BY <1>1, OutputKeeps, OutputSends, OutputAdds, ZenonT(30) DEF Calm, Quiet, SameCore
<1>3. Sendable(e)
  <2>1. CASE Straight(e)
    BY <2>1 DEF Sendable
  <2>2. CASE ~Straight(e)
    <3>1. Bent(e) /\ Living(e) /\ e.cwnd >= Mss
      BY <2>2
    <3>2. e.unacked # <<>>
      <4>1. ASSUME e.unacked = <<>> PROVE Straight(e)
        <5>1. Len(e.unacked) = 0
          BY <4>1
        <5> QED BY <3>1, <5>1 DEF Bent, Straight, Below
      <4> QED BY <2>2, <4>1
    <3>3. WindowHolds(e)
      BY <1>1, <1>2, <3>1 DEF WindowHolds
    <3>4. Adjoins(e) /\ Wide(e)
      BY DEF Line
    <3> QED BY <3>1, <3>2, <3>3, <3>4, BentFits DEF Sendable
  <2> QED BY <2>1, <2>2
<1>4. PICK b : b = IF Opened(e) THEN e.snd_lbb ELSE o.written + 2
  OBVIOUS
<1>5. b \in Nat /\ e.snd_nxt <= b /\ \A s \in Range(e.unsent) : End(s) <= b
  <2>1. CASE Opened(e)
    <3>1. Ending(e) /\ e.snd_lbb \in Nat
      BY <2>1, QueuedAre DEF Line
    <3> QED BY <1>4, <2>1, <3>1 DEF Ending, Meets, Queued
  <2>2. CASE ~Opened(e)
    <3>1. \A s \in Range(e.unsent) : End(s) <= o.written + 2
      BY QueuedAre, EndBound DEF Queued
    <3>2. o.written \in Nat /\ e.snd_nxt <= o.written + 2
      BY DEF Sound, Numbers
    <3> QED BY <1>4, <2>2, <3>1, <3>2
  <2> QED BY <2>1, <2>2
<1>6. /\ Idle(f) /\ f.cwnd = e.cwnd /\ Straight(f) /\ f.snd_nxt <= b
      /\ ("ACK_NOW" \in e.flags => e.st # "SYN_SENT") => "ACK_NOW" \notin f.flags
  BY <1>1, <1>3, <1>5, OutputOrders
<1>7. Line(f)
  <2>1. Opened(f) => Opened(e) /\ f.snd_nxt <= f.snd_lbb
    BY <1>2, <1>4, <1>6 DEF Opened
  <2> QED BY <1>2, <2>1, LineStays
<1>8. Wide(f)
  BY <1>2, <1>6 DEF Wide
<1> QED BY <1>1, <1>6, <1>7, <1>8

LEMMA OutputLines ==
  ASSUME NEW o, NEW k \in Nat, NEW e, Sound(e, o, k), Lined(e),
         Living(e) => WindowHolds(Output(e))
  PROVE  InLine(Output(e))
  BY OutputKeepsLine DEF Lined, InLine

\* With nothing on the way, tcp_output sends the first segment or lets the
\* persist timer run.
LEMMA OutputStirs ==
  ASSUME NEW o, NEW k \in Nat, NEW e, Sound(e, o, k), InLine(e), e.unsent # <<>>,
         e.unacked = <<>>
  PROVE  Output(e).persist \/ Output(e).unacked # <<>>
<1>1. PICK h : h = Head(e.unsent)
  OBVIOUS
<1>2. /\ e.unsent \in Seq(Segs(o)) /\ Len(e.unsent) \in Nat /\ Len(e.unsent) >= 1
      /\ h = e.unsent[1] /\ h \in Segs(o) /\ 1 \in DOMAIN e.unsent /\ h \in Range(e.unsent)
  <2>1. e.unsent \in Seq(Segs(o))
    BY DEF Sound, Queues
  <2>2. Len(e.unsent) \in Nat /\ Len(e.unsent) >= 1 /\ DOMAIN e.unsent = 1 .. Len(e.unsent)
    BY <2>1, LenProperties, EmptySeq
  <2>3. h = e.unsent[1] /\ 1 \in 1 .. Len(e.unsent)
    BY <1>1, <2>1, <2>2
  <2> QED BY <2>1, <2>2, <2>3, PlaceOf, ElementOfSeq
<1>3. h \in Queued(e) /\ \A s \in Queued(e) : h.seq <= s.seq
  <2> SUFFICES ASSUME NEW s \in Queued(e) PROVE h.seq <= s.seq
    BY <1>2 DEF Queued
  <2>1. s \in Range(e.unsent)
    BY DEF Queued, Range
  <2>2. PICK i \in 1 .. Len(e.unsent) : s = e.unsent[i]
    BY <1>2, <2>1, PlaceOf
  <2>3. i = 1 \/ 1 < i
    BY <1>2
  <2>4. h.seq \in Nat /\ Rising(e.unsent)
    BY <1>2, QueuedAre, SegsAre DEF InLine, Straight
  <2>5. s.seq \in Nat
    BY <1>2, <2>2, ElementOfSeq DEF Segs, Segment
  <2> QED BY <1>2, <2>2, <2>3, <2>4, <2>5 DEF Rising
<1>4. h.seq <= e.lastack /\ e.lastack < End(h)
  BY <1>3, QueuedAre, LeastBegins DEF InLine, Line, Adjoins
<1>5. /\ h.seq \in Nat /\ Len(h.data) \in Nat /\ Len(h.data) <= Mss
      /\ End(h) <= DataEnd(h) + 1 /\ End(h) \in Nat
      /\ e.lastack \in Nat /\ e.cwnd \in Nat /\ e.snd_wnd \in Nat /\ Mss \in Nat
      /\ (e.lastack >= 1 => e.cwnd >= Mss)
  <2>1. o.written \in Nat /\ e.lastack \in Nat
    BY QueuedAre
  <2>2. /\ h.seq \in Nat /\ Len(h.data) \in Nat /\ Len(h.data) <= Mss
        /\ End(h) <= DataEnd(h) + 1 /\ End(h) \in Nat
    BY <1>2, <2>1, SegsAre
  <2>3. Mss \in Nat /\ Wide(e)
    BY TcpAssumption DEF InLine
  <2> QED BY <2>1, <2>2, <2>3 DEF Wide
<1>6. Need(e, h) = h.seq - e.lastack + Len(h.data) /\ DataEnd(h) = h.seq + Len(h.data)
  BY DEF Need, DataEnd
<1>7. Need(e, h) \in Int /\ 0 <= Need(e, h) /\ Need(e, h) <= e.cwnd
  <2>1. Need(e, h) \in Int /\ 0 <= Need(e, h) /\ Need(e, h) <= Len(h.data)
    BY <1>4, <1>5, <1>6
  <2>2. CASE e.lastack >= 1
    BY <1>5, <2>1, <2>2
  <2>3. CASE e.lastack = 0
    <3>1. h.seq = 0
      BY <1>4, <1>5, <2>3
    <3>2. h.data = <<>>
      BY <1>2, <3>1 DEF Segs, Genuine, InStream
    <3> QED BY <1>5, <2>1, <3>2
  <2> QED BY <1>5, <2>2, <2>3
<1>8. CASE Fits(e, h, Usable(e))
  <2>1. ~Held(e, h)
    BY DEF Held, InLine, Idle
  <2> QED BY <1>1, <1>8, <2>1, OutputSends DEF Usable
<1>9. CASE ~Fits(e, h, Usable(e))
  <2> DEFINE go == {i \in DOMAIN e.unsent : Fits(e, e.unsent[i], Usable(e)) /\ ~Held(e, e.unsent[i])}
  <2>1. ~Fits(e, h, e.snd_wnd)
    BY <1>5, <1>7, <1>9 DEF Fits, SeqBetween, Usable
  <2>2. PICK ready : ready = Lead(e.unsent, go)
    OBVIOUS
  <2>3. ready = 0
    <3>1. 1 \notin go
      BY <1>2, <1>9
    <3> HIDE DEF go
    <3>2. ready \in 0 .. Len(e.unsent) /\ \A i \in 1 .. ready : i \in go
      BY <1>2, <2>2, LeadCounts
    <3> QED BY <1>2, <3>1, <3>2
  <2>4. PICK head, rest : /\ head = SubSeq(e.unsent, 1, ready)
                          /\ rest = SubSeq(e.unsent, ready + 1, Len(e.unsent))
    OBVIOUS
  <2>5. rest = e.unsent /\ head \in Seq(Segs(o))
    <3>1. ready \in 0 .. Len(e.unsent)
      BY <1>2, <2>3
    <3> QED BY <1>2, <2>3, <2>4, <3>1, CutInTwo
  <2>6. PICK sent : sent = SendAll(e, head)
    OBVIOUS
  <2>7. IsPcb(sent)
    BY <2>5, <2>6, SendAllKeeps DEF Transmits, Sound
  <2>8. WindowTooSmall(e, rest)
    BY <1>1, <2>1, <2>5 DEF WindowTooSmall
  <2>9. PICK f : f = [sent EXCEPT !.unsent = rest,
                                  !.persist = sent.persist \/ WindowTooSmall(e, rest)]
    OBVIOUS
  <2>10. Output(e) = f
    <3>1. "ACK_NOW" \notin e.flags
      BY DEF InLine
    <3>2. f = [sent EXCEPT !.unsent = rest, !.persist = @ \/ WindowTooSmall(e, rest)]
      BY <2>9
    <3> QED BY <2>2, <2>4, <2>6, <3>1, <3>2, Zenon DEF Output, Usable
  <2>11. f.persist
    BY <2>7, <2>8, <2>9 DEF IsPcb, PcbFields
  <2> QED BY <2>10, <2>11
<1> QED BY <1>8, <1>9

-----------------------------------------------------------------------------
(* A segment is put at the end of unsent, or the last one gets longer.     *)

\* Segments that take a place in the sequence numbers.
Places(A) == \A s \in A : s.seq \in Nat /\ End(s) \in Nat /\ s.seq < End(s)

LEMMA QueuesAre ==
  ASSUME NEW A, NEW e, e.unsent \in Seq(A), e.unacked \in Seq(A)
  PROVE  Queued(e) \subseteq A
<1>1. \A q \in Seq(A) : \A s \in Range(q) : s \in A
  BY PlaceOf, ElementOfSeq
<1> QED BY <1>1 DEF Queued

LEMMA AppendLines ==
  ASSUME NEW A, Places(A), NEW e, e.unsent \in Seq(A), e.unacked \in Seq(A), e.lastack \in Nat,
         e.snd_lbb \in Nat, Straight(e), Adjoins(e), Meets(e), NEW s \in A, s.seq = e.snd_lbb,
         NEW f, f.unsent = Append(e.unsent, s), f.unacked = e.unacked, f.lastack = e.lastack,
         f.snd_lbb = End(s)
  PROVE  Straight(f) /\ Adjoins(f) /\ Meets(f)
<1>1. PICK q, r, n : q = e.unsent /\ r = f.unsent /\ n = Len(e.unsent)
  OBVIOUS
<1>2. /\ n \in Nat /\ r \in Seq(A) /\ Len(r) = n + 1 /\ r[n + 1] = s
      /\ \A i \in 1 .. n : r[i] = q[i]
  BY <1>1, LenProperties, AppendProperties
<1>3. Queued(f) = Queued(e) \cup {s} /\ Queued(e) \subseteq A
  <2>1. Range(Append(q, s)) = Range(q) \cup {s} /\ q \in Seq(A)
    BY <1>1, AppendKeeps
  <2>2. f.unsent = Append(q, s) /\ f.unacked = e.unacked /\ e.unsent = q
    BY <1>1
  <2>3. Queued(e) \subseteq A
    BY QueuesAre
  <2> QED BY <2>1, <2>2, <2>3 DEF Queued
<1>4. \A x \in Queued(e) : /\ x.seq \in Nat /\ End(x) \in Nat /\ x.seq < End(x)
                           /\ End(x) <= s.seq /\ x.seq < s.seq
  BY <1>3 DEF Meets, Places
<1>5. s.seq \in Nat /\ End(s) \in Nat /\ s.seq < End(s)
  BY DEF Places
<1>6. \A i \in 1 .. n : q[i] \in Queued(e)
  BY <1>1, PlaceOf DEF Queued
<1>7. Rising(r)
  <2> SUFFICES ASSUME NEW i \in 1 .. n + 1, NEW j \in 1 .. n + 1, i < j
               PROVE  r[i].seq < r[j].seq
    BY <1>2 DEF Rising
  <2>1. i \in 1 .. n
    BY <1>2
  <2>2. CASE j = n + 1
    BY <1>2, <1>4, <1>6, <2>1, <2>2
  <2>3. CASE j # n + 1
    <3>1. j \in 1 .. n
      BY <1>2, <2>3
    <3> QED BY <1>1, <1>2, <2>1, <3>1 DEF Straight, Rising
  <2> QED BY <2>2, <2>3
<1>8. Below(e.unacked, r)
  <2> SUFFICES ASSUME NEW i \in 1 .. Len(e.unacked), NEW j \in 1 .. n + 1
               PROVE  e.unacked[i].seq < r[j].seq
    BY <1>2 DEF Below
  <2>1. e.unacked[i] \in Queued(e)
    BY PlaceOf DEF Queued
  <2>2. CASE j = n + 1
    BY <1>2, <1>4, <2>1, <2>2
  <2>3. CASE j # n + 1
    <3>1. j \in 1 .. n
      BY <1>2, <2>3
    <3> QED BY <1>1, <1>2, <3>1 DEF Straight, Below
  <2> QED BY <2>2, <2>3
<1>9. Straight(f)
  BY <1>1, <1>7, <1>8 DEF Straight
<1>10. Adjoins(f)
  <2>1. \A x \in Queued(f) : f.lastack < End(x)
    <3>1. e.lastack < End(s)
      BY <1>5 DEF Meets
    <3> QED BY <1>3, <3>1 DEF Adjoins
  <2>2. \A x \in Queued(f) : x.seq <= f.lastack \/ \E t \in Queued(f) : End(t) = x.seq
    <3>1. s.seq <= f.lastack \/ \E t \in Queued(f) : End(t) = s.seq
      BY <1>3 DEF Meets
    <3> QED BY <1>3, <3>1 DEF Adjoins
  <2>3. \A x, y \in Queued(f) : x.seq < y.seq => End(x) <= y.seq
    <3> SUFFICES ASSUME NEW x \in Queued(f), NEW y \in Queued(f), x.seq < y.seq
                 PROVE  End(x) <= y.seq
      OBVIOUS
    <3>1. CASE x = s
      BY <1>3, <1>4, <1>5, <3>1
    <3>2. CASE x # s
      BY <1>3, <1>4, <3>2 DEF Adjoins
    <3> QED BY <3>1, <3>2
  <2> QED BY <2>1, <2>2, <2>3 DEF Adjoins
<1>11. Meets(f)
  <2>1. f.lastack <= f.snd_lbb
    BY <1>5 DEF Meets
  <2>2. \A x \in Queued(f) : End(x) <= f.snd_lbb
    BY <1>3, <1>4, <1>5
  <2>3. \A x \in Queued(f) : End(x) = f.snd_lbb \/ \E t \in Queued(f) : t.seq = End(x)
    BY <1>3 DEF Meets
  <2> QED BY <1>3, <2>1, <2>2, <2>3 DEF Meets
<1> QED BY <1>9, <1>10, <1>11

\* The last segment of unsent gets longer.
LEMMA LongerLines ==
  ASSUME NEW A, Places(A), NEW e, e.unsent \in Seq(A), e.unacked \in Seq(A), e.lastack \in Nat,
         e.snd_lbb \in Nat, Straight(e), Adjoins(e), Meets(e), e.unsent # <<>>,
         End(Last(e.unsent)) = e.snd_lbb,
         NEW s \in A, s.seq = Last(e.unsent).seq, End(s) > e.snd_lbb,
         NEW f, f.unsent = Append(Front(e.unsent), s), f.unacked = e.unacked,
         f.lastack = e.lastack
  PROVE  Straight(f) /\ Adjoins(f) /\ (f.snd_lbb = End(s) => Meets(f))
<1>1. PICK q, r, n, l : q = e.unsent /\ r = f.unsent /\ n = Len(e.unsent) /\ l = Last(e.unsent)
  OBVIOUS
<1>2. n \in Nat /\ n >= 1 /\ l = q[n] /\ l \in A
  BY <1>1, LenProperties, EmptySeq, ElementOfSeq DEF Last
<1>3. /\ r \in Seq(A) /\ Len(r) = n /\ r[n] = s /\ \A i \in 1 .. n - 1 : r[i] = q[i]
  <2>1. PICK h : h = Front(q)
    OBVIOUS
  <2>2. h \in Seq(A) /\ Len(h) = n - 1 /\ \A i \in 1 .. n - 1 : h[i] = q[i]
    BY <1>1, <1>2, <2>1, LenProperties, ElementOfSeq, SubSeqProperties DEF Front
  <2>3. r = Append(h, s)
    BY <1>1, <2>1
  <2> QED BY <1>2, <2>2, <2>3, AppendProperties
<1>4. Queued(e) \subseteq A /\ Queued(f) \subseteq A
  <2>1. f.unsent \in Seq(A) /\ f.unacked \in Seq(A)
    BY <1>1, <1>3
  <2> QED BY <2>1, QueuesAre
<1>5. l.seq \in Nat /\ End(l) \in Nat /\ l.seq < End(l) /\ End(l) = e.snd_lbb /\ s.seq = l.seq
      /\ End(s) \in Nat /\ l \in Queued(e) /\ s \in Queued(f)
  <2>1. q[n] \in Range(q) /\ r[n] \in Range(r)
    <3>1. q \in Seq(A) /\ n \in 1 .. Len(q) /\ n \in 1 .. Len(r)
      BY <1>1, <1>2, <1>3
    <3> QED BY <1>3, <3>1, PlaceOf
  <2> QED BY <1>1, <1>2, <1>3, <2>1 DEF Places, Queued
\* The others stay, and come before.
<1>6. \A x \in Queued(f) : x = s \/ (x \in Queued(e) /\ x.seq < l.seq)
  <2> SUFFICES ASSUME NEW x \in Queued(f), x # s PROVE x \in Queued(e) /\ x.seq < l.seq
    OBVIOUS
  <2>1. CASE x \in Range(r)
    <3>1. PICK i \in 1 .. n : x = r[i]
      BY <1>3, <2>1, PlaceOf
    <3>2. i \in 1 .. n - 1 /\ x = q[i]
      BY <1>2, <1>3, <3>1
    <3>3. q[i].seq < q[n].seq /\ q[i] \in Range(q)
      <4>1. i \in 1 .. Len(q) /\ n \in 1 .. Len(q) /\ i < n
        BY <1>1, <1>2, <3>2
      <4> QED BY <1>1, <4>1, PlaceOf DEF Straight, Rising
    <3> QED BY <1>1, <1>2, <3>2, <3>3 DEF Queued
  <2>2. CASE x \in Range(e.unacked)
    <3>1. PICK i \in 1 .. Len(e.unacked) : x = e.unacked[i]
      BY <2>2, PlaceOf
    <3>2. n \in 1 .. Len(e.unsent) /\ l = e.unsent[n]
      BY <1>1, <1>2
    <3>3. x.seq < l.seq
      BY <3>1, <3>2 DEF Straight, Below
    <3> QED BY <2>2, <3>3 DEF Queued
  <2> QED BY <1>1, <2>1, <2>2 DEF Queued
<1>7. \A x \in Queued(e) : x = l \/ x \in Queued(f)
  <2> SUFFICES ASSUME NEW x \in Queued(e), x # l PROVE x \in Queued(f)
    OBVIOUS
  <2>1. CASE x \in Range(q)
    <3>1. PICK i \in 1 .. n : x = q[i]
      BY <1>1, <2>1, PlaceOf
    <3>2. i \in 1 .. Len(r) /\ x = r[i]
      BY <1>2, <1>3, <3>1
    <3> QED BY <1>1, <1>3, <3>2, PlaceOf DEF Queued
  <2>2. CASE x \in Range(e.unacked)
    BY <2>2 DEF Queued
  <2> QED BY <1>1, <2>1, <2>2 DEF Queued
<1>8. \A x \in A : x.seq \in Nat /\ End(x) \in Nat /\ x.seq < End(x)
  BY DEF Places
<1>9. Straight(f)
  <2>1. \A i \in 1 .. n : r[i].seq = q[i].seq
    <3> SUFFICES ASSUME NEW i \in 1 .. n PROVE r[i].seq = q[i].seq
      OBVIOUS
    <3>1. i = n \/ i \in 1 .. n - 1
      BY <1>2
    <3> QED BY <1>2, <1>3, <1>5, <3>1
  <2>2. Rising(r)
    BY <1>1, <1>3, <2>1 DEF Straight, Rising
  <2>3. Below(e.unacked, r)
    BY <1>1, <1>3, <2>1 DEF Straight, Below
  <2> QED BY <1>1, <2>2, <2>3 DEF Straight
<1>10. Adjoins(f)
  <2>1. \A x \in Queued(f) : f.lastack < End(x)
    <3>1. e.lastack < End(s)
      BY <1>5 DEF Adjoins
    <3> QED BY <1>6, <3>1 DEF Adjoins
  <2>2. ASSUME NEW x \in Queued(f), ~(x.seq <= f.lastack)
        PROVE  \E t \in Queued(f) : End(t) = x.seq
    <3>1. PICK y \in Queued(e) : y.seq = x.seq /\ y.seq <= l.seq
      <4>1. CASE x = s
        <5>1. l \in Queued(e) /\ l.seq = x.seq /\ l.seq <= l.seq
          BY <1>5, <4>1
        <5> QED BY <5>1
      <4>2. CASE x # s
        <5>1. x \in Queued(e) /\ x.seq < l.seq
          BY <1>6, <4>2
        <5>2. x.seq \in Nat /\ l.seq \in Nat
          BY <1>4, <1>5, <1>8, <5>1
        <5>3. x.seq <= l.seq
          BY <5>1, <5>2
        <5> QED BY <5>1, <5>3
      <4> QED BY <4>1, <4>2
    <3>2. PICK t \in Queued(e) : End(t) = x.seq
      BY <2>2, <3>1 DEF Adjoins
    <3>3. t # l
      BY <1>5, <3>1, <3>2
    <3> QED BY <1>7, <3>2, <3>3
  <2>3. ASSUME NEW x \in Queued(f), NEW y \in Queued(f), x.seq < y.seq
        PROVE  End(x) <= y.seq
    <3>1. CASE x = s
      <4>1. y # s
        BY <1>5, <2>3, <3>1
      <4>2. y.seq < l.seq
        BY <1>6, <4>1
      <4> QED BY <1>4, <1>5, <1>8, <2>3, <3>1, <4>2
    <3>2. CASE x # s
      <4>1. x \in Queued(e) /\ x.seq < l.seq
        BY <1>6, <3>2
      <4>2. CASE y = s
        BY <1>5, <4>1, <4>2 DEF Adjoins
      <4>3. CASE y # s
        BY <1>6, <2>3, <4>1, <4>3 DEF Adjoins
      <4> QED BY <4>2, <4>3
    <3> QED BY <3>1, <3>2
  <2> QED BY <2>1, <2>2, <2>3 DEF Adjoins
<1>11. ASSUME f.snd_lbb = End(s) PROVE Meets(f)
  <2>1. f.lastack <= f.snd_lbb
    BY <1>5, <1>11 DEF Meets
  <2>2. \A x \in Queued(f) : End(x) <= f.snd_lbb
    <3> SUFFICES ASSUME NEW x \in Queued(f) PROVE End(x) <= f.snd_lbb
      OBVIOUS
    <3>1. CASE x = s
      BY <1>5, <1>11, <3>1
    <3>2. CASE x # s
      <4>1. End(x) <= e.snd_lbb
        BY <1>6, <3>2 DEF Meets
      <4>2. End(x) \in Nat
        BY <1>4, <1>8
      <4> QED BY <1>5, <1>11, <4>1, <4>2
    <3> QED BY <3>1, <3>2
  <2>3. ASSUME NEW x \in Queued(f), x # s PROVE \E t \in Queued(f) : t.seq = End(x)
    <3>1. x \in Queued(e) /\ x.seq < l.seq
      BY <1>6, <2>3
    <3>2. End(x) <= l.seq
      BY <1>5, <3>1 DEF Adjoins
    <3>3. End(x) # e.snd_lbb
      BY <1>4, <1>5, <1>8, <3>1, <3>2
    <3>4. PICK t \in Queued(e) : t.seq = End(x)
      BY <3>1, <3>3 DEF Meets
    <3> QED BY <1>5, <1>7, <3>4
  <2> QED BY <1>5, <1>11, <2>1, <2>2, <2>3 DEF Meets
<1> QED BY <1>9, <1>10, <1>11

\* Straight queues without a gap, that end where the stream does.
Joined(e) == Straight(e) /\ Adjoins(e) /\ Meets(e)

LEMMA OneMore ==
  ASSUME NEW A, NEW q \in Seq(A), NEW r \in Seq(A), NEW n \in Nat, n + 1 <= Len(r)
  PROVE  q \o SubSeq(r, 1, n + 1) = Append(q \o SubSeq(r, 1, n), r[n + 1])
<1>1. n + 1 \in 1 .. Len(r) /\ 1 \in 1 .. Len(r) /\ n + 1 - 1 = n /\ n \in 0 .. Len(r)
  BY LenProperties
<1>2. PICK a, s, one : a = SubSeq(r, 1, n) /\ s = r[n + 1] /\ one = <<s>>
  OBVIOUS
<1>3. a \in Seq(A) /\ s \in A /\ one \in Seq(A)
  BY <1>1, <1>2, CutInTwo, ElementOfSeq
<1>4. SubSeq(r, 1, n + 1) = a \o one
  <2>1. n + 1 \in 1 .. Len(r) /\ n + 1 \in 1 .. n + 1
    BY <1>1
  <2>2. SubSeq(r, 1, n + 1) = SubSeq(r, 1, n + 1 - 1) \o <<r[n + 1]>>
    BY <1>1, <2>1, SubSeqRecursiveSecond
  <2> QED BY <1>1, <1>2, <2>2
<1>5. q \o a \in Seq(A)
  BY <1>3, ConcatProperties
<1>6. Append(q \o a, s) = (q \o a) \o one
  BY <1>2, <1>3, <1>5, AppendIsConcat
<1>7. (q \o a) \o one = q \o (a \o one)
  BY <1>3, ConcatAssociative
<1> QED BY <1>2, <1>4, <1>6, <1>7

\* The first n segments of more, which follow each other, go behind unsent.
LEMMA ManyLines ==
  ASSUME NEW A, Places(A), NEW e, e.unsent \in Seq(A), e.unacked \in Seq(A), e.lastack \in Nat,
         e.snd_lbb \in Nat, Joined(e), NEW more \in Seq(A),
         NEW from, from[1] = e.snd_lbb, \A i \in 1 .. Len(more) : from[i + 1] = End(more[i]),
         \A i \in 1 .. Len(more) : more[i].seq = from[i],
         NEW f, f.unsent = e.unsent \o more, f.unacked = e.unacked, f.lastack = e.lastack,
         f.snd_lbb = from[Len(more) + 1]
  PROVE  Joined(f)
<1> DEFINE To(n) == [unsent |-> e.unsent \o SubSeq(more, 1, n), unacked |-> e.unacked,
                     lastack |-> e.lastack, snd_lbb |-> from[n + 1]]
           S == {n \in Nat : n <= Len(more) => Joined(To(n)) /\ To(n).unsent \in Seq(A)
                                                /\ To(n).snd_lbb \in Nat}
<1>1. Len(more) \in Nat /\ \A i \in 1 .. Len(more) : more[i] \in A
  BY LenProperties, ElementOfSeq
<1>2. 0 \in S
  <2>1. SubSeq(more, 1, 0) = <<>>
    BY SubSeqEmpty
  <2>2. e.unsent \o SubSeq(more, 1, 0) = e.unsent
    BY <2>1, ConcatEmptySeq
  <2>3. /\ To(0).unsent = e.unsent /\ To(0).unacked = e.unacked /\ To(0).lastack = e.lastack
        /\ To(0).snd_lbb = e.snd_lbb
    BY <2>2
  <2>4. Joined(To(0))
    BY <2>3, ZenonT(30) DEF Joined, Straight, Adjoins, Meets, Queued
  <2> QED BY <2>3, <2>4
<1>3. ASSUME NEW n \in Nat, n \in S PROVE n + 1 \in S
  <2>1. SUFFICES ASSUME n + 1 <= Len(more)
                 PROVE  /\ Joined(To(n + 1)) /\ To(n + 1).unsent \in Seq(A)
                        /\ To(n + 1).snd_lbb \in Nat
    OBVIOUS
  <2>2. PICK d, g, s : d = To(n) /\ g = To(n + 1) /\ s = more[n + 1]
    OBVIOUS
  <2>3. /\ Joined(d) /\ d.unsent \in Seq(A) /\ d.snd_lbb \in Nat
        /\ d.unsent = e.unsent \o SubSeq(more, 1, n) /\ d.unacked = e.unacked
        /\ d.lastack = e.lastack /\ d.snd_lbb = from[n + 1]
        /\ g.unsent = e.unsent \o SubSeq(more, 1, n + 1) /\ g.unacked = e.unacked
        /\ g.lastack = e.lastack /\ g.snd_lbb = from[n + 1 + 1]
    <3>1. n <= Len(more)
      BY <1>1, <2>1
    <3>2. Joined(d) /\ d.unsent \in Seq(A) /\ d.snd_lbb \in Nat
      <4> HIDE DEF To
      <4> QED BY <1>3, <2>2, <3>1
    <3> QED BY <2>2, <3>2
  <2>4. n + 1 \in 1 .. Len(more) /\ s \in A
    BY <1>1, <2>1, <2>2
  <2>5. s.seq = d.snd_lbb /\ g.snd_lbb = End(s)
    BY <2>2, <2>3, <2>4
  <2>6. g.unsent = Append(d.unsent, s)
    <3>1. n + 1 <= Len(more)
      BY <1>1, <2>1
    <3>2. e.unsent \o SubSeq(more, 1, n + 1) = Append(e.unsent \o SubSeq(more, 1, n), more[n + 1])
      BY <3>1, OneMore, ZenonT(30)
    <3> QED BY <2>2, <2>3, <3>2
  <2>7. Joined(g)
    <3>1. d.unacked \in Seq(A) /\ d.lastack \in Nat /\ g.unacked = d.unacked /\ g.lastack = d.lastack
      BY <2>3
    <3>2. Straight(d) /\ Adjoins(d) /\ Meets(d)
      BY <2>3 DEF Joined
    <3>3. Straight(g) /\ Adjoins(g) /\ Meets(g)
      BY <2>3, <2>4, <2>5, <2>6, <3>1, <3>2, AppendLines, ZenonT(30)
    <3> QED BY <3>3 DEF Joined
  <2>8. g.unsent \in Seq(A) /\ g.snd_lbb \in Nat
    BY <2>3, <2>4, <2>5, <2>6, AppendProperties DEF Places
  <2> HIDE DEF To
  <2> QED BY <2>2, <2>7, <2>8
<1>4. Joined(To(Len(more)))
  <2>1. Nat \subseteq S
    <3> HIDE DEF S
    <3> QED BY <1>2, <1>3, Climbs
  <2> HIDE DEF To
  <2> QED BY <1>1, <2>1
<1>5. SubSeq(more, 1, Len(more)) = more
  BY SubSeqFull
<1>6. PICK d : d = To(Len(more))
  OBVIOUS
<1>7. /\ d.unsent = f.unsent /\ d.unacked = f.unacked /\ d.lastack = f.lastack
      /\ d.snd_lbb = f.snd_lbb /\ Joined(d)
  BY <1>4, <1>5, <1>6
<1> QED BY <1>7, Zenon DEF Joined, Straight, Adjoins, Meets, Queued

\* x bytes in segments of m: they follow each other, and the last one ends at x.
LEMMA PartsMeet ==
  ASSUME NEW x \in Nat, NEW m \in Nat \ {0}
  PROVE  LET c == (x + m - 1) \div m IN
         /\ c \in Nat /\ (c = 0 => x = 0)
         /\ \A i \in 1 .. c : (i - 1) * m \in Nat /\ (i - 1) * m < x
         /\ \A i \in 1 .. c : i < c => (i + 1 - 1) * m = (i - 1) * m + m /\ (i - 1) * m + m < x
         /\ c > 0 => x <= (c - 1) * m + m
<1>1. PICK c : c = (x + m - 1) \div m
  OBVIOUS
<1>2. c \in Nat /\ \A i \in 1 .. c : (i - 1) * m \in Nat /\ (i - 1) * m < x
  BY <1>1, PlacesInSegments
<1>3. x <= c * m /\ c * m \in Nat
  <2>1. PICK y \in Nat : y = x + m - 1
    OBVIOUS
  <2>2. y < c * m + m
    BY <1>1, <2>1, DivisionIs
  <2>3. c * m \in Int
    BY <1>2
  <2> QED BY <1>2, <2>1, <2>2, <2>3
<1>4. c = 0 => x = 0
  <2>1. 0 * m = 0
    OBVIOUS
  <2> QED BY <1>3, <2>1
<1>5. ASSUME NEW i \in Nat, i >= 1 PROVE (i - 1) * m + m = i * m
  <2>1. PICK l \in Nat : i = l + 1
    <3>1. i - 1 \in Nat /\ i = (i - 1) + 1
      BY <1>5
    <3> QED BY <3>1
  <2>2. (l + 1) * m = l * m + m /\ i - 1 = l
    BY <2>1
  <2> QED BY <2>1, <2>2
<1>6. \A i \in 1 .. c : i < c => (i + 1 - 1) * m = (i - 1) * m + m /\ (i - 1) * m + m < x
  <2> SUFFICES ASSUME NEW i \in 1 .. c, i < c
               PROVE  (i + 1 - 1) * m = (i - 1) * m + m /\ (i - 1) * m + m < x
    OBVIOUS
  <2>1. i + 1 \in 1 .. c /\ i + 1 - 1 = i /\ i \in Nat /\ i >= 1
    BY <1>2
  <2>2. (i + 1 - 1) * m < x
    BY <1>2, <2>1
  <2> QED BY <1>5, <2>1, <2>2
<1>7. c > 0 => x <= (c - 1) * m + m
  BY <1>2, <1>3, <1>5
<1> QED BY <1>1, <1>2, <1>4, <1>6, <1>7

\* tcp_write puts the new bytes where the stream ends.
LEMMA WriteJoins ==
  ASSUME NEW k \in Nat, NEW e, Sound(e, e, k), ~Over(e), e.snd_lbb = e.written + 1,
         Joined(e), EndsTheStream(e),
         e.unsent # <<>> => End(Last(e.unsent)) = e.snd_lbb, NEW n \in Nat
  PROVE  LET f == TcpWrite(e, n) IN
         Joined(f) /\ Same(e, f, {"unsent", "snd_lbb", "written"}) /\ f.snd_lbb = e.snd_lbb + n
<1>1. PICK w \in Nat : w = e.written
  BY DEF Sound, Numbers
<1>2. PICK bytes : bytes = Bytes(w, n)
  OBVIOUS
<1> DEFINE t == Last(e.unsent)
           Chain == e.unsent # <<>> /\ t.data # <<>>
           Space == IF Chain THEN Mss - Len(t.data) ELSE 0
<1>3. PICK space : space = Space
  OBVIOUS
<1>4. PICK j : j = IF n < space THEN n ELSE space
  OBVIOUS
<1>5. PICK x : x = n - j
  OBVIOUS
<1>6. PICK c : c = (x + Mss - 1) \div Mss
  OBVIOUS
<1>7. PICK tail : tail = IF j = 0 THEN e.unsent
                         ELSE Append(Front(e.unsent), [t EXCEPT !.data = @ \o SubSeq(bytes, 1, j)])
  OBVIOUS
<1> DEFINE From(i) == j + (i - 1) * Mss
           Part(i) == Seg(e.snd_lbb + From(i),
                          SubSeq(bytes, From(i) + 1, Min({From(i) + Mss, n})), FALSE, FALSE)
<1>8. PICK more : more = [i \in 1 .. c |-> Part(i)]
  OBVIOUS
<1>9. PICK f : f = [e EXCEPT !.unsent = tail \o more, !.snd_lbb = @ + n, !.written = @ + n]
  OBVIOUS
<1>10. TcpWrite(e, n) = f
  BY <1>1, <1>2, <1>3, <1>4, <1>5, <1>6, <1>7, <1>8, <1>9, ZenonT(30) DEF TcpWrite, Bytes
<1>11. /\ f.unsent = tail \o more /\ f.snd_lbb = e.snd_lbb + n /\ f.written = w + n
       /\ Same(e, f, {"unsent", "snd_lbb", "written"})
  BY <1>1, <1>9 DEF Sound, IsPcb, PcbFields, Same
<1>12. Grows(e, f) /\ f.written \in Nat
  BY <1>1, <1>11 DEF Grows
<1>13. e.unsent \in Seq(Segs(e)) /\ e.unacked \in Seq(Segs(e)) /\ e.snd_lbb = w + 1
  BY <1>1 DEF Sound, Queues
<1>14. e.unsent \in Seq(Segs(f)) /\ e.unacked \in Seq(Segs(f)) /\ Places(Segs(f))
  <2>1. e.unsent \in Seq(Segs(f)) /\ e.unacked \in Seq(Segs(f))
    BY <1>12, <1>13, SegsGrow, SeqGrow
  <2>2. Places(Segs(f))
    BY <1>12, SegsAre DEF Places
  <2> QED BY <2>1, <2>2
<1>15. Chain => /\ t \in Segs(e) /\ ~t.syn /\ ~t.fin /\ DataEnd(t) = w + 1
                /\ Len(t.data) \in Nat /\ Len(t.data) <= Mss
  <2> SUFFICES ASSUME Chain PROVE /\ t \in Segs(e) /\ ~t.syn /\ ~t.fin /\ DataEnd(t) = w + 1
                                  /\ Len(t.data) \in Nat /\ Len(t.data) <= Mss
    OBVIOUS
  <2>1. t \in Segs(e)
    <3>1. PICK a \in Segs(e) : TRUE
      BY <1>13, HeadAndTail
    <3> QED BY <1>13, <3>1, LastReplaced
  <2>2. t \in Segment /\ Genuine(t, e) /\ Len(t.data) <= Mss
    BY <2>1 DEF Segs
  <2>3. ~t.syn /\ ~t.fin
    BY <2>2, Zenon DEF Genuine, InStream
  <2>4. Len(t.data) \in Nat
    BY <2>2 DEF Segment
  <2>5. DataEnd(t) = w + 1
    BY <1>13, <2>3 DEF EndsTheStream
  <2> QED BY <2>1, <2>2, <2>3, <2>4, <2>5
<1>16. Mss \in Nat \ {0}
  BY TcpAssumption
<1>17. j \in Nat /\ j <= n /\ x \in Nat /\ x = n - j /\ (j > 0 => Chain /\ Len(t.data) + j <= Mss)
  <2>1. PICK l \in Int : Chain => l = Len(t.data) /\ l >= 0 /\ l <= Mss
    <3>1. CASE Chain
      BY <1>15, <3>1
    <3>2. CASE ~Chain
      BY <3>2
    <3> QED BY <3>1, <3>2
  <2>2. PICK b \in BOOLEAN : b = Chain
    OBVIOUS
  <2>3. space = IF b THEN Mss - l ELSE 0
    BY <1>3, <2>1, <2>2, Zenon
  <2>4. b => l >= 0 /\ l <= Mss
    BY <2>1, <2>2, Zenon
  <2>5. j \in Nat /\ j <= n /\ x \in Nat /\ x = n - j /\ (j > 0 => b /\ l + j <= Mss)
    BY <1>4, <1>5, <1>16, <2>3, <2>4
  <2> QED BY <2>1, <2>2, <2>5, Zenon
<1> HIDE DEF Space
\* What fits goes into the last segment.
<1>18. PICK d : d = [unsent |-> tail, unacked |-> e.unacked, lastack |-> e.lastack,
                     snd_lbb |-> e.snd_lbb + j]
  OBVIOUS
<1>19. d.unsent = tail /\ d.unacked = e.unacked /\ d.lastack = e.lastack /\ d.snd_lbb = e.snd_lbb + j
       /\ e.lastack \in Nat /\ e.snd_lbb \in Nat /\ d.snd_lbb \in Nat
  BY <1>1, <1>13, <1>17, <1>18 DEF Sound, Numbers
<1>20. tail \in Seq(Segs(f)) /\ Joined(d)
  <2>1. CASE j = 0
    <3>1. tail = e.unsent /\ d.snd_lbb = e.snd_lbb
      BY <1>7, <1>19, <2>1
    <3>2. Joined(d)
      BY <1>19, <3>1, Zenon DEF Joined, Straight, Adjoins, Meets, Queued
    <3> QED BY <1>14, <3>1, <3>2
  <2>2. CASE j # 0
    <3>1. Chain /\ 0 < j /\ Len(t.data) + j <= Mss
      BY <1>17, <2>2
    <3>2. PICK r : r = [t EXCEPT !.data = @ \o SubSeq(bytes, 1, j)]
      OBVIOUS
    <3>3. t \in Segs(e) /\ ~t.syn /\ ~t.fin /\ DataEnd(t) = w + 1 /\ Len(t.data) \in Nat
      BY <1>15, <3>1
    <3>4. r \in Segs(f)
      <4> HIDE DEF t
      <4> QED BY <1>1, <1>2, <1>11, <1>17, <3>1, <3>2, <3>3, LongerSegment
    <3>5. r.seq = t.seq /\ r.syn = t.syn /\ r.fin = t.fin /\ Len(r.data) = Len(t.data) + j
      <4>1. t \in Segment
        BY <3>3 DEF Segs
      <4>2. r.seq = t.seq /\ r.syn = t.syn /\ r.fin = t.fin /\ r.data = t.data \o SubSeq(bytes, 1, j)
        BY <3>2, <4>1 DEF Segment
      <4>3. PICK a, b : a = t.data /\ b = SubSeq(bytes, 1, j)
        OBVIOUS
      <4>4. b \in Seq(Nat) /\ Len(b) = j
        <5>1. IsSlice(SubSeq(Bytes(w, n), 0 + 1, j), w, 0, j)
          BY <1>17, SliceOfBytes
        <5> QED BY <1>2, <1>17, <4>3, <5>1 DEF IsSlice
      <4>5. a \in Seq(Nat)
        BY <4>1, <4>3 DEF Segment
      <4>6. Len(a \o b) = Len(a) + Len(b)
        BY <4>4, <4>5, ConcatProperties
      <4> QED BY <4>2, <4>3, <4>4, <4>6
    <3>6. End(r) = e.snd_lbb + j /\ DataEnd(r) = DataEnd(t) + j
      <4>1. ~r.syn /\ ~r.fin /\ r.seq \in Nat /\ Len(r.data) \in Nat
        BY <1>12, <3>3, <3>4, <3>5, SegsAre
      <4>2. DataEnd(r) = End(r)
        BY <1>12, <3>4, <4>1, SegsAre
      <4>3. DataEnd(r) = r.seq + Len(r.data) /\ DataEnd(t) = t.seq + Len(t.data)
        BY DEF DataEnd
      <4>4. DataEnd(r) = DataEnd(t) + j
        BY <1>17, <3>3, <3>5, <4>1, <4>3
      <4> QED BY <1>13, <3>3, <4>2, <4>4
    <3>7. d.unsent = Append(Front(e.unsent), r)
      BY <1>7, <1>19, <2>2, <3>2
    <3>8. e.unsent # <<>> /\ End(Last(e.unsent)) = e.snd_lbb /\ r.seq = Last(e.unsent).seq
          /\ End(r) > e.snd_lbb
      BY <1>17, <1>19, <3>1, <3>5, <3>6
    <3>9. Straight(e) /\ Adjoins(e) /\ Meets(e)
      BY DEF Joined
    <3>10. tail \in Seq(Segs(f))
      <4>1. tail = Append(Front(e.unsent), r) /\ e.unsent \in Seq(Segs(f)) /\ e.unsent # <<>>
        BY <1>14, <1>19, <3>7, <3>8
      <4> HIDE DEF t, Chain
      <4> QED BY <3>4, <4>1, LastReplaced
    <3>11. Straight(d) /\ Adjoins(d) /\ Meets(d)
      <4> HIDE DEF t, Chain
      <4>1. d.snd_lbb = End(r)
        BY <1>19, <3>6
      <4> QED BY <1>14, <1>19, <3>4, <3>7, <3>8, <3>9, <4>1, LongerLines
    <3> QED BY <3>10, <3>11 DEF Joined
  <2> QED BY <2>1, <2>2
\* The rest goes into new ones.
<1>21. /\ c \in Nat /\ (c = 0 => x = 0)
       /\ \A i \in 1 .. c : (i - 1) * Mss \in Nat /\ (i - 1) * Mss < x
       /\ \A i \in 1 .. c : i < c => /\ (i + 1 - 1) * Mss = (i - 1) * Mss + Mss
                                     /\ (i - 1) * Mss + Mss < x
       /\ c > 0 => x <= (c - 1) * Mss + Mss
  BY <1>6, <1>16, <1>17, PartsMeet
<1>22. PICK from : from = [i \in 1 .. c + 1 |-> e.snd_lbb + IF i <= c THEN From(i) ELSE n]
  OBVIOUS
<1>23. from[1] = d.snd_lbb
  <2>1. CASE c = 0
    BY <1>17, <1>19, <1>21, <1>22, <2>1
  <2>2. CASE c # 0
    <3>1. From(1) = j
      BY <1>16, <1>17
    <3>2. 1 \in 1 .. c + 1 /\ 1 <= c
      BY <1>21, <2>2
    <3>3. from[1] = e.snd_lbb + From(1)
      BY <1>22, <3>2
    <3> QED BY <1>19, <3>1, <3>3
  <2> QED BY <2>1, <2>2
<1>24. from[c + 1] = f.snd_lbb
  BY <1>11, <1>21, <1>22
<1>25. ASSUME NEW i \in 1 .. c
       PROVE  Part(i) \in Segs(f) /\ Part(i).seq = from[i] /\ from[i + 1] = End(Part(i))
  <2>1. PICK start : start = From(i)
    OBVIOUS
  <2>2. PICK g \in Nat : g = (i - 1) * Mss /\ g < x
    BY <1>21
  <2>3. start = j + g /\ start \in Nat /\ start < n
    <3>1. start = j + g
      BY <2>1, <2>2, Zenon
    <3> QED BY <1>17, <2>2, <3>1
  <2>4. PICK to : to = Min({start + Mss, n})
    OBVIOUS
  <2>5. to = IF start + Mss <= n THEN start + Mss ELSE n
    <3>1. start + Mss \in Int /\ n \in Int
      BY <1>16, <2>3
    <3> QED BY <2>4, <3>1, MinOfTwo
  <2>6. to \in Nat /\ start < to /\ to <= n /\ to - start <= Mss
    BY <1>16, <2>3, <2>5
  <2>7. PICK s : s = Seg(w + 1 + start, SubSeq(Bytes(w, n), start + 1, to), FALSE, FALSE)
    OBVIOUS
  <2>8. s \in Segs(f)
    BY <1>11, <1>12, <2>3, <2>6, <2>7, NewSegment
  <2>9. Part(i) = s
    BY <1>2, <1>13, <2>1, <2>4, <2>7
  <2>10. s.seq = w + 1 + start /\ Len(s.data) = to - start /\ ~s.syn /\ ~s.fin
    <3>1. IsSlice(SubSeq(Bytes(w, n), start + 1, to), w, start, to)
      BY <2>3, <2>6, SliceOfBytes
    <3> QED BY <2>7, <3>1 DEF Seg, IsSlice
  <2>11. End(s) = w + 1 + to
    <3>1. End(s) = DataEnd(s) /\ DataEnd(s) = s.seq + Len(s.data)
      BY <1>12, <2>8, <2>10, SegsAre DEF DataEnd
    <3> QED BY <2>3, <2>6, <2>10, <3>1
  <2>12. from[i] = w + 1 + start
    <3>1. i \in 1 .. c + 1 /\ i <= c
      BY <1>21
    <3>2. from[i] = e.snd_lbb + From(i)
      BY <1>22, <3>1
    <3> QED BY <1>13, <2>1, <3>2
  <2>13. from[i + 1] = w + 1 + to
    <3>1. CASE i < c
      <4>1. i + 1 \in 1 .. c + 1 /\ i + 1 <= c
        BY <1>21, <3>1
      <4>2. from[i + 1] = e.snd_lbb + From(i + 1)
        BY <1>22, <4>1
      <4>3. (i + 1 - 1) * Mss = g + Mss /\ g + Mss < x
        BY <1>21, <2>2, <3>1
      <4>4. From(i + 1) = j + (g + Mss)
        BY <4>3
      <4>5. j + (g + Mss) = to
        BY <1>16, <1>17, <2>2, <2>3, <2>5, <4>3
      <4> QED BY <1>13, <4>2, <4>4, <4>5
    <3>2. CASE ~(i < c)
      <4>1. i = c /\ c > 0
        BY <1>21, <3>2
      <4>2. i + 1 \in 1 .. c + 1 /\ ~(i + 1 <= c)
        BY <1>21, <4>1
      <4>3. from[i + 1] = e.snd_lbb + n
        BY <1>22, <4>2
      <4>4. x <= g + Mss
        BY <1>21, <2>2, <4>1
      <4>5. to = n
        BY <1>16, <1>17, <2>2, <2>3, <2>5, <4>4, SMTT(30)
      <4> QED BY <1>13, <4>3, <4>5
    <3> QED BY <3>1, <3>2
  <2> QED BY <2>8, <2>9, <2>10, <2>11, <2>12, <2>13
<1> HIDE DEF Part
<1>26. more \in Seq(Segs(f)) /\ Len(more) = c /\ \A i \in 1 .. c : more[i] = Part(i)
  BY <1>8, <1>21, <1>25
<1>27. Joined(f)
  <2>1. f.unsent = d.unsent \o more /\ f.unacked = d.unacked /\ f.lastack = d.lastack
        /\ f.snd_lbb = from[Len(more) + 1]
    BY <1>11, <1>19, <1>24, <1>26 DEF Same, PcbFields
  <2>2. /\ \A i \in 1 .. Len(more) : from[i + 1] = End(more[i])
        /\ \A i \in 1 .. Len(more) : more[i].seq = from[i]
    BY <1>25, <1>26
  <2>3. d.unsent \in Seq(Segs(f)) /\ d.unacked \in Seq(Segs(f)) /\ d.lastack \in Nat
        /\ d.snd_lbb \in Nat
    BY <1>14, <1>19, <1>20
  <2> QED BY <1>14, <1>20, <1>23, <1>26, <2>1, <2>2, <2>3, ManyLines
<1> QED BY <1>10, <1>11, <1>27

\* tcp_enqueue_flags puts a SYN or a FIN where the stream ends.
LEMMA FlagJoins ==
  ASSUME NEW o, NEW k, NEW e, Sound(e, o, k), Joined(e),
         NEW syn \in BOOLEAN, NEW fin \in BOOLEAN, syn # fin
  PROVE  LET f == EnqueueFlags(e, syn, fin) IN
         Joined(f) /\ Same(e, f, {"unsent", "snd_lbb"}) /\ f.snd_lbb = e.snd_lbb + 1
<1>1. PICK s : s = Seg(e.snd_lbb, <<>>, syn, fin)
  OBVIOUS
<1>2. s.seq = e.snd_lbb /\ Len(s.data) = 0 /\ (s.syn \/ s.fin)
  BY <1>1 DEF Seg
<1>3. e.snd_lbb \in Nat /\ e.lastack \in Nat /\ End(s) = e.snd_lbb + 1
  <2>1. e.snd_lbb \in Nat /\ e.lastack \in Nat
    BY QueuedAre
  <2>2. TcpLen(s) = 1
    BY <1>2, TcpLenIs
  <2> QED BY <1>2, <2>1, <2>2 DEF End
<1>4. PICK A : A = Segs(o) \cup {s}
  OBVIOUS
<1>5. s \in A /\ Places(A)
  <2>1. \A t \in Segs(o) : t.seq \in Nat /\ End(t) \in Nat /\ t.seq < End(t)
    BY QueuedAre, SegsAre
  <2>2. s.seq \in Nat /\ End(s) \in Nat /\ s.seq < End(s)
    BY <1>2, <1>3
  <2> QED BY <1>4, <2>1, <2>2 DEF Places
<1>6. e.unsent \in Seq(A) /\ e.unacked \in Seq(A)
  BY <1>4, QueuedAre, SeqGrow
<1>7. PICK q, n : q = Append(e.unsent, s) /\ n = e.snd_lbb + 1
  OBVIOUS
<1>8. PICK f : f = [e EXCEPT !.unsent = q, !.snd_lbb = n]
  OBVIOUS
<1>9. EnqueueFlags(e, syn, fin) = f
  BY <1>1, <1>7, <1>8 DEF EnqueueFlags, Sound, IsPcb, PcbFields
<1>10. f.unsent = q /\ f.snd_lbb = n /\ Same(e, f, {"unsent", "snd_lbb"})
  BY <1>8 DEF Sound, IsPcb, PcbFields, Same
<1>11. f.unacked = e.unacked /\ f.lastack = e.lastack /\ f.snd_lbb = End(s)
       /\ f.unsent = Append(e.unsent, s)
  BY <1>3, <1>7, <1>10 DEF Same, PcbFields
<1>12. Joined(f)
  BY <1>2, <1>3, <1>5, <1>6, <1>11, AppendLines DEF Joined
<1> QED BY <1>7, <1>9, <1>10, <1>12

\* The FIN goes behind all that is queued.
LEMMA FinJoins ==
  ASSUME NEW o, NEW k, NEW e, Sound(e, o, k), Joined(e),
         e.unsent # <<>> => End(Last(e.unsent)) = e.snd_lbb
  PROVE  LET f == SendFin(e) IN
         Straight(f) /\ Adjoins(f) /\ Same(e, f, {"unsent", "snd_lbb"})
<1> DEFINE last == Last(e.unsent)
<1>1. CASE e.unsent # <<>> /\ ~last.syn /\ ~last.fin
  <2>1. PICK t : t = last
    OBVIOUS
  <2>2. e.unsent \in Seq(Segs(o)) /\ e.unacked \in Seq(Segs(o)) /\ e.snd_lbb \in Nat
        /\ e.lastack \in Nat /\ o.written \in Nat
    BY QueuedAre
  <2>3. t \in Segs(o)
    <3>1. e.unsent # <<>>
      BY <1>1
    <3>2. PICK x \in Segs(o) : TRUE
      BY <2>2, <3>1, HeadAndTail
    <3> QED BY <2>1, <2>2, <3>1, <3>2, LastReplaced
  <2>4. PICK s : s = [t EXCEPT !.fin = TRUE]
    OBVIOUS
  <2>5. s.seq = t.seq /\ s.data = t.data /\ s.fin /\ t.seq \in Nat /\ Len(t.data) \in Nat
    <3>1. t \in Segment
      BY <2>3 DEF Segs
    <3> QED BY <2>4, <3>1 DEF Segment
  <2>6. End(t) = t.seq + Len(t.data) /\ End(s) = t.seq + (Len(t.data) + 1)
    <3>1. TcpLen(t) = Len(t.data)
      BY <1>1, <2>1, <2>5, TcpLenIs
    <3>2. TcpLen(s) = Len(s.data) + 1
      BY <2>5, TcpLenIs
    <3> QED BY <2>5, <3>1, <3>2 DEF End
  <2>7. End(t) = e.snd_lbb
    BY <1>1, <2>1
  <2>8. PICK A : A = Segs(o) \cup {s}
    OBVIOUS
  <2>9. s \in A /\ Places(A)
    <3>1. \A x \in Segs(o) : x.seq \in Nat /\ End(x) \in Nat /\ x.seq < End(x)
      BY <2>2, SegsAre
    <3>2. s.seq \in Nat /\ End(s) \in Nat /\ s.seq < End(s)
      BY <2>5, <2>6
    <3> QED BY <2>8, <3>1, <3>2 DEF Places
  <2>10. e.unsent \in Seq(A) /\ e.unacked \in Seq(A)
    BY <2>2, <2>8, SeqGrow
  <2>11. PICK q : q = Append(Front(e.unsent), s)
    OBVIOUS
  <2>12. PICK f : f = [e EXCEPT !.unsent = q]
    OBVIOUS
  <2>13. SendFin(e) = f
    BY <1>1, <2>1, <2>4, <2>11, <2>12, Zenon DEF SendFin, TakesFin
  <2>14. f.unsent = q /\ Same(e, f, {"unsent"})
    BY <2>12 DEF Sound, IsPcb, PcbFields, Same
  <2>15. f.unacked = e.unacked /\ f.lastack = e.lastack /\ f.unsent = Append(Front(e.unsent), s)
         /\ Same(e, f, {"unsent", "snd_lbb"})
    BY <2>11, <2>14 DEF Same, PcbFields
  <2>16. Straight(f) /\ Adjoins(f)
    <3>1. /\ e.unsent # <<>> /\ End(Last(e.unsent)) = e.snd_lbb
          /\ s.seq = Last(e.unsent).seq /\ End(s) > e.snd_lbb
      BY <1>1, <2>1, <2>5, <2>6, <2>7
    <3> HIDE DEF last
    <3> QED BY <2>2, <2>9, <2>10, <2>15, <3>1, LongerLines DEF Joined
  <2> QED BY <2>13, <2>15, <2>16
<1>2. CASE ~(e.unsent # <<>> /\ ~last.syn /\ ~last.fin)
  <2>1. SendFin(e) = EnqueueFlags(e, FALSE, TRUE)
    BY <1>2 DEF SendFin, TakesFin
  <2>2. PICK no, yes \in BOOLEAN : no = FALSE /\ yes = TRUE
    OBVIOUS
  <2>3. no # yes
    BY <2>2
  <2>4. PICK f : f = EnqueueFlags(e, no, yes)
    OBVIOUS
  <2>5. Joined(f) /\ Same(e, f, {"unsent", "snd_lbb"})
    BY <2>3, <2>4, FlagJoins
  <2>6. SendFin(e) = f
    BY <2>1, <2>2, <2>4, Zenon
  <2> QED BY <2>5, <2>6 DEF Joined
<1> QED BY <1>1, <1>2

-----------------------------------------------------------------------------
(* What keeps a pcb in line.                                               *)

SndFields == {"snd_nxt", "lastack", "snd_lbb", "snd_wnd", "cwnd", "unsent", "unacked",
              "slots", "drv"}
SameSnd(e, f) ==
  /\ f.snd_nxt = e.snd_nxt /\ f.lastack = e.lastack /\ f.snd_lbb = e.snd_lbb
  /\ f.snd_wnd = e.snd_wnd /\ f.cwnd = e.cwnd
  /\ f.unsent = e.unsent /\ f.unacked = e.unacked /\ f.slots = e.slots /\ f.drv = e.drv

LEMMA SameIsSnd ==
  ASSUME NEW e, NEW f, NEW S, Same(e, f, S), S \cap SndFields = {}
  PROVE  SameSnd(e, f)
<1>1. \A x \in SndFields : x \in PcbFields \ S
  BY DEF SndFields, PcbFields
<1>2. \A x \in SndFields : f[x] = e[x]
  BY <1>1 DEF Same
<1> QED BY <1>2 DEF SndFields, SameSnd

\* The sender of a pcb: in line, with a head of unsent that may be out of order.
Poised(e) == Idle(e) /\ Wide(e) /\ Line(e) /\ Straight(e)
Crooked(e) == Idle(e) /\ Wide(e) /\ Line(e) /\ Bent(e) /\ e.cwnd >= Mss

LEMMA PoisedStays ==
  ASSUME NEW e, NEW f, SameSnd(e, f), Opened(f) => Opened(e)
  PROVE  (Poised(e) => Poised(f)) /\ (Crooked(e) => Crooked(f))
<1>1. Queued(f) = Queued(e)
  BY DEF SameSnd, Queued
<1>2. Line(e) => Line(f)
  BY <1>1, LineStays DEF SameSnd, Line, Ending
<1>3. Idle(e) => Idle(f)
  BY DEF SameSnd, Idle
<1>4. Wide(e) => Wide(f)
  BY DEF SameSnd, Wide
<1>5. (Straight(e) => Straight(f)) /\ (Bent(e) => Bent(f))
  BY Zenon DEF SameSnd, Straight, Bent
<1> QED BY <1>2, <1>3, <1>4, <1>5 DEF Poised, Crooked, SameSnd

LEMMA EmptyJoins ==
  ASSUME NEW f, f.unsent = <<>>, f.unacked = <<>>
  PROVE  Straight(f) /\ Adjoins(f) /\ Queued(f) = {}
<1>1. Queued(f) = {}
  BY DEF Queued, Range
<1>2. Len(f.unsent) = 0 /\ Len(f.unacked) = 0
  OBVIOUS
<1> QED BY <1>1, <1>2 DEF Straight, Rising, Below, Adjoins

LEMMA EmptyPoised ==
  ASSUME NEW f, f.unsent = <<>>, f.unacked = <<>>, Idle(f), Wide(f), ~Opened(f)
  PROVE  Poised(f)
  BY EmptyJoins DEF Poised, Line

LEMMA IsLined ==
  ASSUME NEW e, Poised(e) \/ (Crooked(e) /\ Living(e)), "ACK_NOW" \in e.flags => e.st # "SYN_SENT"
  PROVE  Lined(e)
  BY DEF Poised, Crooked, Lined

LEMMA LineIs ==
  ASSUME NEW e, InLine(e)
  PROVE  Poised(e) /\ "ACK_NOW" \notin e.flags
  BY DEF Poised, InLine

LEMMA PoisedIs ==
  ASSUME NEW e, Poised(e), "ACK_NOW" \notin e.flags
  PROVE  InLine(e)
  BY DEF Poised, InLine

\* The SYN is the first that is queued.
LEMMA FirstFlag ==
  ASSUME NEW o, Grows(o, o), NEW k \in Nat, NEW e, Sound(e, o, k), e.unsent = <<>>, e.unacked = <<>>,
         e.snd_lbb = 0, e.lastack = 0, e.snd_nxt <= 1, Idle(e), e.cwnd \in Nat, e.snd_wnd \in Nat,
         "ACK_NOW" \notin e.flags,
         LET f == Output(EnqueueFlags(e, TRUE, FALSE)) IN Living(f) => WindowHolds(f)
  PROVE  InLine(Output(EnqueueFlags(e, TRUE, FALSE)))
<1>1. PICK yes, no \in BOOLEAN : yes = TRUE /\ no = FALSE
  OBVIOUS
<1>2. PICK f : f = EnqueueFlags(e, yes, no)
  OBVIOUS
<1>3. Sound(f, o, k)
  <2>1. yes # no /\ ~no
    BY <1>1
  <2> QED BY <1>2, <2>1, EnqueueFlagsKeeps DEF Enqueues
<1>4. Joined(e)
  BY EmptyJoins DEF Joined, Meets
<1>5. Joined(f) /\ Same(e, f, {"unsent", "snd_lbb"}) /\ f.snd_lbb = e.snd_lbb + 1
  <2>1. yes # no
    BY <1>1
  <2> QED BY <1>2, <1>4, <2>1, FlagJoins
<1>6. /\ f.snd_nxt = e.snd_nxt /\ f.lastack = e.lastack /\ f.cwnd = e.cwnd /\ f.snd_wnd = e.snd_wnd
      /\ f.slots = e.slots /\ f.drv = e.drv /\ f.flags = e.flags
  BY <1>5 DEF Same, PcbFields
<1>7. Lined(f)
  <2>1. Ending(f)
    BY <1>5, <1>6 DEF Ending, Joined
  <2>2. Idle(f) /\ Wide(f)
    BY <1>6 DEF Idle, Wide
  <2> QED BY <1>5, <1>6, <2>1, <2>2 DEF Lined, Line, Joined
<1>8. Output(f) = Output(EnqueueFlags(e, TRUE, FALSE))
  BY <1>1, <1>2
<1>9. Living(f) => WindowHolds(Output(f))
  <2>1. PICK g : g = Output(f)
    OBVIOUS
  <2>2. Calm(f, g, o, k)
    BY <1>3, <2>1, OutputKeeps
  <2>3. g.st = f.st
    BY <2>2, Zenon DEF Calm, Quiet, SameCore
  <2>4. Living(g) => WindowHolds(g)
    BY <1>8, <2>1
  <2> QED BY <2>1, <2>3, <2>4 DEF Living
<1> QED BY <1>3, <1>7, <1>8, <1>9, OutputLines

\* espconn_connect.
LEMMA ConnectLines ==
  ASSUME NEW e, NEW p, Good(e, p), e.st = "CLOSED", InLine(e),
         LET f == Output(EnqueueFlags([e EXCEPT !.st = "SYN_SENT", !.snd_nxt = 1,
                                                !.snd_wnd = TcpWnd], TRUE, FALSE))
         IN  Living(f) => WindowHolds(f)
  PROVE  InLine(Output(EnqueueFlags([e EXCEPT !.st = "SYN_SENT", !.snd_nxt = 1,
                                              !.snd_wnd = TcpWnd], TRUE, FALSE)))
<1>1. PICK k \in Nat : k = Reach(e, p)
  BY GoodParts
<1>2. /\ e.unsent = <<>> /\ e.unacked = <<>> /\ e.snd_lbb = 0 /\ e.lastack = 0 /\ e.written = 0
  BY Zenon DEF Good, Sender
<1>3. PICK f : f = [e EXCEPT !.st = "SYN_SENT", !.snd_nxt = 1, !.snd_wnd = TcpWnd]
  OBVIOUS
<1>4. f.snd_nxt = 1 /\ f.snd_wnd = TcpWnd /\ Same(e, f, {"st", "snd_nxt", "snd_wnd"})
  BY <1>3, GoodParts DEF IsPcb, PcbFields, Same
<1>5. /\ f.unsent = e.unsent /\ f.unacked = e.unacked /\ f.drv = e.drv /\ f.snd_lbb = e.snd_lbb
      /\ f.lastack = e.lastack /\ f.cwnd = e.cwnd /\ f.slots = e.slots /\ f.flags = e.flags
      /\ f.rcv_nxt = e.rcv_nxt /\ f.dupacks = e.dupacks /\ f.holded = e.holded
      /\ f.rcv_ann_right_edge = e.rcv_ann_right_edge /\ f.out = e.out
      /\ f.rcv_wnd = e.rcv_wnd /\ f.rcv_ann_wnd = e.rcv_ann_wnd
  BY <1>4 DEF Same, PcbFields
<1>6. Sound(f, e, k)
  <2>1. Numbers(e, e, k) /\ Queues(e, e, k)
    BY <1>1, Zenon DEF Good, Sound
  <2>2. Numbers(f, e, k)
    BY <1>2, <1>4, <1>5, <2>1 DEF Numbers
  <2>3. Queues(f, e, k)
    BY <1>5, <2>1 DEF Queues
  <2> QED BY <1>4, <2>2, <2>3 DEF Same, Sound
<1>7. Grows(e, e)
  BY <1>2 DEF Grows
<1>8. Idle(f) /\ f.cwnd \in Nat /\ f.snd_wnd \in Nat /\ "ACK_NOW" \notin f.flags
  BY <1>4, <1>5, TcpAssumption DEF InLine, Idle, Wide
<1>9. f.snd_nxt <= 1
  BY <1>4
<1> QED BY <1>2, <1>3, <1>5, <1>6, <1>7, <1>8, <1>9, FirstFlag

\* tcp_listen_input, when it accepts.
LEMMA AcceptLines ==
  ASSUME NEW e, NEW p, Good(e, p), e.st = "LISTEN", InLine(e), NEW m \in Datagram, Genuine(m, p),
         m.syn,
         LET f == Output(EnqueueFlags([e EXCEPT !.st = "SYN_RCVD", !.rcv_nxt = m.seq + 1,
                                                !.rcv_ann_right_edge = m.seq + 1, !.snd_wnd = m.wnd,
                                                !.snd_wl1 = m.seq - 1], TRUE, FALSE))
         IN  Living(f) => WindowHolds(f)
  PROVE  InLine(Output(EnqueueFlags(
                    [e EXCEPT !.st = "SYN_RCVD", !.rcv_nxt = m.seq + 1,
                              !.rcv_ann_right_edge = m.seq + 1, !.snd_wnd = m.wnd,
                              !.snd_wl1 = m.seq - 1], TRUE, FALSE)))
<1>1. PICK k \in Nat : k = Reach(e, p)
  BY GoodParts
<1>2. /\ e.unsent = <<>> /\ e.unacked = <<>> /\ e.snd_lbb = 0 /\ e.lastack = 0 /\ e.written = 0
      /\ e.snd_nxt = 0
  BY Zenon DEF Good, Sender
<1>3. m.seq = 0 /\ m.wnd \in Nat
  <2>1. m.wnd \in Nat
    BY DEF Datagram
  <2> QED BY <2>1, Zenon DEF Genuine
<1>4. PICK f : f = [e EXCEPT !.st = "SYN_RCVD", !.rcv_nxt = m.seq + 1,
                             !.rcv_ann_right_edge = m.seq + 1, !.snd_wnd = m.wnd,
                             !.snd_wl1 = m.seq - 1]
  OBVIOUS
<1>5. /\ f.rcv_nxt = 1 /\ f.rcv_ann_right_edge = 1 /\ f.snd_wnd = m.wnd
      /\ Same(e, f, {"st", "rcv_nxt", "rcv_ann_right_edge", "snd_wnd", "snd_wl1"})
  <2>1. PICK n, w, wl : n = m.seq + 1 /\ w = m.wnd /\ wl = m.seq - 1
    OBVIOUS
  <2>2. n = 1
    BY <1>3, <2>1
  <2>3. f = [e EXCEPT !.st = "SYN_RCVD", !.rcv_nxt = n, !.rcv_ann_right_edge = n,
                      !.snd_wnd = w, !.snd_wl1 = wl]
    BY <1>4, <2>1
  <2>4. DOMAIN e = PcbFields
    BY GoodParts DEF IsPcb
  <2>5. f.rcv_nxt = n /\ f.rcv_ann_right_edge = n /\ f.snd_wnd = w
    BY <2>3, <2>4 DEF PcbFields
  <2>6. Same(e, f, {"st", "rcv_nxt", "rcv_ann_right_edge", "snd_wnd", "snd_wl1"})
    BY <2>3, <2>4 DEF IsPcb, PcbFields, Same
  <2> QED BY <2>1, <2>2, <2>5, <2>6
<1>6. /\ f.unsent = e.unsent /\ f.unacked = e.unacked /\ f.drv = e.drv /\ f.snd_lbb = e.snd_lbb
      /\ f.lastack = e.lastack /\ f.cwnd = e.cwnd /\ f.slots = e.slots /\ f.flags = e.flags
      /\ f.snd_nxt = e.snd_nxt /\ f.dupacks = e.dupacks /\ f.holded = e.holded /\ f.out = e.out
      /\ f.rcv_wnd = e.rcv_wnd /\ f.rcv_ann_wnd = e.rcv_ann_wnd
  BY <1>5 DEF Same, PcbFields
<1>7. 1 <= k
  <2>1. Stream(e, p)
    BY Zenon DEF Good
  <2> QED BY <1>1, <2>1, ReachIs
<1>8. Sound(f, e, k)
  <2>1. Numbers(e, e, k) /\ Queues(e, e, k)
    BY <1>1, Zenon DEF Good, Sound
  <2>2. Numbers(f, e, k)
    BY <1>2, <1>5, <1>6, <1>7, <2>1 DEF Numbers
  <2>3. Queues(f, e, k)
    BY <1>6, <2>1 DEF Queues
  <2> QED BY <1>5, <2>2, <2>3 DEF Same, Sound
<1>9. Grows(e, e)
  BY <1>2 DEF Grows
<1>10. Idle(f) /\ f.cwnd \in Nat /\ f.snd_wnd \in Nat /\ "ACK_NOW" \notin f.flags
  BY <1>3, <1>5, <1>6 DEF InLine, Idle, Wide
<1>11. f.snd_nxt <= 1
  BY <1>2, <1>6
<1> QED BY <1>2, <1>4, <1>6, <1>8, <1>9, <1>10, <1>11, FirstFlag, ZenonT(30)

\* espconn_tcp_write.
LEMMA WriteLines ==
  ASSUME NEW e, NEW p, Good(e, p), e.st \in {"ESTABLISHED", "CLOSE_WAIT"}, InLine(e),
         NEW n \in Nat, LET f == Output(TcpWrite(e, n)) IN Living(f) => WindowHolds(f)
  PROVE  InLine(Output(TcpWrite(e, n)))
<1>1. PICK k \in Nat : k = Reach(e, p)
  BY GoodParts
<1>2. Sound(e, e, k) /\ ~Over(e) /\ e.snd_lbb = e.written + 1
  BY <1>1 DEF Good, Over, Sender
<1>3. Ending(e) /\ Joined(e)
  BY DEF InLine, Line, Joined, Opened, Ending
<1>4. EndsTheStream(e) /\ (e.unsent # <<>> => End(Last(e.unsent)) = e.snd_lbb)
  BY <1>2, <1>3, LineEndsTheStream, LastIsTheEnd DEF Joined
<1>5. PICK f : f = TcpWrite(e, n)
  OBVIOUS
<1>6. Joined(f) /\ Same(e, f, {"unsent", "snd_lbb", "written"}) /\ f.snd_lbb = e.snd_lbb + n
  BY <1>2, <1>3, <1>4, <1>5, WriteJoins
<1>7. Sound(f, f, k)
  BY <1>2, <1>4, <1>5, TcpWriteKeeps DEF Writes
<1>8. /\ f.snd_nxt = e.snd_nxt /\ f.lastack = e.lastack /\ f.cwnd = e.cwnd /\ f.snd_wnd = e.snd_wnd
      /\ f.slots = e.slots /\ f.drv = e.drv /\ f.flags = e.flags
  BY <1>6 DEF Same, PcbFields
<1>9. Lined(f)
  <2>1. e.snd_nxt \in Nat /\ e.snd_lbb \in Nat /\ e.snd_nxt <= e.snd_lbb
    BY <1>2, <1>3, QueuedAre DEF Ending
  <2>2. Ending(f)
    BY <1>6, <1>8, <2>1 DEF Ending, Joined
  <2>3. Idle(f) /\ Wide(f) /\ "ACK_NOW" \notin f.flags
    BY <1>8 DEF Idle, Wide, InLine
  <2> QED BY <1>6, <2>2, <2>3 DEF Lined, Line, Joined
<1>10. Living(f) => WindowHolds(Output(f))
  <2>1. Output(f).st = f.st
    BY <1>7, OutputKeeps DEF Calm, Quiet, SameCore
  <2> QED BY <1>5, <2>1 DEF Living
<1> QED BY <1>5, <1>7, <1>9, <1>10, OutputLines

LEMMA TimeWaitPoised ==
  ASSUME NEW e, IsPcb(e), Idle(e), Wide(e)
  PROVE  Poised(TimeWait(e)) /\ TimeWait(e).flags = e.flags /\ TimeWait(e).st = "TIME_WAIT"
<1>1. PICK f : f = TimeWait(e)
  OBVIOUS
<1>2. /\ f.unsent = <<>> /\ f.unacked = <<>> /\ f.st = "TIME_WAIT" /\ f.slots = e.slots
      /\ f.drv = e.drv /\ f.cwnd = e.cwnd /\ f.snd_wnd = e.snd_wnd /\ f.lastack = e.lastack
      /\ f.flags = e.flags
  BY <1>1 DEF TimeWait, Purge, IsPcb, PcbFields
<1>3. Idle(f) /\ Wide(f) /\ ~Opened(f)
  BY <1>2 DEF Idle, Wide, Opened
<1> QED BY <1>1, <1>2, <1>3, EmptyPoised

LEMMA GonePoised ==
  ASSUME NEW e, Idle(e), NEW err
  PROVE  InLine(Gone(e, err)) /\ Gone(e, err).st = "GONE"
<1>1. PICK f : f = Gone(e, err)
  OBVIOUS
<1>2. /\ f.unsent = <<>> /\ f.unacked = <<>> /\ f.st = "GONE" /\ f.slots = e.slots
      /\ f.drv = e.drv /\ f.cwnd = 1 /\ f.snd_wnd = 0 /\ f.lastack = 0 /\ f.flags = {}
  BY <1>1 DEF Gone, Alloc
<1>3. Idle(f) /\ Wide(f) /\ ~Opened(f)
  BY <1>2 DEF Idle, Wide, Opened
<1>4. Poised(f)
  BY <1>2, <1>3, EmptyPoised
<1> QED BY <1>1, <1>2, <1>4, PoisedIs

\* tcp_close, when it cannot queue the FIN ...
LEMMA CloseFailPoised ==
  ASSUME NEW e, IsPcb(e), Poised(e)
  PROVE  LET f == CloseFailed(e) IN
         Poised(f) /\ f.st = e.st /\ ("ACK_NOW" \in f.flags => "ACK_NOW" \in e.flags)
<1>1. PICK f : f = CloseFailed(e)
  OBVIOUS
<1>2. Same(e, f, {"flags"}) /\ ("ACK_NOW" \in f.flags => "ACK_NOW" \in e.flags)
  BY <1>1 DEF CloseFailed, IsPcb, PcbFields, Same
<1>3. f.st = e.st /\ SameSnd(e, f)
  <2>1. {"flags"} \cap SndFields = {}
    BY DEF SndFields
  <2> QED BY <1>2, <2>1, SameIsSnd DEF Same, PcbFields
<1>4. Poised(f)
  BY <1>3, PoisedStays DEF Opened
<1> QED BY <1>1, <1>2, <1>3, <1>4

\* ... and when it can.
LEMMA ClosePoised ==
  ASSUME NEW o, NEW k, NEW e, Sound(e, o, k), Poised(e),
         e.st \in {"SYN_SENT", "ESTABLISHED", "CLOSE_WAIT"}
  PROVE  LET f == CloseDone(e) IN
         /\ Poised(f) /\ f.st \in {"TIME_WAIT", "GONE", "FIN_WAIT_1", "LAST_ACK"}
         /\ "ACK_NOW" \in f.flags => "ACK_NOW" \in e.flags
         /\ f.st \in {"FIN_WAIT_1", "LAST_ACK"} => \A s \in Range(e.unacked) : s \in Range(f.unacked)
<1>1. PICK g : g = [e EXCEPT !.flags = @ \cup {"RXCLOSED", "UNREGISTERED"}]
  OBVIOUS
<1>2. Same(e, g, {"flags"}) /\ ("ACK_NOW" \in g.flags => "ACK_NOW" \in e.flags) /\ IsPcb(g)
  BY <1>1 DEF Sound, IsPcb, PcbFields, Same
<1>3. g.st = e.st /\ g.rcv_wnd = e.rcv_wnd /\ SameSnd(e, g) /\ g.out = e.out
  <2>1. {"flags"} \cap SndFields = {}
    BY DEF SndFields
  <2> QED BY <1>2, <2>1, SameIsSnd DEF Same, PcbFields
<1>4. Poised(g)
  BY <1>3, PoisedStays DEF Opened
<1>5. Sound(g, o, k)
  <2>1. Numbers(g, o, k)
    BY <1>2, NumbersStay DEF Sound
  <2>2. Queues(g, o, k)
    BY <1>3 DEF Sound, Queues, SameSnd
  <2> QED BY <1>2, <2>1, <2>2 DEF Sound
<1>6. PICK f : f = CloseDone(e)
  OBVIOUS
<1>7. CASE g.rcv_wnd # TcpWnd
  <2>1. PICK h : h = Send(g, Reset(g.snd_nxt, g.rcv_nxt))
    OBVIOUS
  <2>2. f = TimeWait(h)
    BY <1>1, <1>6, <1>7, <2>1 DEF CloseDone
  <2>3. IsPcb(h) /\ SameSnd(g, h) /\ h.flags = g.flags
    BY <1>2, <2>1 DEF Send, IsPcb, PcbFields, SameSnd
  <2>4. Idle(h) /\ Wide(h)
    BY <1>4, <2>3 DEF Poised, Idle, Wide, SameSnd
  <2> QED BY <1>2, <1>6, <2>2, <2>3, <2>4, TimeWaitPoised
<1>8. CASE g.rcv_wnd = TcpWnd /\ g.st = "SYN_SENT"
  <2>1. f = Gone(g, g.err)
    BY <1>1, <1>6, <1>8 DEF CloseDone
  <2>2. InLine(f) /\ f.st = "GONE"
    BY <1>4, <2>1, GonePoised DEF Poised
  <2> QED BY <1>6, <2>2, LineIs
<1>9. CASE g.rcv_wnd = TcpWnd /\ g.st \in {"ESTABLISHED", "CLOSE_WAIT"}
  <2>1. PICK st \in {"FIN_WAIT_1", "LAST_ACK"} : f = [SendFin(g) EXCEPT !.st = st]
    <3>1. CASE g.st = "ESTABLISHED"
      <4>1. f = [SendFin(g) EXCEPT !.st = "FIN_WAIT_1"]
        BY <1>1, <1>6, <1>9, <3>1 DEF CloseDone
      <4> QED BY <4>1
    <3>2. CASE g.st = "CLOSE_WAIT"
      <4>1. f = [SendFin(g) EXCEPT !.st = "LAST_ACK"]
        BY <1>1, <1>6, <1>9, <3>2 DEF CloseDone
      <4> QED BY <4>1
    <3> QED BY <1>9, <3>1, <3>2
  <2>2. Ending(g) /\ Joined(g) /\ Straight(g)
    BY <1>4, <1>9 DEF Poised, Line, Joined, Opened, Ending
  <2>3. g.unsent # <<>> => End(Last(g.unsent)) = g.snd_lbb
    BY <1>5, <2>2, LastIsTheEnd
  <2>4. PICK h : h = SendFin(g)
    OBVIOUS
  <2>5. Straight(h) /\ Adjoins(h) /\ Same(g, h, {"unsent", "snd_lbb"})
    BY <1>5, <2>2, <2>3, <2>4, FinJoins
  <2>6. f.st = st /\ Same(h, f, {"st"})
    BY <2>1, <2>4, <2>5 DEF Same, IsPcb, PcbFields
  <2>7. /\ f.snd_nxt = g.snd_nxt /\ f.lastack = g.lastack /\ f.cwnd = g.cwnd /\ f.snd_wnd = g.snd_wnd
        /\ f.slots = g.slots /\ f.drv = g.drv /\ f.flags = g.flags /\ f.unacked = g.unacked
        /\ f.unsent = h.unsent /\ f.unacked = h.unacked /\ f.lastack = h.lastack
    BY <2>5, <2>6 DEF Same, PcbFields
  <2>8. Straight(f) /\ Adjoins(f)
    BY <2>5, <2>7, Zenon DEF Straight, Adjoins, Queued
  <2>9. Poised(f)
    BY <1>4, <2>6, <2>7, <2>8 DEF Poised, Idle, Wide, Line, Opened
  <2>10. f.unacked = e.unacked
    BY <1>3, <2>7 DEF SameSnd
  <2> QED BY <1>2, <1>6, <2>6, <2>7, <2>9, <2>10
<1> QED BY <1>3, <1>6, <1>7, <1>8, <1>9

\* The close that answers the end of the peer's stream.
LEMMA CloseAtEofOrdered ==
  ASSUME NEW o, NEW k, NEW e, Sound(e, o, k), Poised(e), e.st = "CLOSE_WAIT"
  PROVE  LET f == CloseAtEof(e) IN
         Poised(f) /\ f.st # "SYN_SENT"
<1>1. CASE CloseFails(e)
  <2>1. CloseAtEof(e) = CloseFailed(e)
    BY <1>1 DEF CloseAtEof
  <2>2. IsPcb(e)
    BY Zenon DEF Sound
  <2> QED BY <2>1, <2>2, CloseFailPoised
<1>2. CASE ~CloseFails(e)
  <2>1. PICK h : h = [e EXCEPT !.eof = TRUE]
    OBVIOUS
  <2>2. CloseAtEof(e) = CloseDone(h)
    BY <1>2, <2>1 DEF CloseAtEof
  <2>3. Same(e, h, {"eof"})
    BY <2>1 DEF Sound, IsPcb, PcbFields, Same
  <2>4. SameSnd(e, h)
    BY <2>3, SameIsSnd DEF SndFields
  <2>5. h.st = "CLOSE_WAIT" /\ h.unsent = e.unsent /\ h.unacked = e.unacked /\ h.drv = e.drv
        /\ h.out = e.out
    BY <2>3 DEF Same, PcbFields
  <2>6. Sound(h, o, k)
    <3>1. Numbers(h, o, k)
      BY <2>3, NumbersStay DEF Sound
    <3>2. Queues(h, o, k)
      BY <2>5, Zenon DEF Sound, Queues
    <3> QED BY <2>3, <3>1, <3>2, Zenon DEF Sound, Same
  <2>7. Poised(h)
    BY <2>4, <2>5, PoisedStays DEF Opened
  <2> QED BY <2>2, <2>5, <2>6, <2>7, ClosePoised
<1> QED BY <1>1, <1>2

-----------------------------------------------------------------------------
(* Acknowledgements.                                                       *)

\* What is left of a rising queue when its head is acknowledged up to n.
LEMMA DropsAcked ==
  ASSUME NEW o, o.written \in Nat, NEW q \in Seq(Segs(o)), Rising(q),
         \A i, j \in 1 .. Len(q) : q[i].seq < q[j].seq => End(q[i]) <= q[j].seq,
         NEW n \in Nat, NEW I, \A i \in 1 .. Len(q) : i \in I <=> End(q[i]) <= n
  PROVE  LET rest == SubSeq(q, Lead(q, I) + 1, Len(q)) IN
         /\ rest \in Seq(Segs(o)) /\ Rising(rest)
         /\ \A s \in Range(rest) : s \in Range(q) /\ n < End(s)
         /\ \A s \in Range(q) : n < End(s) => s \in Range(rest)
<1>1. PICK l : l = Lead(q, I)
  OBVIOUS
<1>2. /\ l \in 0 .. Len(q) /\ (\A i \in 1 .. l : i \in I) /\ (l < Len(q) => l + 1 \notin I)
  BY <1>1, LeadCounts
<1>3. PICK rest : rest = SubSeq(q, l + 1, Len(q))
  OBVIOUS
<1>4. /\ rest \in Seq(Segs(o)) /\ Len(rest) = Len(q) - l
      /\ \A i \in 1 .. Len(q) - l : rest[i] = q[l + i]
  BY <1>2, <1>3, CutInTwo
<1>5. Len(q) \in Nat /\ \A i \in 1 .. Len(q) : q[i] \in Segs(o)
  BY LenProperties, ElementOfSeq
<1>6. Rising(rest)
  <2>1. \A s \in Segs(o) : s.seq \in Nat
    BY SegsAre
  <2> QED BY <1>2, <1>3, <2>1, PartRises
<1>7. ASSUME NEW i \in 1 .. Len(q) - l PROVE n < End(q[l + i])
  <2>1. l + 1 \in 1 .. Len(q) /\ l + i \in 1 .. Len(q) /\ l < Len(q)
    BY <1>2, <1>5
  <2>2. ~(End(q[l + 1]) <= n)
    BY <1>2, <2>1
  <2>3. /\ q[l + 1].seq \in Nat /\ End(q[l + 1]) \in Nat /\ q[l + i].seq \in Nat
        /\ End(q[l + i]) \in Nat /\ q[l + i].seq < End(q[l + i])
    BY <1>5, <2>1, SegsAre
  <2>4. CASE i = 1
    BY <2>2, <2>3, <2>4
  <2>5. CASE i # 1
    <3>1. l + 1 < l + i
      BY <1>2, <1>5, <2>5
    <3>2. End(q[l + 1]) <= q[l + i].seq
      BY <2>1, <3>1 DEF Rising
    <3> QED BY <2>2, <2>3, <3>2
  <2> QED BY <2>4, <2>5
<1>8. ASSUME NEW s \in Range(rest) PROVE s \in Range(q) /\ n < End(s)
  <2>1. PICK i \in 1 .. Len(q) - l : s = rest[i]
    BY <1>4, PlaceOf
  <2>2. s = q[l + i] /\ l + i \in 1 .. Len(q)
    BY <1>2, <1>4, <1>5, <2>1
  <2>3. q[l + i] \in Range(q)
    BY <2>2, PlaceOf
  <2> QED BY <1>7, <2>2, <2>3
<1>9. ASSUME NEW s \in Range(q), n < End(s) PROVE s \in Range(rest)
  <2>1. PICK i \in 1 .. Len(q) : s = q[i]
    BY PlaceOf
  <2>2. ~(End(q[i]) <= n)
    <3>1. End(q[i]) \in Nat
      BY <1>5, SegsAre
    <3> QED BY <1>9, <2>1, <3>1
  <2>3. i \notin 1 .. l
    BY <1>2, <2>2
  <2>4. i - l \in 1 .. Len(q) - l /\ l + (i - l) = i
    BY <1>2, <1>5, <2>3
  <2>5. s = rest[i - l]
    BY <1>4, <2>1, <2>4
  <2> QED BY <1>4, <2>4, <2>5, PlaceOf
<1> QED BY <1>1, <1>3, <1>4, <1>6, <1>8, <1>9

\* The queues without what is acknowledged.
LEMMA AckedJoins ==
  ASSUME NEW o, o.written \in Nat, NEW e, Queued(e) \subseteq Segs(o), Line(e),
         e.lastack \in Nat, e.snd_nxt \in Nat, e.snd_lbb \in Nat,
         NEW f, f.snd_nxt = e.snd_nxt, f.snd_lbb = e.snd_lbb, f.lastack \in Nat,
         e.lastack < f.lastack, f.lastack <= e.snd_nxt, Opened(f) => Opened(e),
         Queued(f) \subseteq Queued(e),
         \A s \in Queued(e) : s \in Queued(f) <=> f.lastack < End(s)
  PROVE  Line(f)
<1>1. \A s \in Queued(e) : s.seq \in Nat /\ End(s) \in Nat /\ s.seq < End(s)
  BY SegsAre
<1>2. Adjoins(f)
  <2>1. \A s \in Queued(f) : f.lastack < End(s)
    OBVIOUS
  <2>2. ASSUME NEW s \in Queued(f)
        PROVE  s.seq <= f.lastack \/ \E t \in Queued(f) : End(t) = s.seq
    <3> SUFFICES ASSUME ~(s.seq <= f.lastack) PROVE \E t \in Queued(f) : End(t) = s.seq
      OBVIOUS
    <3>1. s.seq \in Nat /\ s \in Queued(e)
      BY <1>1
    <3>2. ~(s.seq <= e.lastack)
      BY <3>1
    <3>3. PICK t \in Queued(e) : End(t) = s.seq
      BY <3>1, <3>2 DEF Line, Adjoins
    <3>4. t \in Queued(f)
      BY <3>1, <3>3
    <3> QED BY <3>3, <3>4
  <2>3. \A s, t \in Queued(f) : s.seq < t.seq => End(s) <= t.seq
    BY DEF Line, Adjoins
  <2> QED BY <2>1, <2>2, <2>3 DEF Adjoins
<1>3. ASSUME Opened(f) PROVE Ending(f)
  <2>1. e.snd_nxt <= e.snd_lbb /\ Meets(e)
    BY <1>3 DEF Line, Ending
  <2>2. ASSUME NEW s \in Queued(f)
        PROVE  End(s) <= f.snd_lbb /\ (End(s) = f.snd_lbb \/ \E t \in Queued(f) : t.seq = End(s))
    <3>1. s \in Queued(e)
      OBVIOUS
    <3>2. End(s) <= e.snd_lbb /\ (End(s) = e.snd_lbb \/ \E t \in Queued(e) : t.seq = End(s))
      BY <2>1, <3>1 DEF Meets
    <3>3. ASSUME NEW t \in Queued(e), t.seq = End(s) PROVE t \in Queued(f)
      <4>1. f.lastack < End(s) /\ End(s) \in Nat /\ End(t) \in Nat /\ t.seq < End(t)
        BY <1>1, <3>1
      <4> QED BY <3>3, <4>1
    <3> QED BY <3>2, <3>3
  <2>3. f.lastack = f.snd_lbb \/ \E s \in Queued(f) : End(s) = f.snd_lbb
    <3> SUFFICES ASSUME f.lastack # f.snd_lbb PROVE \E s \in Queued(f) : End(s) = f.snd_lbb
      OBVIOUS
    <3>1. f.lastack < e.snd_lbb /\ e.lastack # e.snd_lbb
      BY <2>1
    <3>2. PICK s \in Queued(e) : End(s) = e.snd_lbb
      BY <2>1, <3>1 DEF Meets
    <3> QED BY <3>1, <3>2
  <2>4. f.snd_nxt <= f.snd_lbb /\ f.lastack <= f.snd_lbb
    BY <2>1
  <2> QED BY <2>2, <2>3, <2>4 DEF Ending, Meets
<1> QED BY <1>2, <1>3 DEF Line

\* An acknowledgement that makes progress, in both queues.
LEMMA NewAckPoised ==
  ASSUME NEW o, NEW k \in Nat, NEW e, Sound(e, o, k), Poised(e), NEW m, m.ackno \in Nat,
         e.lastack < m.ackno, m.ackno <= e.snd_nxt
  PROVE  Poised(AckUnsent(NewAck(e, m), m))
<1>1. PICK n : n = m.ackno
  OBVIOUS
<1>2. n \in Nat /\ e.lastack < n /\ n <= e.snd_nxt
  BY <1>1
<1>3. PICK I, J : /\ I = {i \in DOMAIN e.unacked : End(e.unacked[i]) <= n}
                  /\ J = {i \in DOMAIN e.unsent : SeqBetween(n, End(e.unsent[i]), e.snd_nxt)}
  OBVIOUS
<1>4. PICK a, b : /\ a = SubSeq(e.unacked, Lead(e.unacked, I) + 1, Len(e.unacked))
                  /\ b = SubSeq(e.unsent, Lead(e.unsent, J) + 1, Len(e.unsent))
  OBVIOUS
<1>5. PICK t, c : t = (a # <<>>) /\ c = 2 * Mss
  OBVIOUS
<1>6. PICK g : g = [e EXCEPT !.flags = @ \ {"INFR"}, !.cwnd = c, !.nrtx = 0, !.dupacks = 0,
                             !.lastack = n, !.unacked = a, !.timing = t]
  OBVIOUS
<1>7. NewAck(e, m) = g
  BY <1>1, <1>3, <1>4, <1>5, <1>6, Zenon DEF NewAck
<1>8. /\ g.lastack = n /\ g.unacked = a /\ g.cwnd = c /\ IsPcb(g)
      /\ Same(e, g, {"flags", "cwnd", "nrtx", "dupacks", "lastack", "unacked", "timing"})
  BY <1>6 DEF Sound, IsPcb, PcbFields, Same
<1>9. g.unsent = e.unsent /\ g.snd_nxt = e.snd_nxt
  BY <1>8 DEF Same, PcbFields
<1>10. PICK f : f = [g EXCEPT !.unsent = b]
  OBVIOUS
<1>11. AckUnsent(g, m) = f
  <2>1. J = {i \in DOMAIN g.unsent : SeqBetween(m.ackno, End(g.unsent[i]), g.snd_nxt)}
    BY <1>1, <1>3, <1>9
  <2>2. b = SubSeq(g.unsent, Lead(g.unsent, J) + 1, Len(g.unsent))
    BY <1>4, <1>9
  <2> QED BY <1>10, <2>1, <2>2, Zenon DEF AckUnsent
<1>12. f.unsent = b /\ Same(g, f, {"unsent"})
  BY <1>8, <1>10 DEF IsPcb, PcbFields, Same
<1>13. /\ f.unacked = a /\ f.lastack = n /\ f.cwnd = c /\ f.snd_nxt = e.snd_nxt /\ f.st = e.st
       /\ f.snd_lbb = e.snd_lbb /\ f.snd_wnd = e.snd_wnd /\ f.slots = e.slots /\ f.drv = e.drv
  BY <1>8, <1>12 DEF Same, PcbFields
<1>14. /\ o.written \in Nat /\ Queued(e) \subseteq Segs(o) /\ e.lastack \in Nat /\ e.snd_lbb \in Nat
       /\ e.snd_nxt \in Nat /\ e.unsent \in Seq(Segs(o)) /\ e.unacked \in Seq(Segs(o))
  BY QueuedAre
<1>15. Straight(e) /\ Line(e)
  BY DEF Poised
<1>16. \A s, r \in Queued(e) : s.seq < r.seq => End(s) <= r.seq
  BY <1>15 DEF Line, Adjoins
<1>17. /\ \A i \in 1 .. Len(e.unacked) : e.unacked[i] \in Queued(e)
       /\ \A i \in 1 .. Len(e.unsent) : e.unsent[i] \in Queued(e)
  BY <1>14, PlaceOf DEF Queued
<1>18. /\ a \in Seq(Segs(o)) /\ Rising(a)
       /\ \A s \in Range(a) : s \in Range(e.unacked) /\ n < End(s)
       /\ \A s \in Range(e.unacked) : n < End(s) => s \in Range(a)
  <2>1. \A i \in 1 .. Len(e.unacked) : i \in I <=> End(e.unacked[i]) <= n
    BY <1>3, <1>14, LenProperties
  <2>2. Rising(e.unacked)
    BY <1>15 DEF Straight
  <2>3. \A i, j \in 1 .. Len(e.unacked) :
          e.unacked[i].seq < e.unacked[j].seq => End(e.unacked[i]) <= e.unacked[j].seq
    BY <1>16, <1>17
  <2> QED BY <1>2, <1>4, <1>14, <2>1, <2>2, <2>3, DropsAcked
<1>19. /\ b \in Seq(Segs(o)) /\ Rising(b)
       /\ \A s \in Range(b) : s \in Range(e.unsent) /\ n < End(s)
       /\ \A s \in Range(e.unsent) : n < End(s) => s \in Range(b)
  <2>1. \A i \in 1 .. Len(e.unsent) : i \in J <=> End(e.unsent[i]) <= n
    BY <1>2, <1>3, <1>14, LenProperties DEF SeqBetween
  <2>2. Rising(e.unsent)
    BY <1>15 DEF Straight
  <2>3. \A i, j \in 1 .. Len(e.unsent) :
          e.unsent[i].seq < e.unsent[j].seq => End(e.unsent[i]) <= e.unsent[j].seq
    BY <1>16, <1>17
  <2> QED BY <1>2, <1>4, <1>14, <2>1, <2>2, <2>3, DropsAcked
<1>20. Below(a, b)
  <2> SUFFICES ASSUME NEW i \in 1 .. Len(a), NEW j \in 1 .. Len(b) PROVE a[i].seq < b[j].seq
    BY DEF Below
  <2>1. a[i] \in Range(e.unacked) /\ b[j] \in Range(e.unsent)
    BY <1>18, <1>19, PlaceOf
  <2>2. PICK x \in 1 .. Len(e.unacked) : a[i] = e.unacked[x]
    BY <1>14, <2>1, PlaceOf
  <2>3. PICK y \in 1 .. Len(e.unsent) : b[j] = e.unsent[y]
    BY <1>14, <2>1, PlaceOf
  <2> QED BY <1>15, <2>2, <2>3 DEF Straight, Below
<1>21. Straight(f)
  BY <1>12, <1>13, <1>18, <1>19, <1>20 DEF Straight
<1>22. /\ Queued(f) \subseteq Queued(e)
       /\ \A s \in Queued(e) : s \in Queued(f) <=> f.lastack < End(s)
  BY <1>12, <1>13, <1>18, <1>19 DEF Queued
<1>23. Line(f)
  <2>1. Opened(f) => Opened(e)
    BY <1>13 DEF Opened
  <2> QED BY <1>2, <1>13, <1>14, <1>15, <1>22, <2>1, AckedJoins
<1>24. Idle(f) /\ Wide(f)
  <2>1. c \in Nat /\ c >= Mss
    BY <1>5, TcpAssumption
  <2> QED BY <1>13, <2>1 DEF Poised, Idle, Wide
<1> QED BY <1>7, <1>11, <1>21, <1>23, <1>24 DEF Poised

\* An acknowledgement of nothing that waits.
LEMMA NothingAcked ==
  ASSUME NEW o, NEW k \in Nat, NEW e, Sound(e, o, k), NEW m,
         \A s \in Range(e.unsent) : ~SeqBetween(m.ackno, End(s), e.snd_nxt)
  PROVE  SameSnd(e, AckUnsent(e, m)) /\ AckUnsent(e, m).st = e.st
<1>1. PICK J : J = {i \in DOMAIN e.unsent : SeqBetween(m.ackno, End(e.unsent[i]), e.snd_nxt)}
  OBVIOUS
<1>2. e.unsent \in Seq(Segs(o)) /\ Len(e.unsent) \in Nat
  BY QueuedAre
<1>3. J = {}
  <2>1. ASSUME NEW i \in J PROVE FALSE
    <3>1. i \in 1 .. Len(e.unsent) /\ SeqBetween(m.ackno, End(e.unsent[i]), e.snd_nxt)
      BY <1>1, <1>2, LenProperties
    <3>2. e.unsent[i] \in Range(e.unsent)
      BY <1>2, <3>1, PlaceOf
    <3> QED BY <3>1, <3>2
  <2> QED BY <2>1
<1>4. PICK l : l = Lead(e.unsent, J)
  OBVIOUS
<1>5. l \in 0 .. Len(e.unsent) /\ \A i \in 1 .. l : i \in J
  BY <1>2, <1>4, LeadCounts
<1>6. l = 0
  <2>1. ASSUME l # 0 PROVE FALSE
    <3>1. 1 \in 1 .. l
      BY <1>2, <1>5, <2>1
    <3> QED BY <1>3, <1>5, <3>1
  <2> QED BY <2>1
<1>7. PICK b : b = SubSeq(e.unsent, l + 1, Len(e.unsent))
  OBVIOUS
<1>8. b = e.unsent
  BY <1>2, <1>5, <1>6, <1>7, CutInTwo
<1>9. PICK f : f = [e EXCEPT !.unsent = b]
  OBVIOUS
<1>10. AckUnsent(e, m) = f
  BY <1>1, <1>4, <1>7, <1>9, Zenon DEF AckUnsent
<1>11. f.unsent = b /\ Same(e, f, {"unsent"})
  BY <1>9 DEF Sound, IsPcb, PcbFields, Same
<1>12. f.st = e.st /\ SameSnd(e, f)
  BY <1>8, <1>11 DEF Same, PcbFields, SameSnd
<1> QED BY <1>10, <1>12

\* The window that a segment announces.
LEMMA WindowPoised ==
  ASSUME NEW o, NEW k \in Nat, NEW e, Sound(e, o, k), Poised(e), NEW m, m.wnd \in Nat
  PROVE  LET f == UpdateSndWnd(e, m) IN
         Poised(f) /\ f.lastack = e.lastack /\ f.snd_nxt = e.snd_nxt /\ f.st = e.st
<1>1. CASE ~WindowNews(e, m)
  <2>1. UpdateSndWnd(e, m) = e
    BY <1>1 DEF UpdateSndWnd
  <2> QED BY <2>1
<1>2. CASE WindowNews(e, m)
  <2>1. PICK per : per = (e.persist /\ m.wnd = 0)
    OBVIOUS
  <2>2. PICK f : f = [e EXCEPT !.snd_wnd = m.wnd, !.snd_wl1 = m.seq, !.snd_wl2 = m.ackno,
                              !.persist = per]
    OBVIOUS
  <2>3. UpdateSndWnd(e, m) = f
    BY <1>2, <2>1, <2>2, Zenon DEF UpdateSndWnd
  <2>4. Same(e, f, {"snd_wnd", "snd_wl1", "snd_wl2", "persist"}) /\ f.snd_wnd = m.wnd
    BY <2>2 DEF Sound, IsPcb, PcbFields, Same
  <2>5. /\ f.unsent = e.unsent /\ f.unacked = e.unacked /\ f.lastack = e.lastack
        /\ f.snd_nxt = e.snd_nxt /\ f.snd_lbb = e.snd_lbb /\ f.cwnd = e.cwnd
        /\ f.slots = e.slots /\ f.drv = e.drv /\ f.st = e.st
    BY <2>4 DEF Same, PcbFields
  <2>6. Idle(f) /\ Wide(f)
    BY <2>4, <2>5 DEF Poised, Idle, Wide
  <2>7. Line(f)
    <3>1. Queued(f) = Queued(e)
      BY <2>5 DEF Queued
    <3> QED BY <2>5, <3>1, LineStays DEF Poised, Opened, Line, Ending
  <2>8. Straight(f)
    BY <2>5, Zenon DEF Poised, Straight
  <2> QED BY <2>3, <2>5, <2>6, <2>7, <2>8 DEF Poised
<1> QED BY <1>1, <1>2

\* A segment that begins before the others is put first.
LEMMA InsertFirst ==
  ASSUME NEW A, NEW q \in Seq(A), NEW s \in A, \A i \in 1 .. Len(q) : ~(q[i].seq < s.seq)
  PROVE  /\ Len(InsertSeg(q, s)) = Len(q) + 1 /\ InsertSeg(q, s)[1] = s
         /\ \A i \in 1 .. Len(q) : InsertSeg(q, s)[i + 1] = q[i]
<1>1. PICK J : J = {i \in DOMAIN q : q[i].seq < s.seq}
  OBVIOUS
<1>2. PICK l : l = Lead(q, J)
  OBVIOUS
<1>3. Len(q) \in Nat /\ DOMAIN q = 1 .. Len(q)
  BY LenProperties
<1>4. l \in 0 .. Len(q) /\ \A i \in 1 .. l : i \in J
  BY <1>2, LeadCounts
<1>5. l = 0
  <2>1. ASSUME l # 0 PROVE FALSE
    <3>1. 1 \in 1 .. l
      BY <1>3, <1>4, <2>1
    <3> QED BY <1>1, <1>3, <1>4, <3>1
  <2> QED BY <2>1
<1>6. PICK a, b : a = SubSeq(q, 1, l) /\ b = SubSeq(q, l + 1, Len(q))
  OBVIOUS
<1>7. a \in Seq(A) /\ Len(a) = 0 /\ b \in Seq(A) /\ b = q
  BY <1>4, <1>5, <1>6, CutInTwo
<1>8. a = <<>>
  BY <1>7, EmptySeq
<1>9. InsertSeg(q, s) = (a \o <<s>>) \o b
  BY <1>1, <1>2, <1>6, Zenon DEF InsertSeg
<1>10. PICK c : c = <<s>>
  OBVIOUS
<1>11. c \in Seq(A) /\ Len(c) = 1 /\ c[1] = s
  BY <1>10
<1>12. a \o c = c
  BY <1>8, <1>11, ConcatEmptySeq
<1>13. /\ Len(c \o b) = Len(c) + Len(b)
       /\ \A i \in 1 .. Len(c) + Len(b) : (c \o b)[i] = IF i <= Len(c) THEN c[i] ELSE b[i - Len(c)]
  BY <1>7, <1>11, ConcatProperties
<1>14. InsertSeg(q, s) = c \o b
  BY <1>9, <1>10, <1>12
<1>15. PICK d : d = c \o b
  OBVIOUS
<1>16. Len(d) = Len(q) + 1 /\ d[1] = s
  BY <1>3, <1>7, <1>11, <1>13, <1>15
<1>17. ASSUME NEW i \in 1 .. Len(q) PROVE d[i + 1] = q[i]
  <2>1. i + 1 \in 1 .. Len(c) + Len(b) /\ ~(i + 1 <= Len(c)) /\ i + 1 - Len(c) = i
    BY <1>3, <1>7, <1>11
  <2> QED BY <1>7, <1>13, <1>15, <2>1
<1> QED BY <1>14, <1>15, <1>16, <1>17

\* tcp_rexmit leaves the head of unsent before what was sent after it.
LEMMA RexmitBends ==
  ASSUME NEW o, NEW k \in Nat, NEW e, Sound(e, o, k), Straight(e), e.unacked # <<>>
  PROVE  LET f == Rexmit(e) IN
         /\ Same(e, f, {"unsent", "unacked", "nrtx"}) /\ Bent(f)
         /\ e.unacked \in Seq(Segs(o)) /\ f.unacked = Tail(e.unacked)
<1>1. PICK s, rest, q, n :
        s = Head(e.unacked) /\ rest = Tail(e.unacked) /\ q = InsertSeg(e.unsent, s)
        /\ n = Again(e.nrtx)
  OBVIOUS
<1>2. PICK f : f = [e EXCEPT !.unacked = rest, !.unsent = q, !.nrtx = n]
  OBVIOUS
<1>3. Rexmit(e) = f
  BY <1>1, <1>2 DEF Rexmit
<1>4. f.unacked = rest /\ f.unsent = q /\ Same(e, f, {"unsent", "unacked", "nrtx"})
  BY <1>2 DEF Sound, IsPcb, PcbFields, Same
<1>5. /\ e.unsent \in Seq(Segs(o)) /\ e.unacked \in Seq(Segs(o)) /\ Len(e.unsent) \in Nat
      /\ Len(e.unacked) \in Nat /\ Len(e.unacked) >= 1
  BY QueuedAre, EmptySeq
<1>6. PICK u, v : u = e.unacked /\ v = e.unsent
  OBVIOUS
<1>7. /\ s = u[1] /\ s \in Segs(o) /\ rest \in Seq(Segs(o)) /\ Len(rest) = Len(u) - 1
      /\ \A i \in 1 .. Len(rest) : rest[i] = u[i + 1]
  <2>1. s = u[1] /\ s \in Segs(o)
    BY <1>1, <1>5, <1>6, ElementOfSeq, HeadTailProperties
  <2>2. rest \in Seq(Segs(o)) /\ Len(rest) = Len(u) - 1 /\ \A i \in 1 .. Len(rest) : rest[i] = u[i + 1]
    BY <1>1, <1>5, <1>6, HeadTailProperties
  <2> QED BY <2>1, <2>2
<1>8. /\ \A i, j \in 1 .. Len(u) : i < j => u[i].seq < u[j].seq
      /\ \A i, j \in 1 .. Len(v) : i < j => v[i].seq < v[j].seq
      /\ \A i \in 1 .. Len(u), j \in 1 .. Len(v) : u[i].seq < v[j].seq
  BY <1>6, Zenon DEF Straight, Rising, Below
<1>9. /\ \A i \in 1 .. Len(u) : u[i].seq \in Nat
      /\ \A i \in 1 .. Len(v) : v[i].seq \in Nat
  <2>1. \A x \in Segs(o) : x.seq \in Nat
    BY DEF Segs, Segment
  <2> QED BY <1>5, <1>6, <2>1, ElementOfSeq
<1>10. \A j \in 1 .. Len(v) : s.seq < v[j].seq /\ s.seq \in Nat
  <2>1. 1 \in 1 .. Len(u)
    BY <1>5, <1>6
  <2> QED BY <1>7, <1>8, <1>9, <2>1
<1>11. /\ Len(q) = Len(v) + 1 /\ q[1] = s /\ \A i \in 1 .. Len(v) : q[i + 1] = v[i]
  <2>1. \A i \in 1 .. Len(v) : ~(v[i].seq < s.seq)
    BY <1>9, <1>10
  <2>2. v \in Seq(Segs(o)) /\ s \in Segs(o)
    BY <1>5, <1>6, <1>7
  <2>3. q = InsertSeg(v, s)
    BY <1>1, <1>6
  <2>4. /\ Len(InsertSeg(v, s)) = Len(v) + 1 /\ InsertSeg(v, s)[1] = s
        /\ \A i \in 1 .. Len(v) : InsertSeg(v, s)[i + 1] = v[i]
    BY <2>1, <2>2, InsertFirst, ZenonT(30)
  <2> QED BY <2>3, <2>4
<1>12. q \in Seq(Segs(o)) /\ q # <<>>
  <2>1. q \in Seq(Segs(o))
    BY <1>1, <1>5, <1>7, InsertSegKeeps
  <2> QED BY <1>5, <1>6, <1>11, <2>1, EmptySeq
<1>13. Rising(q)
  <2>1. Rising(v) /\ \A i \in 1 .. Len(v) : v[i].seq # s.seq
    <3>1. Rising(v)
      BY <1>8 DEF Rising
    <3> QED BY <1>9, <1>10, <3>1
  <2>2. \A x \in Segs(o) : x.seq \in Nat
    BY DEF Segs, Segment
  <2>3. v \in Seq(Segs(o)) /\ s \in Segs(o) /\ q = InsertSeg(v, s)
    BY <1>1, <1>5, <1>6, <1>7
  <2> QED BY <2>1, <2>2, <2>3, InsertSegRises
<1>14. Rising(rest)
  <2> SUFFICES ASSUME NEW i \in 1 .. Len(rest), NEW j \in 1 .. Len(rest), i < j
               PROVE  rest[i].seq < rest[j].seq
    BY DEF Rising
  <2>1. i + 1 \in 1 .. Len(u) /\ j + 1 \in 1 .. Len(u) /\ i + 1 < j + 1
    BY <1>5, <1>6, <1>7
  <2> QED BY <1>7, <1>8, <2>1
<1>15. ASSUME NEW i \in 1 .. Len(rest)
       PROVE  /\ q[1].seq < rest[i].seq
              /\ \A j \in 2 .. Len(q) : rest[i].seq < q[j].seq
  <2>1. i + 1 \in 1 .. Len(u) /\ 1 \in 1 .. Len(u) /\ 1 < i + 1
    BY <1>5, <1>6, <1>7
  <2>2. rest[i] = u[i + 1] /\ q[1] = u[1]
    BY <1>7, <1>11
  <2>3. q[1].seq < rest[i].seq
    BY <1>8, <2>1, <2>2
  <2>4. ASSUME NEW j \in 2 .. Len(q) PROVE rest[i].seq < q[j].seq
    <3>1. j - 1 \in 1 .. Len(v) /\ (j - 1) + 1 = j
      BY <1>5, <1>6, <1>11
    <3>2. q[j] = v[j - 1]
      BY <1>11, <3>1
    <3> QED BY <1>8, <2>1, <2>2, <3>1, <3>2
  <2> QED BY <2>3, <2>4
<1>16. Bent(f)
  BY <1>4, <1>12, <1>13, <1>14, <1>15 DEF Bent
<1> QED BY <1>1, <1>3, <1>4, <1>5, <1>16

\* tcp_rexmit_fast.
LEMMA RexmitFastPoised ==
  ASSUME NEW o, NEW k \in Nat, NEW e, Sound(e, o, k), Poised(e)
  PROVE  LET f == RexmitFast(e) IN
         (Poised(f) \/ Crooked(f)) /\ f.lastack = e.lastack /\ f.snd_nxt = e.snd_nxt
         /\ f.st = e.st
<1>1. CASE e.unacked = <<>> \/ "INFR" \in e.flags
  <2>1. RexmitFast(e) = e
    BY <1>1 DEF RexmitFast
  <2> QED BY <2>1
<1>2. CASE ~(e.unacked = <<>> \/ "INFR" \in e.flags)
  <2>1. PICK d : d = Rexmit(e)
    OBVIOUS
  <2>2. Same(e, d, {"unsent", "unacked", "nrtx"}) /\ Bent(d)
    BY <1>2, <2>1, RexmitBends DEF Poised
  <2>3. PICK c : c = 2 * Mss
    OBVIOUS
  <2>4. PICK f : f = [d EXCEPT !.cwnd = c, !.flags = @ \cup {"INFR"}]
    OBVIOUS
  <2>5. RexmitFast(e) = f
    BY <1>2, <2>1, <2>3, <2>4 DEF RexmitFast
  <2>6. Same(d, f, {"cwnd", "flags"}) /\ f.cwnd = c
    BY <2>2, <2>4 DEF Same, IsPcb, PcbFields
  <2>7. /\ f.lastack = e.lastack /\ f.snd_nxt = e.snd_nxt /\ f.snd_lbb = e.snd_lbb /\ f.st = e.st
        /\ f.snd_wnd = e.snd_wnd /\ f.slots = e.slots /\ f.drv = e.drv
        /\ f.unsent = d.unsent /\ f.unacked = d.unacked
    BY <2>2, <2>6 DEF Same, PcbFields
  <2>8. Queued(f) = Queued(e)
    <3>1. Calm(e, RexmitFast(e), o, k)
      BY RexmitFastKeeps
    <3> QED BY <2>5, <3>1 DEF Calm, Quiet
  <2>9. Line(f)
    BY <2>7, <2>8, LineStays DEF Poised, Opened, Line, Ending
  <2>10. Idle(f) /\ Wide(f) /\ f.cwnd >= Mss
    <3>1. c \in Nat /\ c >= Mss
      BY <2>3, TcpAssumption
    <3> QED BY <2>6, <2>7, <3>1 DEF Poised, Idle, Wide
  <2>11. Bent(f)
    BY <2>2, <2>7, Zenon DEF Bent
  <2> QED BY <2>5, <2>7, <2>9, <2>10, <2>11 DEF Crooked
<1> QED BY <1>1, <1>2

\* The third duplicate turns a head of unsent out, no other ACK does.
LEMMA OldAckPoised ==
  ASSUME NEW o, NEW k \in Nat, NEW e, Sound(e, o, k), Poised(e), NEW m, NEW edge
  PROVE  LET f == OldAck(e, m, edge) IN
         /\ Poised(f) \/ (Crooked(f) /\ TcpLen(m) = 0)
         /\ f.lastack = e.lastack /\ f.snd_nxt = e.snd_nxt /\ f.st = e.st
<1> DEFINE dup == /\ TcpLen(m) = 0 /\ e.snd_wl2 + e.snd_wnd = edge /\ e.timing
                  /\ e.lastack = m.ackno
           n == IF e.dupacks > DupThreshold THEN e.dupacks ELSE e.dupacks + 1
<1>1. PICK c, d : c = n /\ d = IF dup THEN n ELSE 0
  OBVIOUS
<1>2. PICK f : f = [e EXCEPT !.dupacks = d]
  OBVIOUS
<1>3. Same(e, f, {"dupacks"}) /\ f.dupacks = d
  BY <1>2 DEF Sound, IsPcb, PcbFields, Same
<1> c \in Nat /\ f.dupacks \in Nat
  <2>1. e.dupacks \in Nat
    BY DEF Sound, Numbers
  <2>2. c \in Nat /\ d \in Nat
    BY <1>1, <2>1
  <2> QED BY <1>3, <2>2
<1>4. SameSnd(e, f) /\ f.st = e.st /\ f.flags = e.flags
  BY <1>3 DEF Same, PcbFields, SameSnd
<1>5. Poised(f) /\ f.lastack = e.lastack /\ f.snd_nxt = e.snd_nxt
  BY <1>4, PoisedStays DEF Opened, SameSnd
<1>6. Sound(f, o, k)
  <2>1. Same(e, f, {"timing", "persist", "nrtx", "dupacks", "cwnd", "snd_wnd", "snd_wl1",
                    "snd_wl2", "flags"})
    BY <1>3 DEF Same
  <2>2. Calm(e, f, o, k)
    BY <1>4, <2>1, CountersAreCalm
  <2> QED BY <2>2 DEF Calm
<1>7. PICK b \in BOOLEAN : b = dup
  OBVIOUS
<1>8. PICK fast, w, g : fast = RexmitFast(f) /\ w = 2 * Mss /\ g = [f EXCEPT !.cwnd = w]
  OBVIOUS
<1>9. OldAck(e, m, edge) = CASE ~b \/ c < DupThreshold -> f
                             [] b /\ c = DupThreshold -> fast
                             [] b /\ c > DupThreshold -> g
  BY <1>1, <1>2, <1>7, <1>8, Zenon DEF OldAck
<1>10. OldAck(e, m, edge) = f \/ (OldAck(e, m, edge) \in {fast, g} /\ b)
  BY <1>9, TcpAssumption
<1>11. /\ Poised(fast) \/ Crooked(fast)
       /\ fast.lastack = e.lastack /\ fast.snd_nxt = e.snd_nxt /\ fast.st = e.st
  BY <1>4, <1>5, <1>6, <1>8, RexmitFastPoised
<1>12. /\ Poised(g) /\ g.lastack = e.lastack /\ g.snd_nxt = e.snd_nxt /\ g.st = e.st
  <2>1. Same(f, g, {"cwnd"}) /\ g.cwnd = w
    BY <1>6, <1>8 DEF Sound, IsPcb, PcbFields, Same
  <2>2. /\ g.unsent = f.unsent /\ g.unacked = f.unacked /\ g.lastack = f.lastack
        /\ g.snd_nxt = f.snd_nxt /\ g.snd_lbb = f.snd_lbb /\ g.snd_wnd = f.snd_wnd
        /\ g.slots = f.slots /\ g.drv = f.drv /\ g.st = f.st
    BY <2>1 DEF Same, PcbFields
  <2>3. Idle(g) /\ Wide(g)
    <3>1. w \in Nat /\ w >= Mss
      BY <1>8, TcpAssumption
    <3> QED BY <1>5, <2>1, <2>2, <3>1 DEF Poised, Idle, Wide
  <2>4. Line(g)
    <3>1. Queued(g) = Queued(f)
      BY <2>2 DEF Queued
    <3> QED BY <1>5, <2>2, <3>1, LineStays DEF Poised, Opened, Line, Ending
  <2>5. Straight(g)
    BY <1>5, <2>2, Zenon DEF Poised, Straight
  <2> QED BY <1>4, <1>5, <2>2, <2>3, <2>4, <2>5 DEF Poised
<1>13. b => TcpLen(m) = 0
  BY <1>7
<1>14. PICK r : r = OldAck(e, m, edge)
  OBVIOUS
<1>15. r = f \/ (r \in {fast, g} /\ b)
  BY <1>10, <1>14
<1>16. CASE r = f
  BY <1>4, <1>5, <1>14, <1>16
<1>17. CASE r = fast /\ b
  BY <1>11, <1>13, <1>14, <1>17
<1>18. CASE r = g /\ b
  BY <1>12, <1>14, <1>18
<1> QED BY <1>15, <1>16, <1>17, <1>18

\* The first part of tcp_receive.
LEMMA ReceiveAckPoised ==
  ASSUME NEW o, NEW k \in Nat, NEW e, Sound(e, o, k), Poised(e), NEW m, m.wnd \in Nat,
         m.ackno \in Nat
  PROVE  LET f == ReceiveAck(e, m) IN
         /\ Poised(f) \/ (Crooked(f) /\ TcpLen(m) = 0)
         /\ f.st = e.st
<1>1. CASE ~m.ack
  <2>1. ReceiveAck(e, m) = e
    BY <1>1, Zenon DEF ReceiveAck
  <2> QED BY <2>1
<1>2. CASE m.ack
  <2>1. PICK f : f = UpdateSndWnd(e, m)
    OBVIOUS
  <2>2. PICK edge : edge = e.snd_wl2 + e.snd_wnd
    OBVIOUS
  <2>3. PICK g : g = IF m.ackno <= f.lastack THEN OldAck(f, m, edge)
                     ELSE IF m.ackno <= f.snd_nxt THEN NewAck(f, m) ELSE f
    OBVIOUS
  <2>4. ReceiveAck(e, m) = AckUnsent(g, m)
    BY <1>2, <2>1, <2>2, <2>3, Zenon DEF ReceiveAck
  <2>5. Sound(f, o, k) /\ Poised(f) /\ f.st = e.st
    <3>1. Calm(e, f, o, k)
      BY <2>1, UpdateSndWndKeeps
    <3>2. Poised(f) /\ f.st = e.st
      BY <2>1, WindowPoised
    <3> QED BY <3>1, <3>2 DEF Calm
  <2>6. f.lastack \in Nat /\ f.snd_nxt \in Nat
    BY <2>5, QueuedAre
  <2>7. CASE m.ackno <= f.lastack
    <3>1. g = OldAck(f, m, edge)
      BY <2>3, <2>7
    <3>2. /\ Poised(g) \/ (Crooked(g) /\ TcpLen(m) = 0)
          /\ g.lastack = f.lastack /\ g.snd_nxt = f.snd_nxt /\ g.st = f.st
      BY <2>5, <3>1, OldAckPoised
    <3>3. Sound(g, o, k)
      <4>1. Calm(f, g, o, k)
        BY <2>5, <3>1, OldAckKeeps
      <4> QED BY <4>1 DEF Calm
    <3>4. \A s \in Range(g.unsent) : ~SeqBetween(m.ackno, End(s), g.snd_nxt)
      <4>1. Line(g)
        BY <3>2 DEF Poised, Crooked
      <4>2. \A s \in Range(g.unsent) : g.lastack < End(s) /\ End(s) \in Nat
        BY <3>3, <4>1, QueuedAre, SegsAre DEF Line, Adjoins, Queued
      <4> QED BY <2>6, <2>7, <3>2, <4>2 DEF SeqBetween
    <3>5. PICK h : h = AckUnsent(g, m)
      OBVIOUS
    <3>6. SameSnd(g, h) /\ h.st = g.st
      BY <3>3, <3>4, <3>5, NothingAcked
    <3>7. (Poised(g) => Poised(h)) /\ (Crooked(g) => Crooked(h))
      BY <3>6, PoisedStays DEF Opened
    <3> QED BY <2>4, <2>5, <3>2, <3>5, <3>6, <3>7
  <2>8. CASE ~(m.ackno <= f.lastack) /\ m.ackno <= f.snd_nxt
    <3>1. g = NewAck(f, m)
      BY <2>3, <2>8
    <3>2. Poised(AckUnsent(g, m))
      BY <2>5, <2>6, <2>8, <3>1, NewAckPoised
    <3>3. AckUnsent(g, m).st = f.st
      <4>1. Acked(f, g, m.ackno, o, k)
        BY <2>5, <2>8, <3>1, NewAckKeeps
      <4>2. Sound(g, o, k)
        BY <4>1 DEF Acked
      <4>3. Acked(g, AckUnsent(g, m), m.ackno, o, k)
        BY <4>2, AckUnsentKeeps
      <4> QED BY <4>1, <4>3 DEF Acked, SameCore
    <3> QED BY <2>4, <2>5, <3>2, <3>3
  <2>9. CASE ~(m.ackno <= f.lastack) /\ ~(m.ackno <= f.snd_nxt)
    <3>1. g = f
      BY <2>3, <2>9
    <3>2. \A s \in Range(g.unsent) : ~SeqBetween(m.ackno, End(s), g.snd_nxt)
      BY <2>9, <3>1 DEF SeqBetween
    <3>3. PICK h : h = AckUnsent(g, m)
      OBVIOUS
    <3>4. SameSnd(g, h) /\ h.st = g.st
      BY <2>5, <3>1, <3>2, <3>3, NothingAcked
    <3>5. Poised(h)
      BY <2>5, <3>1, <3>4, PoisedStays DEF Opened
    <3> QED BY <2>4, <2>5, <3>1, <3>3, <3>4, <3>5
  <2> QED BY <2>7, <2>8, <2>9
<1> QED BY <1>1, <1>2

\* What tcp_receive takes from a segment that reaches into the window.
LEMMA TrimmedWaits ==
  ASSUME NEW p, NEW e, Taker(e, p), NEW m \in Datagram, Genuine(m, p), TcpLen(m) > 0,
         SeqBetween(Trimmed(e, m).seq, e.rcv_nxt, Edge(e) - 1)
  PROVE  Trimmed(e, m) \in Waiting(p) /\ ~(Trimmed(e, m).seq < e.rcv_nxt)
<1>1. PICK s : s = Trimmed(e, m)
  OBVIOUS
<1>2. s.seq >= e.rcv_nxt /\ e.rcv_nxt \in Nat /\ e.rcv_nxt >= 1
  BY <1>1, PlacedReach, Zenon DEF SeqBetween
<1>3. CASE m.syn
  <2>1. m.seq = 0 /\ m.data = <<>> /\ ~m.fin
    BY <1>3, Zenon DEF Genuine
  <2>2. TcpLen(m) = 1
    <3>1. Len(m.data) = 0
      BY <2>1
    <3>2. TcpLen(m) = Len(m.data) + 1
      BY <1>3, <3>1, TcpLenIs
    <3> QED BY <3>1, <3>2
  <2>3. ~SeqBetween(e.rcv_nxt - m.seq, 1, TcpLen(m) - 1)
    <3>1. PICK y \in Nat : y = e.rcv_nxt - m.seq
      BY <1>2, <2>1
    <3>2. ~(1 <= y /\ y <= 1 - 1)
      OBVIOUS
    <3> QED BY <2>2, <3>1, <3>2, Zenon DEF SeqBetween
  <2>4. s.seq = 0
    BY <1>1, <2>1, <2>3 DEF Trimmed, Seg
  <2> QED BY <1>2, <2>4
<1>4. CASE ~m.syn
  <2>1. s \in Waiting(p)
    <3>1. TcpLen(m) # 0
      OBVIOUS
    <3> QED BY <1>1, <1>2, <1>4, <3>1, TrimmedKeeps, Zenon
  <2>2. s.seq \in Nat
    BY <2>1 DEF Waiting, Segment
  <2> QED BY <1>1, <1>2, <2>1, <2>2
<1> QED BY <1>3, <1>4

\* The data of a segment does not touch what the sender has.
LEMMA DataSnd ==
  ASSUME NEW p, NEW o, NEW k, NEW e, Sound(e, o, k), Taker(e, p), NEW m \in Datagram,
         Genuine(m, p)
  PROVE  SameSnd(e, ReceiveData(e, m))
<1>1. PICK x \in Nat : x = TcpLen(m)
  <2>1. PICK l \in Nat : l = Len(m.data)
    BY DEF Datagram
  <2>2. TcpLen(m) = l \/ TcpLen(m) = l + 1
    BY <2>1, TcpLenIs, Zenon
  <2> QED BY <2>1, <2>2
<1>2. PICK s : s = Trimmed(e, m)
  OBVIOUS
<1> DEFINE in == SeqBetween(s.seq, e.rcv_nxt, Edge(e) - 1)
           there == SeqBetween(m.seq, e.rcv_nxt, Edge(e) - 1)
           next == s.seq = e.rcv_nxt
<1>3. PICK f : f = IF s.seq < e.rcv_nxt THEN AckNow(e) ELSE e
  OBVIOUS
<1>4. PICK a, b, c, d : /\ a = IF there THEN e ELSE AckNow(e)
                        /\ b = SendEmptyAck(f)
                        /\ c = InSequence(f, s)
                        /\ d = [SendEmptyAck(f) EXCEPT !.ooseq = InsertOoseq(e, s)]
  OBVIOUS
<1>5. PICK g : g = ReceiveData(e, m)
  OBVIOUS
<1>6. g = CASE x = 0 -> a
            [] x > 0 /\ ~in -> b
            [] x > 0 /\ in /\ next -> c
            [] x > 0 /\ in /\ ~next -> d
  <2>1. g = CASE TcpLen(m) = 0 -> IF there THEN e ELSE AckNow(e)
              [] TcpLen(m) > 0 /\ ~in -> SendEmptyAck(f)
              [] TcpLen(m) > 0 /\ in /\ next -> InSequence(f, s)
              [] TcpLen(m) > 0 /\ in /\ ~next ->
                   [SendEmptyAck(f) EXCEPT !.ooseq = InsertOoseq(e, s)]
    BY <1>2, <1>3, <1>5, Zenon DEF ReceiveData
  <2> HIDE DEF in, next, there
  <2>2. g = CASE TcpLen(m) = 0 -> a
              [] TcpLen(m) > 0 /\ ~in -> b
              [] TcpLen(m) > 0 /\ in /\ next -> c
              [] TcpLen(m) > 0 /\ in /\ ~next -> d
    BY <1>4, <2>1, Zenon
  <2> QED BY <1>1, <2>2, Zenon
<1>7. IsPcb(e) /\ IsPcb(AckNow(e)) /\ SameSnd(e, e) /\ SameSnd(e, AckNow(e))
  BY DEF Sound, AckNow, IsPcb, PcbFields, SameSnd
<1>8. IsPcb(f) /\ SameSnd(e, f)
  BY <1>3, <1>7
<1>9. IsPcb(b) /\ SameSnd(e, b)
  <2>1. IsPcb(b) /\ SameSnd(f, b)
    <3>1. PICK n : n = Packet(f, Seg(f.snd_nxt, <<>>, FALSE, FALSE), TRUE)
      OBVIOUS
    <3>2. b = NoAckDue(Announced(Send(f, n)))
      BY <1>4, <3>1, Zenon DEF SendEmptyAck
    <3> QED BY <1>8, <3>2 DEF NoAckDue, Announced, Send, IsPcb, PcbFields, SameSnd
  <2> QED BY <1>8, <2>1 DEF SameSnd
<1>10. SameSnd(e, d)
  <2>1. PICK q : q = InsertOoseq(e, s)
    OBVIOUS
  <2>2. d = [b EXCEPT !.ooseq = q]
    BY <1>4, <2>1
  <2>3. SameSnd(b, d)
    BY <1>9, <2>2 DEF IsPcb, PcbFields, SameSnd
  <2> QED BY <1>9, <2>3 DEF SameSnd
<1>11. ASSUME x > 0, in, next PROVE SameSnd(e, c)
  <2>1. s \in Waiting(p) /\ f = e
    BY <1>1, <1>2, <1>3, <1>11, TrimmedWaits
  <2>2. InOrder(e, InSequence(e, s), p)
    BY <1>11, <2>1, InSequenceTakes
  <2>3. Same(e, c, RcvFields \cup {"flags"})
    BY <1>4, <2>1, <2>2 DEF InOrder
  <2>4. (RcvFields \cup {"flags"}) \cap SndFields = {}
    BY DEF RcvFields, SndFields
  <2> QED BY <2>3, <2>4, SameIsSnd
<1> HIDE DEF in, next, there
<1>12. CASE x = 0
  <2>1. a = e \/ a = AckNow(e)
    BY <1>4
  <2> QED BY <1>5, <1>6, <1>7, <1>12, <2>1
<1>13. CASE x > 0 /\ ~in
  BY <1>5, <1>6, <1>9, <1>13
<1>14. CASE x > 0 /\ in /\ next
  BY <1>5, <1>6, <1>11, <1>14
<1>15. CASE x > 0 /\ in /\ ~next
  BY <1>5, <1>6, <1>10, <1>15
<1> QED BY <1>12, <1>13, <1>14, <1>15

\* tcp_receive.
LEMMA ReceivePoised ==
  ASSUME NEW o, NEW p, NEW k \in Nat, NEW e, Sound(e, o, k), Taker(e, p), k = Reach(e, p),
         ~GotFin(e), NEW m \in Datagram, Genuine(m, p), Poised(e)
  PROVE  LET f == TcpReceive(e, m) IN
         Poised(f) \/ (Crooked(f) /\ ~GotFin(f))
<1>1. PICK g : g = ReceiveAck(e, m)
  OBVIOUS
<1>2. PICK f : f = ReceiveData(g, m)
  OBVIOUS
<1>3. TcpReceive(e, m) = f
  BY <1>1, <1>2, Zenon DEF TcpReceive
<1>4. m.ackno \in Nat /\ m.wnd \in Nat
  BY DEF Datagram
<1>5. (Poised(g) \/ (Crooked(g) /\ TcpLen(m) = 0)) /\ g.st = e.st
  BY <1>1, <1>4, ReceiveAckPoised
<1>6. Acked(e, g, m.ackno, o, k)
  BY <1>1, <1>4, ReceiveAckKeeps, Zenon
<1>7. Sound(g, o, k) /\ SameCore(e, g) /\ SameRcv(e, g)
  BY <1>6, Zenon DEF Acked
<1>8. Taker(g, p) /\ ~GotFin(g) /\ Reach(g, p) = k
  <2>1. /\ g.got = e.got /\ g.recv_data = e.recv_data /\ g.eof = e.eof /\ g.ooseq = e.ooseq
        /\ g.rcv_nxt = e.rcv_nxt /\ g.recv_flags = e.recv_flags
    BY <1>7, Zenon DEF SameCore, SameRcv
  <2>2. IsPcb(g) /\ Windows(g)
    BY <1>7 DEF Sound, Numbers, Windows
  <2>3. Sorted(g, p)
    BY <2>1, Zenon DEF Taker, Sorted
  <2>4. Reach(g, p) = Reach(e, p)
    BY <2>1, Zenon DEF Reach, Taken
  <2> QED BY <2>1, <2>2, <2>3, <2>4, TakerFields, Zenon
<1>9. Receives(g, f, m, o, p, k)
  BY <1>2, <1>7, <1>8, ReceiveDataKeeps, Zenon
<1>10. SameSnd(g, f)
  BY <1>2, <1>7, <1>8, DataSnd
<1>11. Opened(f) => Opened(g)
  BY <1>9 DEF Receives, Opened
<1>12. (Poised(g) => Poised(f)) /\ (Crooked(g) => Crooked(f))
  BY <1>10, <1>11, PoisedStays
<1>13. GotFin(f) => TcpLen(m) # 0
  BY <1>9, Zenon DEF Receives
<1> QED BY <1>3, <1>5, <1>12, <1>13

\* What tcp_process leaves for the end of tcp_input.
Ordered(f) ==
  /\ Poised(f) \/ (Crooked(f) /\ Living(f) /\ ~GotFin(f))
  /\ "ACK_NOW" \in f.flags => f.st # "SYN_SENT"

\* There is one SYN at most.
LEMMA OneSyn ==
  ASSUME NEW o, NEW k, NEW e, Sound(e, o, k), Straight(e), \A s \in Queued(e) : s.syn,
         e.unacked # <<>>
  PROVE  Tail(e.unacked) = <<>> /\ e.unsent = <<>> /\ Head(e.unacked).seq = 0
<1>1. e.unsent \in Seq(Segs(o)) /\ e.unacked \in Seq(Segs(o))
  BY Zenon DEF Sound, Queues
<1>2. PICK n \in Nat : n = Len(e.unacked)
  BY <1>1, LenProperties
<1>3. PICK l \in Nat : l = Len(e.unsent)
  BY <1>1, LenProperties
<1>4. \A i \in 1 .. n : e.unacked[i].seq = 0
  <2>1. TAKE i \in 1 .. n
  <2>2. e.unacked[i] \in Segs(o) /\ e.unacked[i] \in Queued(e)
    <3>1. e.unacked[i] \in Range(e.unacked)
      BY <1>1, <1>2, PlaceOf
    <3>2. e.unacked[i] \in Segs(o)
      BY <1>1, <1>2, ElementOfSeq
    <3> QED BY <3>1, <3>2 DEF Queued
  <2> QED BY <2>2, Zenon DEF Segs, Genuine
<1>5. \A i \in 1 .. l : e.unsent[i].seq = 0
  <2>1. TAKE i \in 1 .. l
  <2>2. e.unsent[i] \in Segs(o) /\ e.unsent[i] \in Queued(e)
    <3>1. e.unsent[i] \in Range(e.unsent)
      BY <1>1, <1>3, PlaceOf
    <3>2. e.unsent[i] \in Segs(o)
      BY <1>1, <1>3, ElementOfSeq
    <3> QED BY <3>1, <3>2 DEF Queued
  <2> QED BY <2>2, Zenon DEF Segs, Genuine
<1>6. n >= 1
  BY <1>1, <1>2, EmptySeq
<1>7. ~(n >= 2)
  <2>1. SUFFICES ASSUME n >= 2 PROVE FALSE
    OBVIOUS
  <2>2. e.unacked[1].seq < e.unacked[2].seq
    <3>1. 1 \in 1 .. Len(e.unacked) /\ 2 \in 1 .. Len(e.unacked) /\ 1 < 2
      BY <1>2, <2>1
    <3> QED BY <3>1, Zenon DEF Straight, Rising
  <2>3. e.unacked[1].seq = 0 /\ e.unacked[2].seq = 0
    BY <1>4, <2>1
  <2> QED BY <2>2, <2>3
<1>8. ~(l >= 1)
  <2>1. SUFFICES ASSUME l >= 1 PROVE FALSE
    OBVIOUS
  <2>2. e.unacked[1].seq < e.unsent[1].seq
    <3>1. 1 \in 1 .. Len(e.unacked) /\ 1 \in 1 .. Len(e.unsent)
      BY <1>2, <1>3, <1>6, <2>1
    <3> QED BY <3>1, Zenon DEF Straight, Below
  <2>3. e.unacked[1].seq = 0 /\ e.unsent[1].seq = 0
    BY <1>4, <1>5, <1>6, <2>1
  <2> QED BY <2>2, <2>3
<1>9. n = 1 /\ l = 0
  BY <1>6, <1>7, <1>8
<1>10. e.unsent = <<>>
  BY <1>1, <1>3, <1>9, EmptySeq
<1>11. Tail(e.unacked) = <<>>
  <2>1. Tail(e.unacked) \in Seq(Segs(o)) /\ Len(Tail(e.unacked)) = 0
    <3>1. PICK A : A = Segs(o)
      OBVIOUS
    <3>2. PICK q \in Seq(A) : q = e.unacked
      BY <1>1, <3>1
    <3>3. Tail(q) \in Seq(A) /\ Len(Tail(q)) = Len(q) - 1
      BY <3>2, HeadTailProperties
    <3>4. Len(q) = 1
      BY <1>2, <1>9, <3>2
    <3>5. PICK r : r = Tail(q)
      OBVIOUS
    <3>6. r \in Seq(A) /\ Len(r) = 0
      BY <3>3, <3>4, <3>5
    <3>7. r = Tail(e.unacked)
      BY <3>2, <3>5
    <3> QED BY <3>1, <3>6, <3>7
  <2> QED BY <2>1, EmptySeq
<1>12. Head(e.unacked).seq = 0
  <2>1. Head(e.unacked) = e.unacked[1]
    BY <1>1, <1>2, <1>9
  <2> QED BY <1>4, <1>9, <2>1
<1> QED BY <1>10, <1>11, <1>12

LEMMA PoisedOrdered ==
  ASSUME NEW e, NEW f, Poised(e), SameSnd(e, f), Opened(f) => Opened(e),
         "ACK_NOW" \in f.flags => f.st # "SYN_SENT"
  PROVE  Ordered(f)
<1>1. Poised(f)
  BY PoisedStays
<1> QED BY <1>1 DEF Ordered

\* tcp_rst leaves the sender as it is.
LEMMA SendSame ==
  ASSUME NEW e, IsPcb(e), NEW m
  PROVE  SameSnd(e, Send(e, m)) /\ Send(e, m).st = e.st /\ Send(e, m).flags = e.flags
<1>1. PICK q : q = Append(e.out, m)
  OBVIOUS
<1>2. PICK f : f = [e EXCEPT !.out = q]
  OBVIOUS
<1>3. Send(e, m) = f
  BY <1>1, <1>2 DEF Send
<1>4. Same(e, f, {"out"})
  BY <1>2 DEF IsPcb, PcbFields, Same
<1>5. SameSnd(e, f) /\ f.st = e.st /\ f.flags = e.flags
  BY <1>4 DEF Same, PcbFields, SameSnd
<1> QED BY <1>3, <1>5

\* The answer to the SYN of an active connection.
LEMMA SynSentOrdered ==
  ASSUME NEW e, NEW p, Good(e, p), e.st = "SYN_SENT", InLine(e),
         NEW m \in Sent(p, Reach(p, e)), ~m.rst
  PROVE  Ordered(SynSent(e, m))
<1>1. PICK k \in Nat : k = Reach(e, p)
  BY GoodParts
<1>2. Sound(e, e, k)
  BY <1>1, Zenon DEF Good
<1>3. Poised(e) /\ "ACK_NOW" \notin e.flags
  BY LineIs
<1>4. m \in Datagram /\ Genuine(m, p)
  BY Zenon DEF Sent
<1>5. /\ e.snd_lbb = 1 /\ e.unacked # <<>> /\ \A s \in Queued(e) : s.syn
  BY Zenon DEF Good, Sender, SynWaits
<1>6. Straight(e) /\ Line(e) /\ Idle(e)
  BY <1>3, Zenon DEF Poised
<1>7. Tail(e.unacked) = <<>> /\ e.unsent = <<>> /\ Head(e.unacked).seq = 0
  BY <1>2, <1>5, <1>6, OneSyn
<1>8. PICK h : h = SynSent(e, m)
  OBVIOUS
<1>9. CASE m.ack /\ m.syn /\ m.ackno = Head(e.unacked).seq + 1
  <2>1. m.ackno = 1 /\ m.seq = 0
    <3>1. m.seq = 0
      BY <1>4, <1>9, Zenon DEF Genuine
    <3> QED BY <1>7, <1>9, <3>1
  <2>2. PICK c : c = IF e.cwnd = 1 THEN 2 * Mss ELSE Mss
    OBVIOUS
  <2>3. PICK timing : timing = (Len(e.unacked) > 1)
    OBVIOUS
  <2>4. PICK one, wl1 : one = m.seq + 1 /\ wl1 = m.seq - 1
    OBVIOUS
  <2>5. PICK g : g = [e EXCEPT !.rcv_nxt = one, !.rcv_ann_right_edge = one,
                               !.lastack = 1, !.snd_wnd = m.wnd, !.snd_wl1 = wl1,
                               !.st = "ESTABLISHED", !.cwnd = c,
                               !.unacked = <<>>, !.timing = timing, !.nrtx = 0]
    OBVIOUS
  <2>6. h = AckNow(g)
    <3>1. h = AckNow([e EXCEPT
                 !.rcv_nxt = m.seq + 1, !.rcv_ann_right_edge = m.seq + 1,
                 !.lastack = m.ackno, !.snd_wnd = m.wnd, !.snd_wl1 = m.seq - 1,
                 !.st = "ESTABLISHED", !.cwnd = IF @ = 1 THEN 2 * Mss ELSE Mss,
                 !.unacked = Tail(@), !.timing = Len(e.unacked) > 1, !.nrtx = 0])
      BY <1>8, <1>9 DEF SynSent
    <3> QED BY <1>7, <2>1, <2>2, <2>3, <2>4, <2>5, <3>1
  <2>7. Same(e, h, {"rcv_nxt", "rcv_ann_right_edge", "lastack", "snd_wnd", "snd_wl1", "st",
                    "cwnd", "unacked", "timing", "nrtx", "flags"})
    BY <1>2, <2>5, <2>6 DEF AckNow, Sound, IsPcb, PcbFields, Same
  <2>8. /\ h.lastack = 1 /\ h.st = "ESTABLISHED" /\ h.unacked = <<>> /\ h.cwnd = c
        /\ h.snd_wnd = m.wnd
    BY <1>2, <2>5, <2>6 DEF AckNow, Sound, IsPcb, PcbFields
  <2>9. /\ h.unsent = <<>> /\ h.snd_lbb = 1 /\ h.snd_nxt = e.snd_nxt
        /\ h.slots = e.slots /\ h.drv = e.drv
    BY <1>5, <1>7, <2>7 DEF Same, PcbFields
  <2>10. Idle(h)
    BY <1>6, <2>9, Zenon DEF Idle
  <2>11. Wide(h)
    <3>1. c \in Nat /\ c >= Mss
      BY <2>2, TcpAssumption
    <3>2. m.wnd \in Nat
      BY <1>4 DEF Datagram
    <3> QED BY <2>8, <3>1, <3>2 DEF Wide
  <2>12. Straight(h) /\ Adjoins(h) /\ Queued(h) = {}
    BY <2>8, <2>9, EmptyJoins
  <2>13. h.snd_nxt <= h.snd_lbb
    <3>1. Opened(e)
      BY DEF Opened
    <3> QED BY <1>5, <1>6, <2>9, <3>1 DEF Line, Ending
  <2>14. Meets(h)
    BY <2>8, <2>9, <2>12 DEF Meets
  <2>15. Poised(h)
    BY <2>10, <2>11, <2>12, <2>13, <2>14 DEF Poised, Line, Ending
  <2> QED BY <1>8, <2>8, <2>15 DEF Ordered
<1>10. CASE m.ack /\ ~(m.syn /\ m.ackno = Head(e.unacked).seq + 1)
  <2>1. PICK r : h = Send(e, r)
    <3>1. h = Answer(e, m)
      BY <1>8, <1>10 DEF SynSent
    <3> QED BY <3>1, Zenon DEF Answer
  <2>2. IsPcb(e)
    BY <1>2, Zenon DEF Sound
  <2>3. SameSnd(e, h) /\ h.st = e.st /\ h.flags = e.flags
    BY <2>1, <2>2, SendSame
  <2> QED BY <1>3, <1>8, <2>3, PoisedOrdered DEF Opened
<1>11. CASE ~m.ack
  <2>1. h = e
    BY <1>8, <1>11 DEF SynSent
  <2> QED BY <1>3, <1>8, <2>1 DEF Ordered
<1> QED BY <1>9, <1>10, <1>11

\* tcp_receive, in the states of a connection.
Fit(f) == Poised(f) \/ (Crooked(f) /\ ~GotFin(f))

LEMMA ReceiveFit ==
  ASSUME NEW e, NEW p, Good(e, p), Good(p, e), e.st \in Linked, InLine(e),
         NEW g, Same(e, g, {"st"}), Opened(g) => Opened(e),
         NEW m \in Sent(p, Reach(p, e)), ~m.rst
  PROVE  Fit(TcpReceive(g, m))
<1>1. PICK k \in Nat : k = Reach(e, p)
  BY GoodParts
<1>2. /\ g.written = e.written /\ g.got = e.got /\ g.eof = e.eof /\ g.flags = e.flags
      /\ g.recv_data = e.recv_data /\ g.recv_flags = e.recv_flags /\ g.ooseq = e.ooseq
      /\ g.rcv_nxt = e.rcv_nxt /\ g.snd_lbb = e.snd_lbb
  BY DEF Same, PcbFields
<1>3. g.unsent = e.unsent /\ g.unacked = e.unacked /\ g.drv = e.drv /\ g.out = e.out
  BY DEF Same, PcbFields
<1>4. Sound(g, e, k)
  <2>1. Numbers(e, e, k) /\ Queues(e, e, k)
    BY <1>1, Zenon DEF Good, Sound
  <2>2. Numbers(g, e, k)
    BY <2>1, NumbersStay
  <2>3. Queues(g, e, k)
    BY <1>3, <2>1, Zenon DEF Queues
  <2> QED BY <2>2, <2>3, Zenon DEF Sound, Same
<1>5. Taken(g) = Taken(e)
  BY <1>2, Zenon DEF Taken
<1>6. Reach(g, p) = k
  <2>1. Reach(g, p) = Reach(e, p)
    BY <1>5, Zenon DEF Reach
  <2> QED BY <1>1, <2>1
<1>7. ~GotFin(e)
  <2>1. e.recv_flags = {}
    BY Zenon DEF Good
  <2> QED BY <2>1 DEF GotFin
<1>8. Taker(g, p) /\ ~GotFin(g)
  <2>1. IsPcb(g) /\ Windows(g)
    BY <1>4 DEF Sound, Numbers, Windows
  <2>2. Taker(e, p)
    <3>1. IsPcb(e) /\ Windows(e)
      BY GoodParts
    <3> QED BY <3>1, Zenon DEF Taker, Good
  <2>3. Sorted(g, p)
    BY <1>2, Zenon DEF Good, Sorted
  <2> QED BY <1>2, <1>7, <2>1, <2>2, <2>3, TakerFields, Zenon
<1>9. m \in Datagram /\ Genuine(m, p)
  BY Zenon DEF Sent
<1>10. Poised(g)
  <2>1. SameSnd(e, g)
    BY SameIsSnd DEF SndFields
  <2>2. Poised(e)
    BY LineIs
  <2> QED BY <2>1, <2>2, PoisedStays
<1>11. k = Reach(g, p) /\ k \in Nat
  BY <1>1, <1>6
<1> QED BY <1>4, <1>8, <1>9, <1>10, <1>11, ReceivePoised DEF Fit

\* The state, the flags and cwnd are set after it.
LEMMA FitOn ==
  ASSUME NEW f, Fit(f), NEW h, Same(f, h, {"st", "flags", "cwnd"}), Opened(h) => Opened(f),
         h.cwnd = f.cwnd \/ (h.cwnd \in Nat /\ h.cwnd >= Mss)
  PROVE  Fit(h)
<1>1. /\ h.snd_nxt = f.snd_nxt /\ h.lastack = f.lastack /\ h.snd_lbb = f.snd_lbb
      /\ h.snd_wnd = f.snd_wnd /\ h.unsent = f.unsent /\ h.unacked = f.unacked
      /\ h.slots = f.slots /\ h.drv = f.drv /\ h.recv_flags = f.recv_flags
  BY DEF Same, PcbFields
<1>2. Idle(h) /\ Wide(h)
  BY <1>1 DEF Fit, Poised, Crooked, Idle, Wide
<1>3. Line(h)
  <2>1. Queued(h) = Queued(f)
    BY <1>1 DEF Queued
  <2>2. Line(f)
    BY DEF Fit, Poised, Crooked
  <2>3. Opened(h) => h.snd_nxt <= h.snd_lbb
    BY <1>1, <2>2 DEF Line, Ending
  <2> QED BY <1>1, <2>1, <2>2, <2>3, LineStays
<1>4. GotFin(h) <=> GotFin(f)
  BY <1>1, Zenon DEF GotFin
<1>5. CASE Poised(f)
  <2>1. Straight(h)
    BY <1>1, <1>5, Zenon DEF Poised, Straight
  <2> QED BY <1>2, <1>3, <2>1 DEF Fit, Poised
<1>6. CASE Crooked(f) /\ ~GotFin(f)
  <2>1. Bent(h)
    BY <1>1, <1>6, Zenon DEF Crooked, Bent
  <2>2. h.cwnd >= Mss
    BY <1>6 DEF Crooked
  <2> QED BY <1>2, <1>3, <1>4, <1>6, <2>1, <2>2 DEF Fit, Crooked
<1> QED BY <1>5, <1>6 DEF Fit

LEMMA FitOrdered ==
  ASSUME NEW h, Fit(h), Living(h), h.st # "SYN_SENT"
  PROVE  Ordered(h)
BY DEF Fit, Ordered

\* What a pcb in TIME_WAIT had queued is gone.
LEMMA TimeWaitOrdered ==
  ASSUME NEW f, IsPcb(f), Fit(f)
  PROVE  Ordered(TimeWait(f)) /\ Ordered(TimeWait(AckNow(f)))
<1>1. Idle(f) /\ Wide(f)
  BY DEF Fit, Poised, Crooked
<1>2. PICK g : g = AckNow(f)
  OBVIOUS
<1>3. IsPcb(g) /\ Idle(g) /\ Wide(g)
  <2>1. Same(f, g, {"flags"})
    BY <1>2, AckSame
  <2>2. /\ g.cwnd = f.cwnd /\ g.snd_wnd = f.snd_wnd /\ g.lastack = f.lastack
        /\ g.slots = f.slots /\ g.drv = f.drv
    BY <2>1 DEF Same, PcbFields
  <2> QED BY <1>1, <2>1, <2>2, Zenon DEF Same, Idle, Wide
<1>4. Poised(TimeWait(f)) /\ TimeWait(f).st = "TIME_WAIT"
  BY <1>1, TimeWaitPoised
<1>5. Poised(TimeWait(g)) /\ TimeWait(g).st = "TIME_WAIT"
  BY <1>3, TimeWaitPoised
<1> QED BY <1>2, <1>4, <1>5 DEF Ordered

\* A state that tcp_process sets after tcp_receive.
LEMMA StateOrdered ==
  ASSUME NEW f, IsPcb(f), Fit(f), NEW x, x \notin {"CLOSED", "LISTEN", "GONE", "TIME_WAIT", "SYN_SENT"},
         NEW h, h = [f EXCEPT !.st = x] \/ h = [AckNow(f) EXCEPT !.st = x],
         Opened(h) => Opened(f)
  PROVE  Ordered(h)
<1>1. Same(f, h, {"st", "flags", "cwnd"}) /\ h.st = x
  BY StateSet
<1>2. h.cwnd = f.cwnd
  BY DEF AckNow, IsPcb, PcbFields
<1>3. Fit(h)
  BY <1>1, <1>2, FitOn
<1>4. Living(h) /\ h.st # "SYN_SENT"
  BY <1>1 DEF Living
<1> QED BY <1>3, <1>4, FitOrdered

LEMMA PassiveOrdered ==
  ASSUME NEW f, IsPcb(f), Fit(f), f.st \in {"ESTABLISHED", "CLOSE_WAIT"}
  PROVE  Ordered(PassiveClose(f))
<1>1. PICK h : h = PassiveClose(f)
  OBVIOUS
<1>2. CASE GotFin(f)
  <2>1. PICK x : x = "CLOSE_WAIT"
    OBVIOUS
  <2>2. h = [AckNow(f) EXCEPT !.st = x]
    BY <1>1, <1>2, <2>1, Zenon DEF PassiveClose
  <2>3. Opened(f) /\ x \notin {"CLOSED", "LISTEN", "GONE", "TIME_WAIT", "SYN_SENT"}
    BY <2>1 DEF Opened
  <2> QED BY <1>1, <2>2, <2>3, StateOrdered
<1>3. CASE ~GotFin(f)
  <2>1. h = f
    BY <1>1, <1>3, Zenon DEF PassiveClose
  <2>2. Living(f) /\ f.st # "SYN_SENT"
    BY DEF Living
  <2> QED BY <1>1, <2>1, <2>2, FitOrdered
<1> QED BY <1>2, <1>3

\* tcp_process in the states of a connection.
LEMMA ConnectedOrdered ==
  ASSUME NEW e, NEW p, Good(e, p), Good(p, e), e.st \in Linked \ {"SYN_RCVD"}, InLine(e),
         NEW m \in Sent(p, Reach(p, e)), ~m.rst
  PROVE  Ordered(Connected(e, m))
<1>1. PICK f : f = TcpReceive(e, m)
  OBVIOUS
<1>2. PICK h : h = Connected(e, m)
  OBVIOUS
<1>3. PICK acked \in BOOLEAN : acked <=> m.ack /\ m.ackno = f.snd_nxt
  OBVIOUS
<1>4. e.st \in Linked /\ Same(e, e, {"st"})
  <2>1. IsPcb(e)
    BY GoodParts
  <2> QED BY <2>1 DEF Same
<1>5. /\ Kept(e, f, p)
      /\ f.st = e.st \/ (e.st = "ESTABLISHED" /\ f.st = "CLOSE_WAIT" /\ GotFin(f))
  BY <1>1, <1>4, ReceiveIsKept
<1>6. IsPcb(f)
  BY <1>5, Zenon DEF Kept, Before
<1>7. Fit(f)
  BY <1>1, <1>4, ReceiveFit
<1>8. e.st \in {"ESTABLISHED", "CLOSE_WAIT", "FIN_WAIT_1", "FIN_WAIT_2", "CLOSING", "LAST_ACK"}
  BY DEF Linked
<1>9. CASE e.st \in {"ESTABLISHED", "CLOSE_WAIT"}
  <2>1. h = PassiveClose(f)
    BY <1>1, <1>2, <1>9 DEF Connected
  <2>2. f.st \in {"ESTABLISHED", "CLOSE_WAIT"}
    BY <1>5, <1>9
  <2> QED BY <1>2, <1>6, <1>7, <2>1, <2>2, PassiveOrdered
<1>10. CASE e.st \notin {"ESTABLISHED", "CLOSE_WAIT"}
  <2>1. f.st = e.st /\ f.st \in {"FIN_WAIT_1", "FIN_WAIT_2", "CLOSING", "LAST_ACK"}
    BY <1>5, <1>8, <1>10
  <2>2. Ordered(f)
    BY <1>7, <2>1, FitOrdered DEF Living
  <2>3. Ordered(TimeWait(f)) /\ Ordered(TimeWait(AckNow(f)))
    BY <1>6, <1>7, TimeWaitOrdered
  <2>4. ASSUME NEW x \in {"FIN_WAIT_1", "FIN_WAIT_2", "CLOSING"}, NEW g,
               g = [f EXCEPT !.st = x] \/ g = [AckNow(f) EXCEPT !.st = x]
        PROVE  Ordered(g)
    <3>1. g.st = x
      BY <1>6, <2>4, StateSet
    <3>2. ~Opened(g) /\ x \notin {"CLOSED", "LISTEN", "GONE", "TIME_WAIT", "SYN_SENT"}
      BY <3>1 DEF Opened
    <3> QED BY <1>6, <1>7, <2>4, <3>2, StateOrdered
  <2>5. CASE f.st = "FIN_WAIT_1"
    <3>1. h = IF ~GotFin(f) THEN [f EXCEPT !.st = IF acked THEN "FIN_WAIT_2" ELSE @]
              ELSE IF acked THEN TimeWait(AckNow(f)) ELSE [AckNow(f) EXCEPT !.st = "CLOSING"]
      BY <1>1, <1>2, <1>3, <2>1, <2>5 DEF Connected
    <3>2. CASE ~GotFin(f)
      <4>1. PICK x \in {"FIN_WAIT_1", "FIN_WAIT_2"} : h = [f EXCEPT !.st = x]
        BY <2>5, <3>1, <3>2
      <4> QED BY <1>2, <2>4, <4>1
    <3>3. CASE GotFin(f)
      <4>1. h = TimeWait(AckNow(f)) \/ h = [AckNow(f) EXCEPT !.st = "CLOSING"]
        BY <3>1, <3>3
      <4>2. PICK x : x = "CLOSING"
        OBVIOUS
      <4>3. h = TimeWait(AckNow(f)) \/ h = [AckNow(f) EXCEPT !.st = x]
        BY <4>1, <4>2
      <4>4. h = [AckNow(f) EXCEPT !.st = x] => Ordered(h)
        BY <2>4, <4>2
      <4> QED BY <1>2, <2>3, <4>3, <4>4
    <3> QED BY <3>2, <3>3
  <2>6. CASE f.st = "FIN_WAIT_2"
    <3>1. h = IF GotFin(f) THEN TimeWait(AckNow(f)) ELSE f
      BY <1>1, <1>2, <2>1, <2>6 DEF Connected
    <3> QED BY <1>2, <2>2, <2>3, <3>1
  <2>7. CASE f.st = "CLOSING"
    <3>1. h = IF acked THEN TimeWait(f) ELSE f
      BY <1>1, <1>2, <1>3, <2>1, <2>7 DEF Connected
    <3> QED BY <1>2, <2>2, <2>3, <3>1
  <2>8. CASE f.st = "LAST_ACK"
    <3>1. h = IF acked THEN [f EXCEPT !.recv_flags = @ \cup {"CLOSED"}] ELSE f
      BY <1>1, <1>2, <1>3, <2>1, <2>8 DEF Connected
    <3>2. CASE acked
      <4>1. h = [f EXCEPT !.recv_flags = @ \cup {"CLOSED"}]
        BY <3>1, <3>2
      <4>2. Same(f, h, {"recv_flags"}) /\ h.recv_flags = f.recv_flags \cup {"CLOSED"}
        BY <1>6, <4>1 DEF IsPcb, PcbFields, Same
      <4>3. SameSnd(f, h)
        BY <4>2, SameIsSnd DEF SndFields
      <4>4. h.st = f.st
        BY <4>2 DEF Same, PcbFields
      <4>5. GotFin(h) <=> GotFin(f)
        BY <4>2 DEF GotFin
      <4>6. (Poised(f) => Poised(h)) /\ (Crooked(f) => Crooked(h))
        BY <4>3, <4>4, PoisedStays DEF Opened
      <4>7. Fit(h)
        BY <1>7, <4>5, <4>6 DEF Fit
      <4> QED BY <1>2, <2>8, <4>4, <4>7, FitOrdered DEF Living
    <3>3. CASE ~acked
      BY <1>2, <2>2, <3>1, <3>3
    <3> QED BY <3>2, <3>3
  <2> QED BY <2>1, <2>5, <2>6, <2>7, <2>8
<1> QED BY <1>9, <1>10

\* The end of the handshake for the passive side.
LEMMA SynRcvdOrdered ==
  ASSUME NEW e, NEW p, Good(e, p), Good(p, e), e.st = "SYN_RCVD", InLine(e),
         NEW m \in Sent(p, Reach(p, e)), ~m.rst
  PROVE  Ordered(SynRcvd(e, m))
<1>1. PICK k \in Nat : k = Reach(e, p)
  BY GoodParts
<1>2. Sound(e, e, k)
  BY <1>1, Zenon DEF Good
<1>3. Living(e) /\ e.st \in Linked /\ Opened(e)
  BY DEF Living, Linked, Opened
<1>4. Poised(e) /\ "ACK_NOW" \notin e.flags
  BY LineIs
<1>5. PICK h : h = SynRcvd(e, m)
  OBVIOUS
<1>6. PICK good \in BOOLEAN : good <=> SeqBetween(m.ackno, e.lastack + 1, e.snd_nxt)
  BY DEF SeqBetween
<1>7. CASE m.ack /\ good
  <2>1. PICK g : g = [e EXCEPT !.st = "ESTABLISHED"]
    OBVIOUS
  <2>2. Same(e, g, {"st"}) /\ g.st = "ESTABLISHED"
    BY <1>2, <2>1 DEF Sound, IsPcb, PcbFields, Same
  <2>3. PICK f : f = TcpReceive(g, m)
    OBVIOUS
  <2>4. Kept(e, f, p) /\ f.st \in {"ESTABLISHED", "CLOSE_WAIT"}
    BY <1>3, <2>2, <2>3, ReceiveIsKept
  <2>5. Fit(f)
    BY <1>3, <2>2, <2>3, ReceiveFit
  <2>6. PICK c : c = IF e.cwnd = 1 THEN 2 * Mss ELSE Mss
    OBVIOUS
  <2>7. PICK i : i = [f EXCEPT !.cwnd = c]
    OBVIOUS
  <2>8. h = PassiveClose(i)
    BY <1>5, <1>6, <1>7, <2>1, <2>3, <2>6, <2>7 DEF SynRcvd
  <2>9. IsPcb(f)
    BY <2>4, Zenon DEF Kept, Before
  <2>10. Same(f, i, {"st", "flags", "cwnd"}) /\ i.st = f.st /\ i.cwnd = c
    BY <2>7, <2>9 DEF IsPcb, PcbFields, Same
  <2>11. c \in Nat /\ c >= Mss
    BY <2>6, TcpAssumption
  <2>12. Opened(i) => Opened(f)
    BY <2>10 DEF Opened
  <2>13. Fit(i)
    BY <2>5, <2>10, <2>11, <2>12, FitOn
  <2>14. IsPcb(i)
    BY <2>10, Zenon DEF Same
  <2> QED BY <1>5, <2>4, <2>8, <2>10, <2>13, <2>14, PassiveOrdered
<1>8. CASE m.ack /\ ~good
  <2>1. PICK r : h = Send(e, r)
    <3>1. h = Answer(e, m)
      BY <1>5, <1>6, <1>8 DEF SynRcvd
    <3> QED BY <3>1, Zenon DEF Answer
  <2>2. IsPcb(e)
    BY <1>2, Zenon DEF Sound
  <2>3. SameSnd(e, h) /\ h.st = e.st /\ h.flags = e.flags
    BY <2>1, <2>2, SendSame
  <2> QED BY <1>4, <1>5, <2>3, PoisedOrdered DEF Opened
<1>9. CASE ~m.ack
  <2>1. h = Rexmit(e) \/ h = e
    BY <1>5, <1>9 DEF SynRcvd
  <2>2. CASE h = e
    BY <1>4, <1>5, <2>2 DEF Ordered
  <2>3. CASE h = Rexmit(e) /\ e.unacked # <<>>
    <3>1. Straight(e) /\ Line(e) /\ Idle(e) /\ Wide(e)
      BY <1>4, Zenon DEF Poised
    <3>2. /\ Same(e, h, {"unsent", "unacked", "nrtx"}) /\ Bent(h)
          /\ h.unacked = Tail(e.unacked)
      BY <1>1, <1>2, <2>3, <3>1, RexmitBends
    <3>3. \A s \in Queued(e) : s.syn
      BY Zenon DEF Good, Sender
    <3>4. h.unacked = <<>>
      BY <1>2, <2>3, <3>1, <3>2, <3>3, OneSyn
    <3>5. Straight(h)
      <4>1. Rising(h.unsent)
        BY <3>2 DEF Bent
      <4>2. Rising(h.unacked) /\ Below(h.unacked, h.unsent)
        <5>1. Len(h.unacked) = 0
          BY <3>4
        <5>2. 1 .. Len(h.unacked) = {}
          BY <5>1
        <5> QED BY <5>2, Zenon DEF Rising, Below
      <4> QED BY <4>1, <4>2 DEF Straight
    <3>6. /\ h.snd_nxt = e.snd_nxt /\ h.lastack = e.lastack /\ h.snd_lbb = e.snd_lbb
          /\ h.snd_wnd = e.snd_wnd /\ h.cwnd = e.cwnd /\ h.slots = e.slots /\ h.drv = e.drv
          /\ h.st = e.st /\ h.flags = e.flags
      BY <3>2 DEF Same, PcbFields
    <3>7. Queued(h) = Queued(e)
      <4>1. Calm(e, h, e, k)
        BY <1>1, <1>2, <2>3, RexmitKeeps
      <4> QED BY <4>1 DEF Calm, Quiet
    <3>8. Line(h)
      BY <3>1, <3>6, <3>7, LineStays DEF Opened, Line, Ending
    <3>9. Idle(h) /\ Wide(h)
      BY <3>1, <3>6, Zenon DEF Idle, Wide
    <3> QED BY <1>4, <1>5, <3>5, <3>6, <3>8, <3>9 DEF Ordered, Poised
  <2>4. CASE h = Rexmit(e) /\ e.unacked = <<>>
    <3>1. h = e
      BY <2>4 DEF Rexmit
    <3> QED BY <1>4, <1>5, <3>1 DEF Ordered
  <2> QED BY <2>1, <2>2, <2>3, <2>4
<1> QED BY <1>7, <1>8, <1>9

\* tcp_process.
LEMMA ProcessOrdered ==
  ASSUME NEW e, NEW p, Good(e, p), Good(p, e), Living(e), InLine(e),
         NEW m \in Sent(p, Reach(p, e))
  PROVE  Ordered(TcpProcess(e, m))
<1>1. PICK h : h = TcpProcess(e, m)
  OBVIOUS
<1>2. IsPcb(e)
  BY GoodParts
<1>3. Poised(e) /\ "ACK_NOW" \notin e.flags
  BY LineIs
<1>4. CASE m.rst
  <2>1. h = [e EXCEPT !.recv_flags = {"RESET"}] \/ h = e
    BY <1>1, <1>4 DEF TcpProcess
  <2>2. CASE h = [e EXCEPT !.recv_flags = {"RESET"}]
    <3>1. Same(e, h, {"recv_flags"})
      BY <1>2, <2>2 DEF IsPcb, PcbFields, Same
    <3>2. SameSnd(e, h) /\ h.st = e.st /\ h.flags = e.flags
      BY <3>1 DEF Same, PcbFields, SameSnd
    <3> QED BY <1>1, <1>3, <3>2, PoisedOrdered DEF Opened
  <2> QED BY <1>1, <1>3, <2>1, <2>2 DEF Ordered
<1>5. CASE ~m.rst
  <2>1. CASE e.st = "SYN_SENT"
    <3>1. h = SynSent(e, m)
      BY <1>1, <1>5, <2>1 DEF TcpProcess
    <3> QED BY <1>1, <1>5, <2>1, <3>1, SynSentOrdered
  <2>2. CASE e.st = "SYN_RCVD"
    <3>1. h = SynRcvd(e, m)
      BY <1>1, <1>5, <2>2 DEF TcpProcess
    <3> QED BY <1>1, <1>5, <2>2, <3>1, SynRcvdOrdered
  <2>3. CASE e.st \notin {"SYN_SENT", "SYN_RCVD"} /\ m.syn
    <3>1. h = AckNow(e)
      BY <1>1, <1>5, <2>3 DEF TcpProcess
    <3>2. Same(e, h, {"flags"})
      BY <1>2, <3>1, AckSame
    <3>3. SameSnd(e, h) /\ h.st = e.st
      BY <3>2 DEF Same, PcbFields, SameSnd
    <3> QED BY <1>1, <1>3, <2>3, <3>3, PoisedOrdered DEF Opened
  <2>4. CASE e.st \notin {"SYN_SENT", "SYN_RCVD"} /\ ~m.syn
    <3>1. h = Connected(e, m)
      BY <1>1, <1>5, <2>4 DEF TcpProcess
    <3>2. e.st \in Linked \ {"SYN_RCVD"}
      <4>1. e.st \in States
        BY Zenon DEF Good, Sender
      <4> QED BY <2>4, <4>1 DEF States, Linked, Living
    <3> QED BY <1>1, <1>5, <3>1, <3>2, ConnectedOrdered, Zenon
  <2> QED BY <2>1, <2>2, <2>3, <2>4
<1> QED BY <1>4, <1>5

-----------------------------------------------------------------------------
(* The callbacks at the end of tcp_input.                                  *)

\* f fits the window of the peer when it lives.
Kind(f) == Living(f) => WindowHolds(f)

LEMMA OrderedLines ==
  ASSUME NEW o, NEW k \in Nat, NEW e, Sound(e, o, k), Ordered(e), Kind(Output(e))
  PROVE  InLine(Output(e))
<1>1. Calm(e, Output(e), o, k)
  BY OutputKeeps
<1>2. Living(e) => WindowHolds(Output(e))
  BY <1>1, Zenon DEF Calm, Quiet, SameCore, Living, Kind
<1>3. Lined(e)
  BY IsLined DEF Ordered
<1> QED BY <1>2, <1>3, OutputLines

\* tcp_recved is only called for data.
LEMMA EventRecvFlags ==
  ASSUME NEW f, IsPcb(f), f.recv_data = <<>>
  PROVE  EventRecv(f).flags = f.flags
<1>1. Len(f.recv_data) = 0
  OBVIOUS
<1>2. PICK got : got = f.got \o f.recv_data
  OBVIOUS
<1>3. PICK h : h = [f EXCEPT !.got = got, !.recv_data = <<>>]
  OBVIOUS
<1>4. PICK n : n = Len(f.recv_data)
  OBVIOUS
<1>5. PICK g : g = EventRecv(f)
  OBVIOUS
<1>6. g = IF f.hold THEN [h EXCEPT !.holded = @ + n] ELSE IF n = 0 THEN h ELSE Recved(h, n)
  BY <1>2, <1>3, <1>4, <1>5, Zenon DEF EventRecv
<1>7. g = [h EXCEPT !.holded = @ + n] \/ g = h
  BY <1>1, <1>4, <1>6
<1> QED BY <1>3, <1>5, <1>7 DEF IsPcb, PcbFields

\* TCP_EVENT_RECV.
LEMMA EventRecvOrdered ==
  ASSUME NEW e, NEW p, NEW f, Handles(e, f, p), Ordered(f), NEW g, g = EventRecv(f), HandsOn(f, g)
  PROVE  Ordered(g) /\ (GotFin(g) <=> GotFin(f)) /\ g.st = f.st
<1>1. Same(f, g, {"got", "recv_data", "holded", "rcv_wnd", "rcv_ann_wnd", "flags"})
  BY Zenon DEF HandsOn
<1>2. SameSnd(f, g)
  BY <1>1, SameIsSnd DEF SndFields
<1>3. g.st = f.st /\ g.recv_flags = f.recv_flags
  BY <1>1 DEF Same, PcbFields
<1>4. GotFin(g) <=> GotFin(f)
  BY <1>3 DEF GotFin
<1>5. (Poised(f) => Poised(g)) /\ (Crooked(f) => Crooked(g))
  BY <1>2, <1>3, PoisedStays DEF Opened
<1>6. "ACK_NOW" \in g.flags => g.st # "SYN_SENT"
  <2>1. SUFFICES ASSUME g.st = "SYN_SENT", "ACK_NOW" \in g.flags PROVE FALSE
    OBVIOUS
  <2>2. IsPcb(f) /\ f.recv_data = <<>>
    BY <1>3, <2>1 DEF Handles, Sound
  <2>3. g.flags = f.flags
    BY <2>2, EventRecvFlags
  <2> QED BY <1>3, <2>1, <2>3 DEF Ordered
<1>7. Living(f) => Living(g)
  BY <1>3 DEF Living
<1> QED BY <1>3, <1>4, <1>5, <1>6, <1>7 DEF Ordered

\* TCP_EVENT_CLOSED.
LEMMA EventClosedOrdered ==
  ASSUME NEW e, NEW g, NEW p, Handles(e, g, p), g.recv_data = <<>>, Ordered(g)
  PROVE  Ordered(EventClosed(g))
<1>1. IsPcb(g) /\ g.rcv_wnd \in Nat /\ Word(g.rcv_wnd)
  BY DEF Handles, Sound, Numbers, Word
<1>2. CASE ~GotFin(g)
  <2>1. EventClosed(g) = g
    BY <1>2, Zenon DEF EventClosed
  <2> QED BY <2>1
<1>3. CASE GotFin(g)
  <2>1. PICK wnd : wnd = IF g.rcv_wnd # TcpWnd THEN U16(g.rcv_wnd + 1) ELSE g.rcv_wnd
    OBVIOUS
  <2>2. Word(wnd)
    <3>1. Word(U16(g.rcv_wnd + 1))
      <4>1. PICK n \in Int : n = g.rcv_wnd + 1
        BY <1>1
      <4>2. Word(U16(n))
        BY U16Is DEF Word
      <4> QED BY <4>1, <4>2
    <3> QED BY <1>1, <2>1, <3>1
  <2>3. PICK f : f = [g EXCEPT !.rcv_wnd = wnd, !.recv_flags = {}]
    OBVIOUS
  <2>4. Same(g, f, {"rcv_wnd", "recv_flags"}) /\ f.rcv_wnd = wnd /\ f.recv_flags = {}
    BY <1>1, <2>3 DEF IsPcb, PcbFields, Same
  <2>5. Poised(g) /\ ("ACK_NOW" \in g.flags => g.st # "SYN_SENT")
    BY <1>3 DEF Ordered
  <2>6. CASE ~Listening(g)
    <3>1. EventClosed(g) = f
      BY <1>3, <2>1, <2>3, <2>6 DEF EventClosed
    <3>2. SameSnd(g, f)
      BY <2>4, SameIsSnd DEF SndFields
    <3>3. f.st = g.st /\ f.flags = g.flags
      BY <2>4 DEF Same, PcbFields
    <3> QED BY <2>5, <3>1, <3>2, <3>3, PoisedOrdered DEF Opened
  <2>7. CASE Listening(g)
    <3>1. EventClosed(g) = CloseAtEof(f)
      BY <1>3, <2>1, <2>3, <2>7 DEF EventClosed
    <3>2. g.st = "CLOSE_WAIT" /\ f.st = g.st
      <4>1. g.st = "CLOSE_WAIT"
        BY <1>3, <2>7, Zenon DEF Handles
      <4> QED BY <2>4, <4>1 DEF Same, PcbFields
    <3>3. Good(f, p)
      BY <2>2, <2>4, HandlesMoves DEF Moves, Steps
    <3>4. Sound(f, f, Reach(f, p))
      BY <3>3, Zenon DEF Good
    <3>5. SameSnd(g, f)
      BY <2>4, SameIsSnd DEF SndFields
    <3>6. Poised(f)
      BY <2>5, <3>2, <3>5, PoisedStays DEF Opened
    <3>7. Poised(CloseAtEof(f)) /\ CloseAtEof(f).st # "SYN_SENT"
      BY <3>2, <3>4, <3>6, CloseAtEofOrdered
    <3> QED BY <3>1, <3>7 DEF Ordered
  <2> QED BY <2>6, <2>7
<1> QED BY <1>2, <1>3

LEMMA OrderedIdle ==
  ASSUME NEW f, Ordered(f)
  PROVE  Idle(f)
BY DEF Ordered, Poised, Crooked

\* The end of tcp_input.
LEMMA FinishLines ==
  ASSUME NEW e, NEW p, Good(e, p), NEW f, Processed(e, f, p) \/ Ends(e, f, p), Ordered(f),
         Kind(Finish(f))
  PROVE  InLine(Finish(f))
<1>1. PICK h : h = Finish(f)
  OBVIOUS
<1>2. IsPcb(f) /\ Idle(f)
  <2>1. Before(e, f, p)
    BY Zenon DEF Processed, Ends
  <2> QED BY <2>1, OrderedIdle DEF Before
<1>3. CASE Ends(e, f, p)
  <2>1. "RESET" \in f.recv_flags \/ "CLOSED" \in f.recv_flags
    BY <1>3 DEF Ends
  <2>2. PICK err : h = Gone(f, err)
    <3>1. h = Fails(f) \/ h = Gone(f, f.err)
      BY <1>1, <2>1 DEF Finish
    <3> QED BY <3>1, Zenon DEF Fails
  <2> QED BY <1>1, <1>2, <2>2, GonePoised
<1>4. CASE Processed(e, f, p)
  <2>1. Handles(e, f, p)
    BY <1>4, Zenon DEF Processed
  <2>2. h = IF f.recv_data # <<>> /\ "RXCLOSED" \in f.flags THEN Abort(f)
            ELSE Output(EventClosed(EventRecv(f)))
    <3>1. f.recv_flags \in {{}, {"GOT_FIN"}}
      BY <2>1, Zenon DEF Handles
    <3>2. /\ "RESET" \notin f.recv_flags /\ "CLOSED" \notin f.recv_flags
          /\ f.recv_flags \cap {"RESET", "CLOSED"} = {}
      BY <3>1
    <3> QED BY <1>1, <3>2 DEF Finish
  <2>3. CASE f.recv_data # <<>> /\ "RXCLOSED" \in f.flags
    <3>1. PICK r : r = Reset(f.snd_nxt, f.rcv_nxt)
      OBVIOUS
    <3>2. PICK g : g = IF f.st = "TIME_WAIT" THEN f ELSE Send(f, r)
      OBVIOUS
    <3>3. PICK err : h = Gone(g, err)
      <4>1. h = Abort(f)
        BY <2>2, <2>3
      <4>2. CASE f.st = "TIME_WAIT"
        BY <3>2, <4>1, <4>2 DEF Abort
      <4>3. CASE f.st # "TIME_WAIT"
        <5>1. h = Fails(g)
          BY <3>1, <3>2, <4>1, <4>3 DEF Abort
        <5> QED BY <5>1, Zenon DEF Fails
      <4> QED BY <4>2, <4>3
    <3>4. Idle(g)
      <4>1. SameSnd(f, Send(f, r))
        BY <1>2, SendSame
      <4> QED BY <1>2, <3>2, <4>1 DEF SameSnd, Idle
    <3> QED BY <1>1, <3>3, <3>4, GonePoised
  <2>4. CASE ~(f.recv_data # <<>> /\ "RXCLOSED" \in f.flags)
    <3>1. PICK g : g = EventRecv(f)
      OBVIOUS
    <3>2. PICK i : i = EventClosed(g)
      OBVIOUS
    <3>3. h = Output(i)
      BY <2>2, <2>4, <3>1, <3>2
    <3>4. HandsOn(f, g)
      <4>1. Windows(f) /\ f.holded \in Nat
        BY <2>1 DEF Handles, Sound, Numbers, Windows
      <4>2. f.recv_data \in Seq(Nat)
        BY <2>1, Zenon DEF Handles, Stream
      <4> QED BY <1>2, <3>1, <4>1, <4>2, EventRecvHands, Zenon
    <3>5. Handles(e, g, p) /\ g.recv_data = <<>>
      <4>1. Len(e.got) \in Nat
        BY LenProperties DEF Good, Stream
      <4> QED BY <2>1, <3>4, <4>1, HandsOnKeeps, Zenon
    <3>6. Ordered(g)
      BY <2>1, <3>1, <3>4, EventRecvOrdered
    <3>7. Ordered(i)
      BY <3>2, <3>5, <3>6, EventClosedOrdered
    <3>8. Good(i, p)
      BY <3>2, <3>5, EventClosedMoves DEF Moves, Steps, Good
    <3>9. Sound(i, i, Reach(i, p)) /\ Reach(i, p) \in Nat
      BY <3>8, GoodParts, Zenon DEF Good
    <3> QED BY <1>1, <3>3, <3>7, <3>9, OrderedLines
  <2> QED BY <2>3, <2>4
<1> QED BY <1>3, <1>4

-----------------------------------------------------------------------------
(* tcp_input.                                                              *)

\* A pcb that only sends a reset.
LEMMA ResetLines ==
  ASSUME NEW e, IsPcb(e), InLine(e), NEW r
  PROVE  InLine(Send(e, r))
<1>1. SameSnd(e, Send(e, r)) /\ Send(e, r).st = e.st /\ Send(e, r).flags = e.flags
  BY SendSame
<1>2. Poised(e) /\ "ACK_NOW" \notin e.flags
  BY LineIs
<1>3. Poised(Send(e, r))
  BY <1>1, <1>2, PoisedStays DEF Opened
<1> QED BY <1>1, <1>2, <1>3, PoisedIs

LEMMA AnswerLines ==
  ASSUME NEW e, IsPcb(e), InLine(e), NEW m
  PROVE  InLine(Answer(e, m)) /\ InLine(NoPcb(e, m))
<1>1. InLine(Answer(e, m))
  BY ResetLines DEF Answer
<1> QED BY <1>1 DEF NoPcb

\* tcp_timewait_input.
LEMMA TimeWaitInputLines ==
  ASSUME NEW e, NEW p, Good(e, p), e.st = "TIME_WAIT", InLine(e), NEW m
  PROVE  InLine(TimeWaitInput(e, m))
<1>1. PICK h : h = TimeWaitInput(e, m)
  OBVIOUS
<1>2. h = e \/ h = Answer(e, m) \/ h = Output(AckNow(e))
  BY <1>1 DEF TimeWaitInput
<1>3. PICK k \in Nat : k = Reach(e, p)
  BY GoodParts
<1>4. Sound(e, e, k)
  BY <1>3, Zenon DEF Good
<1>5. IsPcb(e)
  BY GoodParts
<1>6. InLine(Answer(e, m))
  BY <1>5, AnswerLines
<1>7. InLine(Output(AckNow(e)))
  <2>1. PICK f : f = AckNow(e)
    OBVIOUS
  <2>2. Sound(f, e, k) /\ Same(e, f, {"flags"})
    BY <1>3, <1>4, <1>5, <2>1, FlagsKeep, AckSame
  <2>3. SameSnd(e, f) /\ f.st = "TIME_WAIT"
    BY <2>2 DEF Same, PcbFields, SameSnd
  <2>4. Ordered(f)
    BY <2>3, LineIs, PoisedOrdered DEF Opened
  <2>5. Output(f).st = f.st
    <3>1. Calm(f, Output(f), e, k)
      BY <2>2, OutputKeeps
    <3> QED BY <3>1 DEF Calm, Quiet, SameCore
  <2>6. Kind(Output(f))
    BY <2>3, <2>5 DEF Kind, Living
  <2> QED BY <2>1, <2>2, <2>4, <2>6, OrderedLines
<1> QED BY <1>1, <1>2, <1>6, <1>7

\* tcp_listen_input.
LEMMA ListenInputLines ==
  ASSUME NEW e, NEW p, Good(e, p), e.st \in {"LISTEN", "GONE"}, InLine(e),
         NEW m \in Datagram, Genuine(m, p), Kind(ListenInput(e, m))
  PROVE  InLine(ListenInput(e, m))
<1>1. PICK h : h = ListenInput(e, m)
  OBVIOUS
<1>2. CASE m.ack
  <2>1. PICK r : h = Send(e, r)
    BY <1>1, <1>2 DEF ListenInput
  <2>2. IsPcb(e)
    BY GoodParts
  <2> QED BY <1>1, <2>1, <2>2, ResetLines
<1>3. CASE ~m.ack /\ m.syn /\ e.st = "LISTEN"
  <2>1. PICK g : g = Output(EnqueueFlags(
                    [e EXCEPT !.st = "SYN_RCVD", !.rcv_nxt = m.seq + 1,
                              !.rcv_ann_right_edge = m.seq + 1, !.snd_wnd = m.wnd,
                              !.snd_wl1 = m.seq - 1], TRUE, FALSE))
    OBVIOUS
  <2>2. h = g
    BY <1>1, <1>3, <2>1 DEF ListenInput
  <2>3. Living(g) => WindowHolds(g)
    BY <1>1, <2>2, Zenon DEF Kind
  <2> QED BY <1>1, <1>3, <2>1, <2>2, <2>3, AcceptLines, Zenon
<1>4. CASE ~m.ack /\ ~(m.syn /\ e.st = "LISTEN")
  <2>1. h = e
    BY <1>1, <1>4 DEF ListenInput
  <2> QED BY <1>1, <2>1
<1> QED BY <1>2, <1>3, <1>4

\* tcp_input.
LEMMA InputLines ==
  ASSUME NEW e, NEW p, Good(e, p), Good(p, e),
         e.st \in {"ESTABLISHED", "CLOSE_WAIT"} => EndsTheStream(e), InLine(e),
         NEW m \in Sent(p, Reach(p, e)), Kind(TcpInputSegment(e, m))
  PROVE  InLine(TcpInputSegment(e, m))
<1>1. PICK h : h = TcpInputSegment(e, m)
  OBVIOUS
<1>2. m \in Datagram /\ Genuine(m, p)
  BY Zenon DEF Sent
<1>3. IsPcb(e)
  BY GoodParts
<1>4. CASE e.st \in {"LISTEN", "GONE"}
  <2>1. h = ListenInput(e, m) \/ h = NoPcb(e, m)
    BY <1>1, <1>4 DEF TcpInputSegment
  <2>2. InLine(NoPcb(e, m))
    BY <1>3, AnswerLines
  <2>3. h = ListenInput(e, m) => InLine(h)
    BY <1>1, <1>2, <1>4, ListenInputLines
  <2> QED BY <1>1, <2>1, <2>2, <2>3
<1>5. CASE e.st = "CLOSED"
  <2>1. h = NoPcb(e, m)
    BY <1>1, <1>5 DEF TcpInputSegment
  <2> QED BY <1>1, <1>3, <2>1, AnswerLines
<1>6. CASE e.st = "TIME_WAIT"
  <2>1. h = TimeWaitInput(e, m)
    BY <1>1, <1>6 DEF TcpInputSegment
  <2> QED BY <1>1, <1>6, <2>1, TimeWaitInputLines
<1>7. CASE e.st \notin {"LISTEN", "GONE", "CLOSED", "TIME_WAIT"}
  <2>1. h = Finish(TcpProcess(e, m))
    BY <1>1, <1>7 DEF TcpInputSegment
  <2>2. Living(e)
    BY <1>7 DEF Living
  <2>3. Processed(e, TcpProcess(e, m), p) \/ Ends(e, TcpProcess(e, m), p)
    BY <2>2, ProcessKeeps
  <2>4. Ordered(TcpProcess(e, m))
    BY <2>2, ProcessOrdered
  <2> QED BY <1>1, <2>1, <2>3, <2>4, FinishLines, Zenon
<1> QED BY <1>4, <1>5, <1>6, <1>7

-----------------------------------------------------------------------------
(* The timers and the calls of the application.                            *)

LEMMA GoodLines ==
  ASSUME NEW e, NEW p, Good(e, p), Ordered(e), Kind(Output(e))
  PROVE  InLine(Output(e))
<1>1. Sound(e, e, Reach(e, p)) /\ Reach(e, p) \in Nat
  BY GoodParts, Zenon DEF Good
<1> QED BY <1>1, OrderedLines

\* One more element at the end of a sequence.
LEMMA OneBehind ==
  ASSUME NEW A, NEW x \in Seq(A), NEW s \in A
  PROVE  /\ x \o <<s>> \in Seq(A) /\ Len(x \o <<s>>) = Len(x) + 1
         /\ \A j \in 1 .. Len(x) : (x \o <<s>>)[j] = x[j]
         /\ (x \o <<s>>)[Len(x) + 1] = s
<1>1. Append(x, s) = x \o <<s>>
  BY AppendIsConcat
<1>2. /\ Append(x, s) \in Seq(A) /\ Len(Append(x, s)) = Len(x) + 1
      /\ \A j \in 1 .. Len(x) : Append(x, s)[j] = x[j]
      /\ Append(x, s)[Len(x) + 1] = s
  BY AppendProperties
<1>3. PICK y : y = Append(x, s)
  OBVIOUS
<1>4. /\ y \in Seq(A) /\ Len(y) = Len(x) + 1 /\ y[Len(x) + 1] = s
      /\ \A j \in 1 .. Len(x) : y[j] = x[j]
  BY <1>2, <1>3, Zenon
<1>5. y = x \o <<s>>
  BY <1>1, <1>3, Zenon
<1> QED BY <1>4, <1>5, Zenon

\* tcp_rexmit_rto takes all of unacked when the driver has nothing.
LEMMA PickedAll ==
  ASSUME NEW A, NEW q \in Seq(A)
  PROVE  Picked(q, DOMAIN q) = q /\ Picked(q, {}) = <<>>
<1>1. PICK n \in Nat : n = Len(q) /\ DOMAIN q = 1 .. n /\ \A i \in 1 .. n : q[i] \in A
  BY LenProperties, ElementOfSeq
<1>2. PICK I : I = DOMAIN q
  OBVIOUS
<1> DEFINE add(i) == IF i \in I THEN <<q[i]>> ELSE <<>>
           next(x, i) == x \o add(i)
<1>3. PICK p : /\ p = [i \in 0 .. n |-> IF i = 0 THEN <<>> ELSE next(p[i - 1], i)]
               /\ Picked(q, I) = p[n]
  BY <1>1, PickedLoop
<1> DEFINE Made(i) == p[i] \in Seq(A) /\ Len(p[i]) = i /\ \A j \in 1 .. i : p[i][j] = q[j]
           S == {i \in Nat : i <= n => Made(i)}
<1>4. 0 \in S
  <2>1. p[0] = <<>>
    BY <1>3
  <2>2. <<>> \in Seq(A) /\ Len(<<>>) = 0
    BY EmptySeq
  <2>3. 1 .. 0 = {}
    OBVIOUS
  <2>4. Made(0)
    BY <2>1, <2>2, <2>3
  <2> HIDE DEF Made
  <2> QED BY <2>4
<1>5. ASSUME NEW i \in Nat, i \in S PROVE i + 1 \in S
  <2>1. SUFFICES ASSUME i + 1 <= n PROVE Made(i + 1)
    OBVIOUS
  <2>2. Made(i)
    BY <1>1, <1>5, <2>1
  <2>3. p[i + 1] = next(p[i], i + 1)
    <3> HIDE DEF next
    <3>1. \A j \in 1 .. n : p[j] = next(p[j - 1], j)
      BY <1>1, <1>3
    <3>2. i + 1 \in 1 .. n /\ i + 1 - 1 = i
      BY <1>1, <2>1
    <3> QED BY <3>1, <3>2
  <2>4. i + 1 \in I /\ q[i + 1] \in A
    BY <1>1, <1>2, <2>1
  <2>5. PICK one : one = <<q[i + 1]>>
    OBVIOUS
  <2>6. p[i + 1] = p[i] \o one
    BY <2>3, <2>4, <2>5
  <2>7. one \in Seq(A) /\ Len(one) = 1 /\ one[1] = q[i + 1]
    BY <2>4, <2>5
  <2>8. PICK x, y : x = p[i] /\ y = p[i + 1]
    OBVIOUS
  <2>9. x \in Seq(A) /\ Len(x) = i /\ \A j \in 1 .. i : x[j] = q[j]
    BY <2>2, <2>8
  <2>10. y = x \o one
    BY <2>6, <2>8
  <2>11. y \in Seq(A) /\ Len(y) = i + 1 /\ \A j \in 1 .. i + 1 : y[j] = q[j]
    <3> HIDE DEF S, Made, next
    <3>1. q[i + 1] \in A /\ one = <<q[i + 1]>>
      BY <2>4, <2>5
    <3>2. y = x \o <<q[i + 1]>>
      BY <2>10, <3>1
    <3>3. PICK s : s = q[i + 1]
      OBVIOUS
    <3>4. s \in A /\ y = x \o <<s>>
      BY <3>1, <3>2, <3>3
    <3>5. /\ y \in Seq(A) /\ Len(y) = Len(x) + 1 /\ y[Len(x) + 1] = s
          /\ \A j \in 1 .. Len(x) : y[j] = x[j]
      <4>1. /\ x \o <<s>> \in Seq(A) /\ Len(x \o <<s>>) = Len(x) + 1
            /\ \A j \in 1 .. Len(x) : (x \o <<s>>)[j] = x[j]
            /\ (x \o <<s>>)[Len(x) + 1] = s
        BY <2>9, <3>4, OneBehind, Zenon
      <4> QED BY <3>4, <4>1, Zenon
    <3>6. Len(x) = i
      BY <2>9
    <3>7. Len(y) = i + 1 /\ y[i + 1] = q[i + 1]
      BY <3>3, <3>5, <3>6
    <3>8. \A j \in 1 .. i : y[j] = q[j]
      BY <2>9, <3>5, <3>6
    <3>9. ASSUME NEW j \in 1 .. i + 1 PROVE y[j] = q[j]
      <4>1. j \in 1 .. i \/ j = i + 1
        BY <1>5, <3>9
      <4> QED BY <3>7, <3>8, <4>1
    <3> QED BY <3>5, <3>7, <3>9
  <2> QED BY <2>8, <2>11
<1>6. Made(n)
  <2> HIDE DEF Made
  <2>1. Nat \subseteq S
    <3> HIDE DEF S
    <3> QED BY <1>4, <1>5, Climbs
  <2> QED BY <1>1, <2>1
<1>7. p[n] = q
  <2>1. PICK x : x = p[n]
    OBVIOUS
  <2>2. x \in Seq(A) /\ Len(x) = n /\ \A j \in 1 .. n : x[j] = q[j]
    BY <1>6, <2>1
  <2>3. x = q
    <3> HIDE DEF S, Made, next
    <3>1. q \in [1 .. n -> A] /\ x \in [1 .. n -> A]
      BY <1>1, <2>2, LenProperties
    <3> QED BY <2>2, <3>1
  <2> QED BY <2>1, <2>3
<1>8. Picked(q, {}) = <<>>
  <2>1. PICK x : x = Picked(q, {})
    OBVIOUS
  <2>2. x \in Seq(A) /\ Range(x) = {q[i] : i \in {} \cap DOMAIN q}
    BY <2>1, PickedKeeps
  <2>3. Range(x) = {}
    BY <2>2
  <2>4. SUFFICES ASSUME x # <<>> PROVE FALSE
    BY <2>1
  <2>5. 1 \in 1 .. Len(x)
    BY <2>2, <2>4, EmptySeq
  <2>6. x[1] \in Range(x)
    BY <2>2, <2>5, PlaceOf
  <2> QED BY <2>3, <2>6
<1> QED BY <1>2, <1>3, <1>7, <1>8

\* The retransmission timer.
LEMMA RtoLines ==
  ASSUME NEW e, NEW p, Good(e, p), Living(e), InLine(e),
         Kind(RexmitRto([e EXCEPT !.cwnd = Mss]))
  PROVE  InLine(RexmitRto([e EXCEPT !.cwnd = Mss]))
<1>1. PICK k \in Nat : k = Reach(e, p)
  BY GoodParts
<1>2. Sound(e, e, k)
  BY <1>1, Zenon DEF Good
<1>3. PICK A : A = Segs(e)
  OBVIOUS
<1>4. e.unsent \in Seq(A) /\ e.unacked \in Seq(A)
  BY <1>2, <1>3 DEF Sound, Queues
<1>5. Poised(e) /\ "ACK_NOW" \notin e.flags
  BY LineIs
<1>6. PICK w : w = Mss
  OBVIOUS
<1>7. PICK c : c = [e EXCEPT !.cwnd = w]
  OBVIOUS
<1>8. c.cwnd = w /\ Same(e, c, {"cwnd"})
  BY <1>2, <1>7 DEF Sound, IsPcb, PcbFields, Same
<1>9. c.unsent = e.unsent /\ c.unacked = e.unacked /\ c.drv = e.drv
  BY <1>8 DEF Same, PcbFields
<1>10. \A s : ~Held(c, s)
  <2>1. e.drv = <<>>
    BY <1>5 DEF Poised, Idle
  <2>2. DOMAIN c.drv = {}
    BY <1>9, <2>1
  <2> QED BY <2>2 DEF Held
<1>11. PICK I : I = {i \in DOMAIN c.unacked : Held(c, c.unacked[i])}
  OBVIOUS
<1>12. I = {}
  BY <1>10, <1>11
<1>13. PICK n : n = Again(c.nrtx)
  OBVIOUS
<1>14. PICK q : q = e.unacked \o e.unsent
  OBVIOUS
<1>15. PICK f : f = [c EXCEPT !.unacked = <<>>, !.unsent = q, !.nrtx = n]
  OBVIOUS
<1>16. RexmitRto(c) = Output(f)
  <2>1. RexmitRto(c) = Output([c EXCEPT !.unacked = Picked(@, I),
                                        !.unsent = Picked(c.unacked, DOMAIN c.unacked \ I) \o @,
                                        !.nrtx = Again(@)])
    BY <1>11, Zenon DEF RexmitRto
  <2>2. DOMAIN c.unacked \ I = DOMAIN c.unacked
    BY <1>12
  <2>3. Picked(c.unacked, I) = <<>> /\ Picked(c.unacked, DOMAIN c.unacked) = c.unacked
    BY <1>4, <1>9, <1>12, PickedAll
  <2> QED BY <1>9, <1>13, <1>14, <1>15, <2>1, <2>2, <2>3
<1>17. /\ f.unacked = <<>> /\ f.unsent = q
       /\ Same(e, f, {"unsent", "unacked", "nrtx", "cwnd"}) /\ f.cwnd = w
  BY <1>8, <1>15 DEF IsPcb, PcbFields, Same
<1>18. /\ f.snd_nxt = e.snd_nxt /\ f.lastack = e.lastack /\ f.snd_lbb = e.snd_lbb
       /\ f.snd_wnd = e.snd_wnd /\ f.slots = e.slots /\ f.drv = e.drv
       /\ f.st = e.st /\ f.flags = e.flags /\ f.dupacks = e.dupacks
  BY <1>17 DEF Same, PcbFields
<1>19. q \in Seq(A) /\ Range(q) = Range(e.unacked) \cup Range(e.unsent)
  BY <1>4, <1>14, ConcatProperties, RangeConcatenation
<1>20. Queued(f) = Queued(e)
  <2>1. Range(f.unacked) = {}
    BY <1>17 DEF Range
  <2> QED BY <1>17, <1>19, <2>1 DEF Queued
<1>21. Sound(f, e, k)
  <2>1. Same(e, f, {"unsent", "unacked", "timing", "persist", "nrtx", "dupacks", "cwnd",
                    "snd_wnd", "snd_wl1", "snd_wl2", "flags"})
    BY <1>17 DEF Same
  <2>2. Listening(f) <=> Listening(e)
    BY <1>18, Zenon DEF Listening
  <2>3. f.unacked \in Seq(A)
    BY <1>17
  <2>4. f.dupacks \in Nat
    BY <1>2, <1>18 DEF Sound, Numbers
  <2>5. Calm(e, f, e, k)
    BY <1>2, <1>3, <1>17, <1>19, <1>20, <2>1, <2>2, <2>3, <2>4, RequeuedIsCalm
  <2> QED BY <2>5 DEF Calm
<1>22. Straight(f)
  <2>1. Rising(e.unacked) /\ Rising(e.unsent) /\ Below(e.unacked, e.unsent)
    BY <1>5 DEF Poised, Straight
  <2>2. Rising(q)
    BY <1>4, <1>14, <2>1, JoinRises
  <2>3. Rising(f.unacked) /\ Below(f.unacked, f.unsent)
    <3>1. Len(f.unacked) = 0
      BY <1>17
    <3>2. 1 .. Len(f.unacked) = {}
      BY <3>1
    <3> QED BY <3>2, Zenon DEF Rising, Below
  <2> QED BY <1>17, <2>2, <2>3 DEF Straight
<1>23. Line(f)
  BY <1>5, <1>18, <1>20, LineStays DEF Poised, Opened, Line, Ending
<1>24. Idle(f) /\ Wide(f)
  <2>1. w \in Nat /\ w >= Mss
    BY <1>6, TcpAssumption
  <2> QED BY <1>5, <1>17, <1>18, <2>1 DEF Poised, Idle, Wide
<1>25. Ordered(f)
  BY <1>5, <1>18, <1>22, <1>23, <1>24 DEF Ordered, Poised
<1>26. Kind(Output(f))
  BY <1>6, <1>7, <1>16, Zenon
<1>27. InLine(Output(f))
  BY <1>21, <1>25, <1>26, OrderedLines
<1> QED BY <1>6, <1>7, <1>16, <1>27, Zenon

\* The persist timer.
LEMMA PersistLines ==
  ASSUME NEW e, IsPcb(e), InLine(e)
  PROVE  InLine(ZeroWindowProbe(e))
<1>1. PICK f : f = ZeroWindowProbe(e)
  OBVIOUS
<1>2. PICK m : f = e \/ f = Announced(Send(e, m))
  BY <1>1, Zenon DEF ZeroWindowProbe
<1>3. SameSnd(e, Announced(Send(e, m))) /\ Announced(Send(e, m)).st = e.st
      /\ Announced(Send(e, m)).flags = e.flags
  BY DEF Announced, Send, IsPcb, PcbFields, SameSnd
<1>4. Poised(e) /\ "ACK_NOW" \notin e.flags
  BY LineIs
<1>5. Poised(Announced(Send(e, m)))
  BY <1>3, <1>4, PoisedStays DEF Opened
<1>6. InLine(Announced(Send(e, m)))
  BY <1>3, <1>4, <1>5, PoisedIs
<1> QED BY <1>1, <1>2, <1>6

\* A step that touches nothing the sender has.
LEMMA AsideLines ==
  ASSUME NEW e, InLine(e), NEW f, NEW S, Same(e, f, S), S \cap (SndFields \cup {"st", "flags"}) = {}
  PROVE  InLine(f)
<1>1. SameSnd(e, f)
  BY SameIsSnd
<1>2. f.st = e.st /\ f.flags = e.flags
  BY DEF Same, PcbFields
<1>3. Poised(e) /\ "ACK_NOW" \notin e.flags
  BY LineIs
<1>4. Poised(f)
  BY <1>1, <1>2, <1>3, PoisedStays DEF Opened
<1> QED BY <1>2, <1>3, <1>4, PoisedIs

\* espconn_recv_hold and the timeout of ooseq.
LEMMA HoldLines ==
  ASSUME NEW e, IsPcb(e), InLine(e)
  PROVE  InLine([e EXCEPT !.hold = TRUE, !.holded = 0]) /\ InLine([e EXCEPT !.ooseq = <<>>])
<1>1. PICK f, g : f = [e EXCEPT !.hold = TRUE, !.holded = 0] /\ g = [e EXCEPT !.ooseq = <<>>]
  OBVIOUS
<1>2. Same(e, f, {"hold", "holded"}) /\ Same(e, g, {"ooseq"})
  BY <1>1 DEF IsPcb, PcbFields, Same
<1>3. InLine(f)
  BY <1>2, AsideLines DEF SndFields
<1>4. InLine(g)
  BY <1>2, AsideLines DEF SndFields
<1> QED BY <1>1, <1>3, <1>4

\* espconn_recv_unhold, with the tcp_output of tcp_recved.
LEMMA UnholdLines ==
  ASSUME NEW e, NEW p, Good(e, p), e.st \in {"ESTABLISHED", "CLOSE_WAIT"}, InLine(e),
         NEW f, f = Recved([e EXCEPT !.hold = FALSE, !.holded = 0], e.holded),
         Kind(IF "ACK_NOW" \in f.flags THEN Output(f) ELSE f)
  PROVE  InLine(IF "ACK_NOW" \in f.flags THEN Output(f) ELSE f)
<1>1. Good(f, p)
  BY UnholdMoves DEF Moves, Steps
<1>2. PICK g : g = [e EXCEPT !.hold = FALSE, !.holded = 0]
  OBVIOUS
<1>3. Same(e, g, {"hold", "holded"})
  BY <1>2, GoodParts DEF IsPcb, PcbFields, Same
<1>4. Windows(g) /\ IsPcb(g)
  <2>1. Windows(e)
    BY GoodParts
  <2> QED BY <1>3, <2>1 DEF Same, PcbFields, Windows
<1>5. Same(g, f, {"rcv_wnd", "rcv_ann_wnd", "flags"})
  BY <1>2, <1>4, GoodParts, RecvedKeeps, Zenon
<1>6. SameSnd(e, f) /\ f.st = e.st
  BY <1>3, <1>5 DEF Same, PcbFields, SameSnd
<1>7. Poised(e)
  BY LineIs
<1>8. Poised(f) /\ Ordered(f)
  BY <1>6, <1>7, PoisedStays, PoisedOrdered DEF Opened
<1>9. CASE "ACK_NOW" \in f.flags
  BY <1>1, <1>8, <1>9, GoodLines
<1>10. CASE "ACK_NOW" \notin f.flags
  BY <1>8, <1>10, PoisedIs
<1> QED BY <1>9, <1>10

\* TCP_EVENT_POLL.
LEMMA PollLines ==
  ASSUME NEW e, NEW p, Good(e, p), e.st \notin {"CLOSED", "LISTEN", "GONE"}, InLine(e),
         e.st = "CLOSE_WAIT" => EndsTheStream(e), Kind(Output(Polled(e)))
  PROVE  InLine(Output(Polled(e)))
<1>1. Good(Polled(e), p)
  BY PolledMoves DEF Moves, Steps
<1>2. Ordered(Polled(e))
  <2>1. Poised(e) /\ Ordered(e)
    BY LineIs DEF Ordered
  <2>2. CASE e.listens /\ e.st = "CLOSE_WAIT"
    <3>1. Polled(e) = CloseAtEof(e)
      BY <2>2 DEF Polled
    <3>2. Sound(e, e, Reach(e, p))
      BY Zenon DEF Good
    <3> QED BY <2>1, <2>2, <3>1, <3>2, CloseAtEofOrdered DEF Ordered
  <2>3. CASE ~(e.listens /\ e.st = "CLOSE_WAIT")
    BY <2>1, <2>3 DEF Polled
  <2> QED BY <2>2, <2>3
<1> QED BY <1>1, <1>2, GoodLines

\* tcp_fasttmr.
LEMMA DelayedAckLines ==
  ASSUME NEW e, NEW p, Good(e, p), InLine(e), Kind(NoAckDue(Output(AckNow(e))))
  PROVE  InLine(NoAckDue(Output(AckNow(e))))
<1>1. PICK f, g : f = AckNow(e) /\ g = Output(f)
  OBVIOUS
<1>2. PICK h : h = NoAckDue(g)
  OBVIOUS
<1>3. IsPcb(e)
  BY GoodParts
<1>4. Same(e, f, {"flags"}) /\ (Listening(f) <=> Listening(e))
  BY <1>1, <1>3, AckSame
<1>5. Good(f, p)
  BY <1>4, FlagsMove
<1>6. SameSnd(e, f) /\ f.st = e.st
  BY <1>4 DEF Same, PcbFields, SameSnd
<1>7. Poised(f)
  BY <1>6, LineIs, PoisedStays DEF Opened
<1>8. Sound(f, f, Reach(f, p)) /\ Reach(f, p) \in Nat
  BY <1>5, GoodParts, Zenon DEF Good
<1>9. IsPcb(g) /\ g.st = f.st
  <2>1. Calm(f, g, f, Reach(f, p))
    BY <1>1, <1>8, OutputKeeps
  <2> QED BY <2>1 DEF Calm, Quiet, SameCore, Sound
<1>10. Same(g, h, {"flags"}) /\ h.flags = g.flags \ {"ACK_NOW", "ACK_DELAY"}
  BY <1>2, <1>9 DEF NoAckDue, IsPcb, PcbFields, Same
<1>11. SameSnd(g, h) /\ h.st = g.st
  BY <1>10 DEF Same, PcbFields, SameSnd
<1>12. Living(f) => WindowHolds(g)
  <2>1. Kind(h)
    BY <1>1, <1>2
  <2> QED BY <1>9, <1>11, <2>1, Zenon DEF Kind, Living, WindowHolds, SameSnd
<1>13. Poised(g)
  BY <1>1, <1>7, <1>8, <1>12, OutputKeepsLine DEF Poised
<1>14. Poised(h)
  BY <1>11, <1>13, PoisedStays DEF Opened
<1>15. InLine(h)
  BY <1>10, <1>14, PoisedIs
<1> QED BY <1>1, <1>2, <1>15

\* espconn_disconnect.
LEMMA DisconnectLines ==
  ASSUME NEW e, NEW p, Good(e, p), e.st \in {"SYN_SENT", "ESTABLISHED", "CLOSE_WAIT"},
         InLine(e), e.st \in {"ESTABLISHED", "CLOSE_WAIT"} => EndsTheStream(e),
         NEW f, f = TcpClose(e),
         Kind(IF f.st \in {"FIN_WAIT_1", "LAST_ACK"} THEN Output(f) ELSE f)
  PROVE  InLine(IF f.st \in {"FIN_WAIT_1", "LAST_ACK"} THEN Output(f) ELSE f)
<1>1. Sound(e, e, Reach(e, p)) /\ Reach(e, p) \in Nat /\ IsPcb(e)
  BY GoodParts, Zenon DEF Good
<1>2. Poised(e) /\ "ACK_NOW" \notin e.flags
  BY LineIs
<1>3. CASE CloseFails(e)
  <2>1. f = CloseFailed(e)
    BY <1>3 DEF TcpClose
  <2>2. Poised(f) /\ f.st = e.st /\ "ACK_NOW" \notin f.flags
    BY <1>1, <1>2, <2>1, CloseFailPoised
  <2>3. InLine(f) /\ f.st \notin {"FIN_WAIT_1", "LAST_ACK"}
    BY <2>2, PoisedIs
  <2> QED BY <2>3
<1>4. CASE ~CloseFails(e)
  <2>1. f = CloseDone(e)
    BY <1>4 DEF TcpClose
  <2>2. Poised(f) /\ "ACK_NOW" \notin f.flags
    BY <1>1, <1>2, <2>1, ClosePoised
  <2>3. CASE f.st \notin {"FIN_WAIT_1", "LAST_ACK"}
    BY <2>2, <2>3, PoisedIs
  <2>4. CASE f.st \in {"FIN_WAIT_1", "LAST_ACK"}
    <3>1. Ordered(f)
      BY <2>2 DEF Ordered
    <3>2. e.st # "SYN_SENT"
      <4>1. SUFFICES ASSUME e.st = "SYN_SENT" PROVE FALSE
        OBVIOUS
      <4>2. PICK r : r = [e EXCEPT !.flags = @ \cup {"RXCLOSED", "UNREGISTERED"}]
        OBVIOUS
      <4>3. IsPcb(r) /\ r.st = "SYN_SENT"
        BY <1>1, <4>1, <4>2 DEF IsPcb, PcbFields
      <4>4. PICK t : t = Send(r, Reset(r.snd_nxt, r.rcv_nxt))
        OBVIOUS
      <4>5. IsPcb(t)
        BY <4>3, <4>4 DEF Send, IsPcb, PcbFields
      <4>6. f = TimeWait(t) \/ f = Gone(r, r.err)
        BY <2>1, <4>2, <4>3, <4>4 DEF CloseDone
      <4>7. TimeWait(t).st = "TIME_WAIT"
        BY <4>5 DEF TimeWait, Purge, IsPcb, PcbFields
      <4>8. Gone(r, r.err).st = "GONE"
        BY <4>3 DEF Gone, Alloc, IsPcb, PcbFields
      <4> QED BY <2>4, <4>6, <4>7, <4>8
    <3>3. Good(f, p)
      <4>1. ~Over(e) /\ e.snd_lbb = e.written + 1
        BY <3>2 DEF Over, Good, Sender
      <4>2. Len(e.got) <= Len(e.got)
        <5>1. PICK l \in Nat : l = Len(e.got)
          BY LenProperties DEF Good, Stream
        <5> QED BY <5>1
      <4>3. e.written \in Nat
        BY GoodParts
      <4>4. Ready(e, e, p)
        BY <4>1, <4>2, <4>3, Zenon DEF Ready, Good
      <4>5. Placed(e, p) /\ EndsTheStream(e) /\ AllCovered(e, p)
        BY <3>2 DEF Good, Linked, Living
      <4>6. Moves(e, CloseDone(e), p)
        BY <3>2, <4>4, <4>5, CloseDoneMoves
      <4> QED BY <2>1, <4>6 DEF Moves, Steps
    <3> QED BY <2>4, <3>1, <3>3, GoodLines
  <2> QED BY <2>3, <2>4
<1> QED BY <1>3, <1>4

-----------------------------------------------------------------------------
(* The two ends and the network.                                           *)

\* One end: with no driver in between its queues are in line, and an
\* application without a byte to write has written none.
OneInLine(h, e) ==
  /\ Slots[h] = 0 => InLine(e)
  /\ Budget[h] = 0 => e.written = 0
AllInLine == Connection /\ \A h \in Hosts : OneInLine(h, pcb[h])

\* Without a byte to write nothing but a SYN or a FIN is ever queued.
LEMMA MuteAppends ==
  ASSUME NEW o, NEW k, NEW e, Sound(e, o, k), o.written = 0
  PROVE  EndsTheStream(e)
<1>1. SUFFICES ASSUME NEW s, s = Last(e.unsent), e.unsent # <<>>, ~s.syn, ~s.fin PROVE FALSE
  BY Zenon DEF EndsTheStream
<1>2. e.unsent \in Seq(Segs(o))
  BY DEF Sound, Queues
<1>3. PICK n \in Nat : n = Len(e.unsent)
  BY <1>2, LenProperties
<1>4. n \in 1 .. n /\ s = e.unsent[n]
  <2>1. n # 0
    BY <1>1, <1>2, <1>3, EmptySeq
  <2>2. s = e.unsent[Len(e.unsent)]
    BY <1>1 DEF Last
  <2> QED BY <1>3, <2>1, <2>2
<1>5. s \in Segs(o)
  BY <1>2, <1>3, <1>4, ElementOfSeq
<1>6. s.data # <<>> /\ s.data \in Seq(Nat) /\ s.seq \in Nat /\ InStream(s, o)
  BY <1>1, <1>5 DEF Segs, Segment, Genuine
<1>7. PICK l \in Nat : l = Len(s.data)
  BY <1>6, LenProperties
<1>8. l # 0
  BY <1>6, <1>7, EmptySeq
<1>9. s.seq >= 1 /\ s.seq + l <= 1
  BY <1>6, <1>7 DEF InStream, DataEnd
<1> QED BY <1>6, <1>8, <1>9

\* What the invariant says of one end.
LEMMA AllAppend ==
  ASSUME AllInLine, \A h \in Hosts : Slots[h] = 0 \/ Budget[h] = 0
  PROVE  AppendsAtEnd
<1>1. SUFFICES ASSUME NEW h \in Hosts, pcb[h].st \in {"ESTABLISHED", "CLOSE_WAIT"}
               PROVE  EndsTheStream(pcb[h])
  BY DEF AppendsAtEnd, MayUse
<1>2. PICK e, p : e = pcb[h] /\ p = pcb[Peer(h)]
  OBVIOUS
<1>3. Good(e, p) /\ OneInLine(h, e)
  BY <1>2 DEF AllInLine, Connection
<1>4. Sound(e, e, Reach(e, p))
  BY <1>3 DEF Good
<1>5. CASE Slots[h] = 0
  <2>1. Straight(e) /\ Ending(e)
    BY <1>1, <1>2, <1>3, <1>5 DEF OneInLine, InLine, Line, Opened
  <2> QED BY <1>2, <1>4, <2>1, LineEndsTheStream
<1>6. CASE Budget[h] = 0
  BY <1>2, <1>3, <1>4, <1>6, MuteAppends DEF OneInLine
<1> QED BY <1>5, <1>6

LEMMA AllStir ==
  ASSUME AllInLine, \A h \in Hosts : Slots[h] = 0
  PROVE  NeverStalled
<1>1. SUFFICES ASSUME NEW h \in Hosts, pcb[h].unsent # <<>>, pcb[h].unacked = <<>>
               PROVE  Stirs(Output(pcb[h]))
  BY DEF NeverStalled, Stirs
<1>2. PICK e, p : e = pcb[h] /\ p = pcb[Peer(h)]
  OBVIOUS
<1>3. Good(e, p) /\ InLine(e)
  BY <1>2 DEF AllInLine, OneInLine, Connection
<1>4. Sound(e, e, Reach(e, p)) /\ Reach(e, p) \in Nat
  BY <1>3, GoodParts, Zenon DEF Good
<1> QED BY <1>1, <1>2, <1>3, <1>4, OutputStirs DEF Stirs

\* A step of one host.
LEMMA DoesLines ==
  ASSUME Connection, NEW h \in Hosts, NEW f, NEW m, Does(h, f, m),
         \A i \in Hosts : OneInLine(i, pcb[i]), IsPcb(f), OneInLine(h, f)
  PROVE  \A i \in Hosts : OneInLine(i, pcb'[i])
<1>1. PICK g : g = [f EXCEPT !.out = <<>>]
  OBVIOUS
<1>2. Same(f, g, {"out"})
  BY <1>1 DEF IsPcb, PcbFields, Same
<1>3. InLine(f) => InLine(g)
  BY <1>2, AsideLines DEF SndFields
<1>4. g.written = f.written
  BY <1>2 DEF Same, PcbFields
<1>5. OneInLine(h, g)
  BY <1>3, <1>4, Zenon DEF OneInLine
<1>6. pcb' = [pcb EXCEPT ![h] = g] /\ DOMAIN pcb = Hosts
  BY <1>1 DEF Connection, Does
<1>7. ASSUME NEW i \in Hosts PROVE OneInLine(i, pcb'[i])
  <2>1. CASE i = h
    <3>1. pcb'[i] = g
      BY <1>6, <2>1
    <3> QED BY <1>5, <2>1, <3>1, Zenon
  <2>2. CASE i # h
    <3>1. pcb'[i] = pcb[i]
      BY <1>6, <2>2
    <3> QED BY <3>1, Zenon
  <2> QED BY <2>1, <2>2
<1> QED BY <1>7

\* The peer's window, where it holds after a step.
LEMMA DoesKind ==
  ASSUME Connection, NEW h \in Hosts, NEW f, NEW m, Does(h, f, m), IsPcb(f), WindowKept'
  PROVE  Kind(f)
<1>1. PICK g : g = [f EXCEPT !.out = <<>>]
  OBVIOUS
<1>2. Same(f, g, {"out"})
  BY <1>1 DEF IsPcb, PcbFields, Same
<1>3. pcb' = [pcb EXCEPT ![h] = g] /\ DOMAIN pcb = Hosts
  BY <1>1 DEF Connection, Does
<1>4. pcb'[h] = g
  BY <1>3
<1>5. Living(g) => WindowHolds(g)
  BY <1>4 DEF WindowKept, Alive, Living, WindowHolds, Hosts
<1>6. g.st = f.st /\ g.unacked = f.unacked /\ g.lastack = f.lastack /\ g.snd_wnd = f.snd_wnd
  BY <1>2 DEF Same, PcbFields
<1> QED BY <1>5, <1>6, Zenon DEF Kind, Living, WindowHolds

\* Each step keeps each end in line.
LEMMA NextLines ==
  ASSUME AllInLine, AppendsAtEnd, Next, WindowKept'
  PROVE  \A i \in Hosts : OneInLine(i, pcb'[i])
<1> DEFINE Goal == \A i \in Hosts : OneInLine(i, pcb'[i])
<1>1. PICK h \in Hosts :
        \/ TcpConnect(h) \/ EspconnWrite(h) \/ EspconnClose(h)
        \/ EspconnRecvHold(h) \/ EspconnRecvUnhold(h)
        \/ TcpInputAction(h) \/ Lose(h) \/ DriverDone(h)
        \/ RetransmissionTimeout(h) \/ Persist(h) \/ RemovePcb(h) \/ OoseqTimeout(h)
        \/ Poll(h) \/ TimeWaitEnds(h) \/ DelayedAck(h)
  BY Zenon DEF Next
<1>2. PICK e : e = pcb[h]
  OBVIOUS
<1>3. PICK p : p = pcb[Peer(h)]
  OBVIOUS
<1>4. Connection /\ \A i \in Hosts : OneInLine(i, pcb[i])
  BY Zenon DEF AllInLine
<1>5. Good(e, p) /\ Good(p, e) /\ OneInLine(h, e)
  BY <1>2, <1>3, <1>4, PeersDiffer, Zenon DEF Connection
<1>6. e.st \in {"ESTABLISHED", "CLOSE_WAIT"} => EndsTheStream(e)
  BY <1>2, Zenon DEF AppendsAtEnd, MayUse
<1>7. IsPcb(e) /\ e.drv \in Seq(Sent(e, Reach(e, p))) /\ e.out \in Seq(Sent(e, Reach(e, p)))
  BY <1>5, GoodParts
<1>8. Alive(h) => Living(e)
  BY <1>2, Zenon DEF Alive, Living
<1>9. ASSUME NEW f, NEW m, Steps(e, f, p), Does(h, f, m)
      PROVE  IsPcb(f) /\ Kind(f)
  <2>1. IsPcb(f)
    BY <1>9, Zenon DEF Steps, Good, Sound
  <2> QED BY <1>4, <1>9, <2>1, DoesKind
<1>10. ASSUME NEW f, NEW m, Moves(e, f, p), Does(h, f, m),
              InLine(e) /\ Kind(f) => InLine(f)
       PROVE  Goal
  <2>1. Steps(e, f, p) /\ f.written = e.written
    BY <1>10, Zenon DEF Moves, Steps
  <2>2. IsPcb(f) /\ Kind(f)
    BY <1>9, <1>10, <2>1
  <2>3. OneInLine(h, f)
    BY <1>5, <1>10, <2>1, <2>2, Zenon DEF OneInLine
  <2> QED BY <1>4, <1>10, <2>2, <2>3, DoesLines
<1>11. CASE TcpConnect(h)
  <2>1. PICK f : f = Output(EnqueueFlags([e EXCEPT !.st = "SYN_SENT", !.snd_nxt = 1,
                                                   !.snd_wnd = TcpWnd], TRUE, FALSE))
    OBVIOUS
  <2>2. e.st = "CLOSED" /\ Does(h, f, {})
    BY <1>2, <1>11, <2>1, Zenon DEF TcpConnect
  <2>3. Moves(e, f, p)
    BY <1>5, <2>1, <2>2, ConnectMoves
  <2>4. InLine(e) /\ Kind(f) => InLine(f)
    BY <1>5, <2>1, <2>2, ConnectLines, Zenon DEF Kind
  <2> QED BY <1>10, <2>2, <2>3, <2>4
<1>12. CASE EspconnWrite(h)
  <2>1. PICK n \in 1 .. Budget[h] - e.written : Does(h, Output(TcpWrite(e, n)), {})
    BY <1>2, <1>12 DEF EspconnWrite
  <2>2. n \in Nat /\ e.st \in {"ESTABLISHED", "CLOSE_WAIT"}
    BY <1>2, <1>12 DEF EspconnWrite, MayUse
  <2>3. PICK f : f = Output(TcpWrite(e, n))
    OBVIOUS
  <2>4. Steps(e, f, p)
    BY <1>5, <1>6, <2>2, <2>3, WriteMoves
  <2>5. IsPcb(f) /\ Kind(f) /\ Does(h, f, {})
    BY <1>9, <2>1, <2>3, <2>4
  <2>6. InLine(e) => InLine(f)
    BY <1>5, <2>2, <2>3, <2>5, WriteLines, Zenon DEF Kind
  <2>7. Budget[h] # 0
    <3>1. SUFFICES ASSUME Budget[h] = 0 PROVE FALSE
      OBVIOUS
    <3>2. e.written = 0
      BY <1>5, <3>1 DEF OneInLine
    <3> QED BY <2>1, <3>1, <3>2
  <2>8. OneInLine(h, f)
    BY <1>5, <2>6, <2>7, Zenon DEF OneInLine
  <2> QED BY <1>4, <2>5, <2>8, DoesLines
<1>13. CASE EspconnClose(h)
  <2>1. PICK f : f = TcpClose(e)
    OBVIOUS
  <2>2. PICK g : g = IF f.st \in {"FIN_WAIT_1", "LAST_ACK"} THEN Output(f) ELSE f
    OBVIOUS
  <2>3. e.st \in {"SYN_SENT", "ESTABLISHED", "CLOSE_WAIT"} /\ Does(h, g, {})
    <3>1. e.st = "SYN_SENT" \/ e.st \in {"ESTABLISHED", "CLOSE_WAIT"}
      BY <1>2, <1>13, Zenon DEF EspconnClose, MayUse
    <3>2. Does(h, g, {})
      BY <1>2, <1>13, <2>1, <2>2, Zenon DEF EspconnClose
    <3> QED BY <3>1, <3>2
  <2>4. Moves(e, g, p)
    BY <1>5, <1>6, <2>1, <2>2, <2>3, DisconnectMoves
  <2>5. InLine(e) /\ Kind(g) => InLine(g)
    BY <1>5, <1>6, <2>1, <2>2, <2>3, DisconnectLines
  <2> QED BY <1>10, <2>3, <2>4, <2>5
<1>14. CASE EspconnRecvHold(h)
  <2>1. PICK f : f = [e EXCEPT !.hold = TRUE, !.holded = 0]
    OBVIOUS
  <2>2. Does(h, f, {})
    BY <1>2, <1>14, <2>1, Zenon DEF EspconnRecvHold
  <2>3. Moves(e, f, p)
    BY <1>5, <2>1, <2>2, HoldMoves
  <2>4. InLine(e) => InLine(f)
    BY <1>7, <2>1, HoldLines
  <2> QED BY <1>10, <2>2, <2>3, <2>4
<1>15. CASE EspconnRecvUnhold(h)
  <2>1. PICK f : f = Recved([e EXCEPT !.hold = FALSE, !.holded = 0], e.holded)
    OBVIOUS
  <2>2. PICK g : g = IF "ACK_NOW" \in f.flags THEN Output(f) ELSE f
    OBVIOUS
  <2>3. Does(h, g, {})
    BY <1>2, <1>15, <2>1, <2>2, Zenon DEF EspconnRecvUnhold
  <2>4. Moves(e, f, p) /\ e.st \in {"ESTABLISHED", "CLOSE_WAIT"}
    BY <1>2, <1>5, <1>15, <2>1, UnholdMoves DEF EspconnRecvUnhold, MayUse
  <2>5. Moves(e, Output(f), p)
    <3>1. Good(f, p) /\ Stream(e, p)
      BY <1>5, <2>4, Zenon DEF Moves, Steps, Good
    <3>2. f.st = e.st
      BY <1>7, <2>1 DEF Recved, UpdateAnnWnd, AckNow, IsPcb, PcbFields
    <3>3. Moves(f, Output(f), p)
      BY <2>4, <3>1, <3>2, PollMoves
    <3> QED BY <2>4, <3>1, <3>3, MovesTwice
  <2>6. Moves(e, g, p)
    BY <2>2, <2>4, <2>5, Zenon
  <2>7. InLine(e) /\ Kind(g) => InLine(g)
    BY <1>5, <2>1, <2>2, <2>4, UnholdLines
  <2> QED BY <1>10, <2>3, <2>6, <2>7
<1>16. CASE TcpInputAction(h)
  <2>1. PICK m \in net[h] : Does(h, TcpInputSegment(e, m), {m})
    BY <1>2, <1>16, Zenon DEF TcpInputAction
  <2>2. m \in Sent(p, Reach(p, e))
    BY <1>2, <1>3, <1>4, <2>1 DEF Connection, OnTheWay
  <2>3. PICK f : f = TcpInputSegment(e, m)
    OBVIOUS
  <2>4. Moves(e, f, p)
    BY <1>5, <1>6, <2>2, <2>3, InputMoves
  <2>5. InLine(e) /\ Kind(f) => InLine(f)
    BY <1>5, <1>6, <2>2, <2>3, InputLines
  <2> QED BY <1>10, <2>1, <2>3, <2>4, <2>5
<1>17. CASE Lose(h)
  BY <1>4, <1>17, Zenon DEF Lose
<1>18. CASE DriverDone(h)
  <2>1. PICK f : f = [Send(e, Head(e.drv)) EXCEPT !.drv = Tail(@)]
    OBVIOUS
  <2>2. e.drv # <<>> /\ Does(h, f, {})
    BY <1>2, <1>18, <2>1, Zenon DEF DriverDone
  <2>3. Moves(e, f, p)
    BY <1>5, <2>1, <2>2, DriverMoves
  <2>4. ~InLine(e)
    BY <2>2, Zenon DEF InLine, Idle
  <2> QED BY <1>10, <2>2, <2>3, <2>4
<1>19. CASE RetransmissionTimeout(h)
  <2>1. PICK f : f = RexmitRto([e EXCEPT !.cwnd = Mss])
    OBVIOUS
  <2>2. Living(e) /\ Does(h, f, {})
    BY <1>2, <1>8, <1>19, <2>1, Zenon DEF RetransmissionTimeout
  <2>3. Moves(e, f, p)
    BY <1>5, <2>1, <2>2, RtoMoves
  <2>4. InLine(e) /\ Kind(f) => InLine(f)
    BY <1>5, <2>1, <2>2, RtoLines
  <2> QED BY <1>10, <2>2, <2>3, <2>4
<1>20. CASE Persist(h)
  <2>1. PICK f : f = ZeroWindowProbe(e)
    OBVIOUS
  <2>2. Living(e) /\ Does(h, f, {})
    BY <1>2, <1>8, <1>20, <2>1, Zenon DEF Persist
  <2>3. Moves(e, f, p)
    BY <1>5, <2>1, <2>2, PersistMoves
  <2>4. InLine(e) => InLine(f)
    BY <1>7, <2>1, PersistLines
  <2> QED BY <1>10, <2>2, <2>3, <2>4
<1>21. CASE RemovePcb(h)
  <2>1. PICK err : Fails(e) = Gone(e, err)
    BY Zenon DEF Fails
  <2>2. PICK f : f = Gone(e, err)
    OBVIOUS
  <2>3. Does(h, f, {})
    BY <1>2, <1>21, <2>1, <2>2, Zenon DEF RemovePcb
  <2>4. Moves(e, f, p)
    BY <1>5, <1>7, <2>2, GoneMoves
  <2>5. InLine(e) => InLine(f)
    BY <2>2, GonePoised, Zenon DEF InLine
  <2> QED BY <1>10, <2>3, <2>4, <2>5
<1>22. CASE OoseqTimeout(h)
  <2>1. PICK f : f = [e EXCEPT !.ooseq = <<>>]
    OBVIOUS
  <2>2. Does(h, f, {})
    BY <1>2, <1>22, <2>1, Zenon DEF OoseqTimeout
  <2>3. Moves(e, f, p)
    BY <1>5, <2>1, OoseqMoves
  <2>4. InLine(e) => InLine(f)
    BY <1>7, <2>1, HoldLines
  <2> QED BY <1>10, <2>2, <2>3, <2>4
<1>23. CASE Poll(h)
  <2>1. PICK f : f = Output(Polled(e))
    OBVIOUS
  <2>2. Living(e) /\ Does(h, f, {})
    BY <1>2, <1>8, <1>23, <2>1, Zenon DEF Poll
  <2>3. e.st \notin {"CLOSED", "LISTEN", "GONE"}
    BY <2>2 DEF Living
  <2>4. Moves(e, f, p)
    <3>1. PICK i : i = Polled(e)
      OBVIOUS
    <3>2. Moves(e, i, p) /\ i.st \notin {"CLOSED", "LISTEN", "GONE"}
      BY <1>5, <1>6, <2>3, <3>1, PolledMoves
    <3>3. Moves(i, Output(i), p)
      BY <3>2, PollMoves DEF Moves, Steps
    <3> QED BY <1>5, <2>1, <3>1, <3>2, <3>3, MovesTwice DEF Good
  <2>5. InLine(e) /\ Kind(f) => InLine(f)
    BY <1>5, <1>6, <2>1, <2>3, PollLines
  <2> QED BY <1>10, <2>2, <2>4, <2>5
<1>24. CASE TimeWaitEnds(h)
  <2>1. PICK f : f = Gone(e, e.err)
    OBVIOUS
  <2>2. Does(h, f, {})
    BY <1>2, <1>24, <2>1, Zenon DEF TimeWaitEnds
  <2>3. Moves(e, f, p)
    BY <1>5, <1>7, <2>1, GoneMoves
  <2>4. InLine(e) => InLine(f)
    BY <2>1, GonePoised, Zenon DEF InLine
  <2> QED BY <1>10, <2>2, <2>3, <2>4
<1>25. CASE DelayedAck(h)
  <2>1. PICK f : f = NoAckDue(Output(AckNow(e)))
    OBVIOUS
  <2>2. Living(e) /\ Does(h, f, {})
    BY <1>2, <1>8, <1>25, <2>1, Zenon DEF DelayedAck
  <2>3. Moves(e, f, p)
    BY <1>5, <2>1, <2>2, DelayedAckMoves
  <2>4. InLine(e) /\ Kind(f) => InLine(f)
    BY <1>5, <2>1, DelayedAckLines
  <2> QED BY <1>10, <2>2, <2>3, <2>4
<1> QED BY <1>1, <1>11, <1>12, <1>13, <1>14, <1>15, <1>16, <1>17, <1>18, <1>19, <1>20, <1>21,
           <1>22, <1>23, <1>24, <1>25, Zenon

\* The initial state.
LEMMA InitLines ==
  ASSUME Init
  PROVE  AllInLine
<1>1. Connection
  BY InitConnection
<1>2. ASSUME NEW h \in Hosts PROVE OneInLine(h, pcb[h])
  <2>1. PICK e : e = pcb[h]
    OBVIOUS
  <2>2. \/ e = [Alloc EXCEPT !.slots = Slots[h]]
        \/ e = [Alloc EXCEPT !.slots = Slots[h], !.st = "LISTEN", !.listens = TRUE]
    BY <2>1 DEF Init
  <2>3. /\ e.slots = Slots[h] /\ e.drv = <<>> /\ e.unsent = <<>> /\ e.unacked = <<>>
        /\ e.cwnd = 1 /\ e.snd_wnd \in Nat /\ e.lastack = 0 /\ e.flags = {}
        /\ e.st \in {"CLOSED", "LISTEN"} /\ e.written = 0
    <3>1. PICK a : a = Alloc
      OBVIOUS
    <3>2. /\ a.drv = <<>> /\ a.unsent = <<>> /\ a.unacked = <<>> /\ a.cwnd = 1
          /\ a.snd_wnd \in Nat /\ a.lastack = 0 /\ a.flags = {} /\ a.st = "CLOSED"
          /\ a.written = 0 /\ IsPcb(a)
      BY <3>1, TcpAssumption DEF Alloc, IsPcb, PcbFields
    <3>3. CASE e = [a EXCEPT !.slots = Slots[h]]
      <4>1. Same(a, e, {"slots"}) /\ e.slots = Slots[h]
        BY <3>2, <3>3 DEF IsPcb, PcbFields, Same
      <4> QED BY <3>2, <4>1 DEF Same, PcbFields
    <3>4. CASE e = [a EXCEPT !.slots = Slots[h], !.st = "LISTEN", !.listens = TRUE]
      <4>1. Same(a, e, {"slots", "st", "listens"}) /\ e.slots = Slots[h] /\ e.st = "LISTEN"
        BY <3>2, <3>4 DEF IsPcb, PcbFields, Same
      <4> QED BY <3>2, <4>1 DEF Same, PcbFields
    <3> QED BY <2>2, <3>1, <3>3, <3>4
  <2>4. CASE Slots[h] = 0
    <3>1. Idle(e) /\ Wide(e) /\ ~Opened(e)
      BY <2>3, <2>4 DEF Idle, Wide, Opened
    <3>2. InLine(e)
      BY <2>3, <3>1, EmptyPoised, PoisedIs
    <3> QED BY <2>1, <2>3, <3>2 DEF OneInLine
  <2>5. CASE Slots[h] # 0
    BY <2>1, <2>3, <2>5 DEF OneInLine
  <2> QED BY <2>4, <2>5
<1> QED BY <1>1, <1>2 DEF AllInLine

\* A step keeps all of it, as long as the peers' windows hold.
LEMMA StepLines ==
  ASSUME AllInLine, \A h \in Hosts : Slots[h] = 0 \/ Budget[h] = 0, [Next]_vars, WindowKept'
  PROVE  AllInLine'
<1>1. AppendsAtEnd
  BY AllAppend
<1>2. Connection
  BY DEF AllInLine
<1>3. Connection'
  BY <1>1, <1>2, NextKeeps, StutterKeeps, Zenon
<1>4. \A i \in Hosts : OneInLine(i, pcb'[i])
  <2>1. CASE Next
    BY <1>1, <2>1, NextLines
  <2>2. CASE UNCHANGED vars
    BY <2>2 DEF AllInLine, vars
  <2> QED BY <2>1, <2>2
<1>5. Hosts' = Hosts
  BY DEF Hosts
<1> QED BY <1>3, <1>4, <1>5 DEF AllInLine, OneInLine, InLine

\* Where no segment of an application that writes waits in the driver, the queues
\* of both ends stay in line as long as the peers' windows hold.
THEOREM AllStayInLine ==
  ASSUME \A h \in Hosts : Slots[h] = 0 \/ Budget[h] = 0
  PROVE  Spec /\ []WindowKept => []AllInLine
<1>1. Init => AllInLine
  BY InitLines
<1>2. AllInLine /\ WindowKept' /\ [Next]_vars => AllInLine'
  BY StepLines
<1> QED BY <1>1, <1>2, PTL DEF Spec

\* AppendsAtEnd: tcp_write finds the end of the stream at the end of unsent,
\* unless the driver keeps segments of an application that writes.
THEOREM WritesAtTheEnd ==
  ASSUME \A h \in Hosts : Slots[h] = 0 \/ Budget[h] = 0
  PROVE  Spec /\ []WindowKept => []AppendsAtEnd
<1>1. AllInLine => AppendsAtEnd
  BY AllAppend
<1> QED BY <1>1, AllStayInLine, PTL

\* NeverStalled: with no segment in the driver tcp_output, the retransmission
\* timer or the persist timer still moves what a connection has to send.
THEOREM NothingStalls ==
  ASSUME \A h \in Hosts : Slots[h] = 0
  PROVE  Spec /\ []WindowKept => []NeverStalled
<1>1. AllInLine => NeverStalled
  BY AllStir
<1>2. Spec /\ []WindowKept => []AllInLine
  BY AllStayInLine
<1> QED BY <1>1, <1>2, PTL

\* The promises of the connection, with the premises of WritesAtTheEnd in the
\* place of AppendsAtEnd: no host that writes has a place in its driver's queue,
\* and the peers' windows hold.
THEOREM ConnectionHolds ==
  ASSUME \A h \in Hosts : Slots[h] = 0 \/ Budget[h] = 0
  PROVE  Spec /\ []WindowKept =>
           /\ [](TypeOK /\ StreamIntact /\ EofIsTheEnd /\ NothingForgotten)
           /\ NoSilentEnd
<1>1. Spec /\ []WindowKept => []AppendsAtEnd
  BY WritesAtTheEnd
<1> QED BY <1>1, TypeCorrect, StreamIsIntact, EofComesLast, NothingIsForgotten, EndIsTold, PTL
=============================================================================
