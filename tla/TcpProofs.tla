----------------------------- MODULE TcpProofs -----------------------------
(***************************************************************************)
(* What lwIP's TCP does to a stream: for every segment size, every window  *)
(* of a segment or more in 16 bits (the 4 * TCP_MSS of lwip_init among     *)
(* them), every number of driver slots and pattern of losses.              *)
(***************************************************************************)
EXTENDS TcpNet, SequenceTheorems, WellFoundedInduction, TLAPS

-----------------------------------------------------------------------------
(* Numbers and sequences.                                                  *)

\* A set of numbers that has 0 and the successor of each of its members.
LEMMA Climbs ==
  ASSUME NEW S, 0 \in S, \A n \in Nat : n \in S => n + 1 \in S
  PROVE  Nat \subseteq S
<1> DEFINE out == Nat \ S
           less == OpToRel(<, Nat)
<1>1. SUFFICES ASSUME out # {} PROVE FALSE
  BY <1>1
<1>2. PICK x \in out : \A y \in out : ~ (<<y, x>> \in less)
  <2>1. IsWellFoundedOn(less, Nat)
    BY NatLessThanWellFounded
  <2>2. out \in SUBSET Nat
    OBVIOUS
  <2> HIDE DEF less, out
  <2> QED BY <1>1, <2>1, <2>2, WFMin, Zenon
<1>3. x # 0 /\ x - 1 \in Nat
  OBVIOUS
<1>4. <<x - 1, x>> \in less
  BY <1>3 DEF OpToRel
<1>5. x - 1 \in S
  BY <1>2, <1>3, <1>4
<1> QED BY <1>3, <1>5

\* A set of numbers has a least member ...
LEMMA LeastExists ==
  ASSUME NEW S \in SUBSET Nat, S # {}
  PROVE  \E x \in S : \A y \in S : x <= y
<1> DEFINE less == OpToRel(<, Nat)
<1>1. \E x \in S : \A y \in S : ~ (<<y, x>> \in less)
  <2>1. IsWellFoundedOn(less, Nat)
    BY NatLessThanWellFounded
  <2> HIDE DEF less
  <2> QED BY <2>1, WFMin, Zenon
<1>2. \A x, y \in S : ~ (<<y, x>> \in less) => x <= y
  BY DEF OpToRel
<1> HIDE DEF less
<1> QED BY <1>1, <1>2, Zenon

\* ... which is its minimum.
LEMMA LeastIsMin ==
  ASSUME NEW S \in SUBSET Nat, S # {}
  PROVE  Min(S) \in S /\ \A y \in S : Min(S) <= y
  BY LeastExists, Zenon DEF Min

LEMMA MinOfTwo ==
  ASSUME NEW x \in Int, NEW y \in Int
  PROVE  Min({x, y}) = IF x <= y THEN x ELSE y
<1> DEFINE least(v) == v \in {x, y} /\ \A z \in {x, y} : v <= z
           min == IF x <= y THEN x ELSE y
<1>1. least(min) /\ \A v : least(v) => v = min
  OBVIOUS
<1>2. Min({x, y}) = CHOOSE v : least(v)
  BY Zenon DEF Min
<1> HIDE DEF least, min
<1>3. least(CHOOSE v : least(v))
  BY <1>1, Zenon
<1> QED BY <1>1, <1>2, <1>3, Zenon DEF min

\* The head of q that Lead counts lies in I and ends where I does not go on.
LEMMA LeadCounts ==
  ASSUME NEW A, NEW q \in Seq(A), NEW I
  PROVE  /\ Lead(q, I) \in 0 .. Len(q)
         /\ \A i \in 1 .. Lead(q, I) : i \in I
         /\ Lead(q, I) < Len(q) => Lead(q, I) + 1 \notin I
<1> DEFINE no == DOMAIN q \ I
<1>1. Len(q) \in Nat /\ DOMAIN q = 1 .. Len(q)
  BY LenProperties
<1>2. CASE no = {}
  BY <1>1, <1>2 DEF Lead
<1>3. CASE no # {}
  <2>1. no \in SUBSET Nat
    BY <1>1
  <2>2. PICK least : least = Min(no)
    OBVIOUS
  <2>3. least \in no /\ \A y \in no : least <= y
    <3> HIDE DEF no
    <3> QED BY <1>3, <2>1, <2>2, LeastIsMin
  <2>4. Lead(q, I) = least - 1
    BY <1>3, <2>2 DEF Lead
  <2>5. \A i \in 1 .. Len(q) : i \notin I => least <= i
    BY <1>1, <2>3
  <2>6. least \in 1 .. Len(q) /\ least \notin I
    BY <1>1, <2>3
  <2> HIDE DEF no
  <2> QED BY <1>1, <2>4, <2>5, <2>6
<1> QED BY <1>2, <1>3

\* What is left when a queue is cut after its first k places.
LEMMA CutInTwo ==
  ASSUME NEW A, NEW q \in Seq(A), NEW k \in 0 .. Len(q)
  PROVE  LET head == SubSeq(q, 1, k)
             rest == SubSeq(q, k + 1, Len(q))
         IN  /\ head \in Seq(A) /\ Len(head) = k /\ \A i \in 1 .. k : head[i] = q[i]
             /\ rest \in Seq(A) /\ Len(rest) = Len(q) - k
             /\ \A i \in 1 .. Len(q) - k : rest[i] = q[k + i]
             /\ Range(q) = Range(head) \cup Range(rest)
             /\ k = 0 => rest = q
<1> DEFINE head == SubSeq(q, 1, k)
           rest == SubSeq(q, k + 1, Len(q))
<1>1. Len(q) \in Nat /\ \A i \in 1 .. Len(q) : q[i] \in A
  BY LenProperties, ElementOfSeq
<1>2. head \in Seq(A) /\ Len(head) = k /\ \A i \in 1 .. k : head[i] = q[i]
  <2>1. \A i \in 1 .. k : q[i] \in A
    BY <1>1
  <2>2. 1 \in Int /\ k \in Int /\ k - 1 + 1 = k /\ (1 <= k \/ k = 0)
    BY <1>1
  <2> QED BY <2>1, <2>2, SubSeqProperties
<1>3. rest \in Seq(A) /\ Len(rest) = Len(q) - k /\ \A i \in 1 .. Len(q) - k : rest[i] = q[k + i]
  <2>1. \A i \in k + 1 .. Len(q) : q[i] \in A
    BY <1>1
  <2>2. k + 1 \in Int /\ Len(q) \in Int
    BY <1>1
  <2>3. /\ rest \in Seq(A)
        /\ Len(rest) = IF k + 1 <= Len(q) THEN Len(q) - (k + 1) + 1 ELSE 0
        /\ \A i \in 1 .. Len(q) - (k + 1) + 1 : rest[i] = q[k + 1 + i - 1]
    BY <2>1, <2>2, SubSeqProperties
  <2> QED BY <1>1, <2>3
<1>4. /\ Range(q) = {q[i] : i \in 1 .. Len(q)}
      /\ Range(head) = {head[i] : i \in 1 .. k}
      /\ Range(rest) = {rest[i] : i \in 1 .. Len(q) - k}
  <2> HIDE DEF head, rest
  <2> QED BY <1>2, <1>3, RangeEquality
<1>5. Range(q) = Range(head) \cup Range(rest)
  <2>1. \A x \in Range(q) : x \in Range(head) \cup Range(rest)
    <3> HIDE DEF head, rest
    <3> SUFFICES ASSUME NEW i \in 1 .. Len(q) PROVE q[i] \in Range(head) \cup Range(rest)
      BY <1>4
    <3>1. CASE i <= k
      BY <1>1, <1>2, <1>4, <3>1
    <3>2. CASE i > k
      <4>1. i - k \in 1 .. Len(q) - k /\ rest[i - k] = q[i]
        BY <1>1, <1>3, <3>2
      <4> QED BY <1>4, <4>1
    <3> QED BY <1>1, <3>1, <3>2
  <2>2. \A x \in Range(head) \cup Range(rest) : x \in Range(q)
    <3> HIDE DEF head, rest
    <3>1. \A i \in 1 .. k : head[i] \in Range(q)
      BY <1>1, <1>2, <1>4
    <3>2. \A i \in 1 .. Len(q) - k : rest[i] \in Range(q)
      BY <1>1, <1>3, <1>4
    <3> QED BY <1>4, <3>1, <3>2
  <2> HIDE DEF head, rest
  <2> QED BY <2>1, <2>2
<1>6. k = 0 => rest = q
  BY SubSeqFull
<1> QED BY <1>2, <1>3, <1>5, <1>6

\* tcp_output and tcp_rexmit put a segment among others and lose none.
LEMMA InsertSegKeeps ==
  ASSUME NEW A, NEW q \in Seq(A), NEW s \in A
  PROVE  InsertSeg(q, s) \in Seq(A) /\ Range(InsertSeg(q, s)) = Range(q) \cup {s}
<1>1. PICK k : k = Lead(q, {i \in DOMAIN q : q[i].seq < s.seq})
  OBVIOUS
<1>2. k \in 0 .. Len(q)
  BY <1>1, LeadCounts
<1> DEFINE head == SubSeq(q, 1, k)
           rest == SubSeq(q, k + 1, Len(q))
<1>3. head \in Seq(A) /\ rest \in Seq(A) /\ Range(q) = Range(head) \cup Range(rest)
  BY <1>2, CutInTwo
<1>4. InsertSeg(q, s) = head \o <<s>> \o rest
  BY <1>1 DEF InsertSeg
<1>5. <<s>> \in Seq(A) /\ Range(<<s>>) = {s}
  BY DEF Range
<1> HIDE DEF head, rest
<1>6. PICK one : one = <<s>>
  OBVIOUS
<1>7. one \in Seq(A) /\ Range(one) = {s}
  BY <1>5, <1>6
<1>8. PICK more : more = head \o one
  OBVIOUS
<1>9. more \in Seq(A)
  BY <1>3, <1>7, <1>8, ConcatProperties
<1>10. Range(more) = Range(head) \cup Range(one)
  BY <1>3, <1>7, <1>8, RangeConcatenation
<1>11. more \o rest \in Seq(A)
  BY <1>3, <1>9, ConcatProperties
<1>12. Range(more \o rest) = Range(more) \cup Range(rest)
  BY <1>3, <1>9, RangeConcatenation
<1> QED BY <1>3, <1>4, <1>6, <1>7, <1>8, <1>10, <1>11, <1>12

\* The loop of tcp_rexmit_rto ends.
LEMMA PickedLoop ==
  ASSUME NEW q, NEW I, Len(q) \in Nat
  PROVE  \E p : /\ p = [i \in 0 .. Len(q) |-> IF i = 0 THEN <<>>
                          ELSE p[i - 1] \o (IF i \in I THEN <<q[i]>> ELSE <<>>)]
                /\ Picked(q, I) = p[Len(q)]
<1> DEFINE next(x, i) == x \o (IF i \in I THEN <<q[i]>> ELSE <<>>)
           Loop(p, n) == p = [i \in 0 .. n |-> IF i = 0 THEN <<>> ELSE next(p[i - 1], i)]
           S == {n \in Nat : \E p : Loop(p, n)}
<1>1. 0 \in S
  <2>1. PICK p : p = [i \in 0 .. 0 |-> <<>>]
    OBVIOUS
  <2>2. Loop(p, 0)
    BY <2>1
  <2> HIDE DEF Loop
  <2> QED BY <2>2
<1>2. ASSUME NEW n \in Nat, n \in S PROVE n + 1 \in S
  <2>1. PICK p : Loop(p, n)
    <3> HIDE DEF Loop
    <3> QED BY <1>2
  <2> HIDE DEF next
  <2>2. PICK r : r = [i \in 0 .. n + 1 |-> IF i = n + 1 THEN next(p[n], n + 1) ELSE p[i]]
    OBVIOUS
  <2>3. \A i \in 0 .. n : r[i] = p[i]
    BY <2>2
  <2>4. r[n + 1] = next(r[n], n + 1)
    BY <2>2
  <2>5. \A i \in 0 .. n : p[i] = (IF i = 0 THEN <<>> ELSE next(p[i - 1], i))
    BY <2>1
  <2>6. r[0] = <<>>
    BY <2>3, <2>5
  <2>7. ASSUME NEW i \in 1 .. n + 1 PROVE r[i] = next(r[i - 1], i)
    <3>1. CASE i = n + 1
      BY <2>4, <3>1
    <3>2. CASE i # n + 1
      <4>1. i \in 0 .. n /\ i - 1 \in 0 .. n /\ i # 0
        BY <3>2
      <4>2. r[i] = p[i] /\ r[i - 1] = p[i - 1] /\ p[i] = next(p[i - 1], i)
        BY <2>3, <2>5, <4>1
      <4> QED BY <4>2
    <3> QED BY <3>1, <3>2
  <2>8. Loop(r, n + 1)
    <3>1. r = [i \in 0 .. n + 1 |-> r[i]]
      BY <2>2
    <3>2. \A i \in 0 .. n + 1 : r[i] = (IF i = 0 THEN <<>> ELSE next(r[i - 1], i))
      <4>1. \A i \in 0 .. n + 1 : i = 0 \/ i \in 1 .. n + 1
        OBVIOUS
      <4> QED BY <2>6, <2>7, <4>1
    <3> QED BY <3>1, <3>2
  <2> HIDE DEF Loop
  <2> QED BY <2>8
<1>3. Len(q) \in S
  <2> HIDE DEF S
  <2> QED BY <1>1, <1>2, Climbs
<1>4. Loop(CHOOSE p : Loop(p, Len(q)), Len(q))
  <2> HIDE DEF Loop
  <2> QED BY <1>3, Zenon
<1>5. Picked(q, I) = (CHOOSE p : Loop(p, Len(q)))[Len(q)]
  BY Zenon DEF Picked
<1> QED BY <1>4, <1>5, Zenon

\* It sorts the segments by who has them and loses none.
LEMMA PickedKeeps ==
  ASSUME NEW A, NEW q \in Seq(A), NEW I
  PROVE  /\ Picked(q, I) \in Seq(A)
         /\ Range(Picked(q, I)) = {q[i] : i \in I \cap DOMAIN q}
<1> DEFINE add(i) == IF i \in I THEN <<q[i]>> ELSE <<>>
           next(x, i) == x \o add(i)
<1>1. Len(q) \in Nat /\ DOMAIN q = 1 .. Len(q) /\ \A i \in 1 .. Len(q) : q[i] \in A
  BY LenProperties, ElementOfSeq
<1>2. PICK p : /\ p = [i \in 0 .. Len(q) |-> IF i = 0 THEN <<>> ELSE next(p[i - 1], i)]
               /\ Picked(q, I) = p[Len(q)]
  BY <1>1, PickedLoop
<1> DEFINE Made(n) == p[n] \in Seq(A) /\ Range(p[n]) = {q[i] : i \in I \cap (1 .. n)}
           S == {n \in Nat : n <= Len(q) => Made(n)}
<1>3. 0 \in S
  <2>1. p[0] = <<>>
    BY <1>1, <1>2
  <2>2. <<>> \in Seq(A) /\ Range(<<>>) = {}
    BY DEF Range
  <2>3. I \cap (1 .. 0) = {}
    OBVIOUS
  <2>4. Made(0)
    BY <2>1, <2>2, <2>3
  <2> HIDE DEF Made
  <2> QED BY <2>4
<1>4. ASSUME NEW n \in Nat, n \in S PROVE n + 1 \in S
  <2>1. SUFFICES ASSUME n + 1 <= Len(q) PROVE Made(n + 1)
    OBVIOUS
  <2>2. p[n] \in Seq(A) /\ Range(p[n]) = {q[i] : i \in I \cap (1 .. n)}
    BY <1>1, <1>4, <2>1
  <2>3. p[n + 1] = next(p[n], n + 1)
    <3> HIDE DEF next
    <3>1. \A i \in 1 .. Len(q) : p[i] = next(p[i - 1], i)
      BY <1>1, <1>2
    <3>2. n + 1 \in 1 .. Len(q) /\ n + 1 - 1 = n
      BY <1>1, <2>1
    <3> QED BY <3>1, <3>2
  <2>4. CASE n + 1 \in I
    <3>1. add(n + 1) = <<q[n + 1]>> /\ q[n + 1] \in A
      BY <1>1, <2>1, <2>4
    <3>2. PICK one : one = <<q[n + 1]>>
      OBVIOUS
    <3>3. one \in Seq(A) /\ Range(one) = {q[n + 1]}
      BY <3>1, <3>2 DEF Range
    <3>4. p[n] \o one \in Seq(A)
      BY <2>2, <3>3, ConcatProperties
    <3>5. Range(p[n] \o one) = Range(p[n]) \cup Range(one)
      BY <2>2, <3>3, RangeConcatenation
    <3>6. {q[i] : i \in I \cap (1 .. n + 1)} = {q[i] : i \in I \cap (1 .. n)} \cup {q[n + 1]}
      BY <2>4
    <3> QED BY <2>2, <2>3, <3>1, <3>2, <3>3, <3>4, <3>5, <3>6
  <2>5. CASE n + 1 \notin I
    <3>1. add(n + 1) = <<>>
      BY <2>5
    <3>2. p[n + 1] = p[n]
      BY <2>2, <2>3, <3>1, ConcatEmptySeq
    <3>3. {q[i] : i \in I \cap (1 .. n + 1)} = {q[i] : i \in I \cap (1 .. n)}
      BY <2>5
    <3> QED BY <2>2, <3>2, <3>3
  <2> QED BY <2>4, <2>5
<1>5. Made(Len(q))
  <2> HIDE DEF Made
  <2>1. Nat \subseteq S
    <3> HIDE DEF S
    <3> QED BY <1>3, <1>4, Climbs
  <2> QED BY <1>1, <2>1
<1> QED BY <1>1, <1>2, <1>5

-----------------------------------------------------------------------------
(* What a pcb and the segments of its owner are.                           *)

PcbFields ==
  {"st", "listens", "snd_nxt", "lastack", "snd_lbb", "snd_wnd", "snd_wl1", "snd_wl2",
   "cwnd", "unsent", "unacked", "timing", "nrtx", "dupacks", "persist", "rcv_nxt",
   "rcv_wnd", "rcv_ann_wnd", "rcv_ann_right_edge", "ooseq", "flags", "recv_flags",
   "recv_data", "drv", "slots", "hold", "holded", "written", "got", "eof", "err", "out"}
IsPcb(e) == DOMAIN e = PcbFields

\* f differs from e in the fields S only.
Same(e, f, S) == IsPcb(f) /\ \A x \in PcbFields \ S : f[x] = e[x]

\* A connection that will send nothing after what its application has written.
Over(e) == e.st \notin {"CLOSED", "LISTEN", "SYN_SENT", "SYN_RCVD", "ESTABLISHED", "CLOSE_WAIT"}

\* s holds bytes of the stream of o where its sequence number says, and the
\* FIN comes after the last of them.
InStream(s, o) ==
  /\ s.seq >= 1 /\ DataEnd(s) <= o.written + 1
  /\ \A i \in DOMAIN s.data : s.data[i] = s.seq + i - 1
  /\ s.fin => Over(o) /\ DataEnd(s) = o.written + 1

Genuine(s, o) ==
  /\ s.syn => s.seq = 0 /\ s.data = <<>> /\ ~s.fin
  /\ s.data # <<>> \/ s.fin => InStream(s, o)

\* What may wait in the queues of o, and what may be on the way from it when
\* its acknowledgements go up to k.
Segment == [seq : Nat, data : Seq(Nat), syn : BOOLEAN, fin : BOOLEAN]
Segs(o) == {s \in Segment : /\ Genuine(s, o) /\ (s.syn \/ s.fin \/ s.data # <<>>)
                            /\ Len(s.data) <= Mss}
Datagram == [seq : Nat, data : Seq(Nat), syn : BOOLEAN, fin : BOOLEAN, rst : BOOLEAN,
             ack : BOOLEAN, ackno : Nat, wnd : Nat]
Sent(o, k) == {p \in Datagram : Genuine(p, o) /\ (p.ack /\ ~p.rst => p.ackno <= k)}

Queued(e) == Range(e.unsent) \cup Range(e.unacked)

\* A pcb whose queues hold segments of o, and whose numbers are in order.
Numbers(e, o, k) ==
  /\ e.snd_nxt \in Nat /\ e.lastack \in Nat /\ e.snd_lbb \in Nat /\ o.written \in Nat
  /\ e.lastack <= e.snd_nxt /\ e.snd_nxt <= o.written + 2
  /\ e.rcv_nxt \in Nat /\ e.rcv_nxt <= k /\ e.holded \in Nat /\ e.dupacks \in Nat
  /\ e.rcv_ann_right_edge \in Int
  /\ e.rcv_wnd \in Nat /\ e.rcv_wnd < 65536 /\ e.rcv_ann_wnd \in Nat /\ e.rcv_ann_wnd < 65536
Queues(e, o, k) ==
  /\ e.unsent \in Seq(Segs(o)) /\ e.unacked \in Seq(Segs(o))
  /\ e.drv \in Seq(Sent(o, k)) /\ e.out \in Seq(Sent(o, k))
Sound(e, o, k) == IsPcb(e) /\ Numbers(e, o, k) /\ Queues(e, o, k)

\* From e to f nothing happens to the connection, to its application and to
\* what was received; the segments queued are the same.
SameCore(e, f) ==
  /\ f.st = e.st /\ f.written = e.written /\ f.got = e.got /\ f.eof = e.eof
  /\ f.err = e.err /\ (Listening(f) <=> Listening(e))
SameRcv(e, f) ==
  /\ f.rcv_nxt = e.rcv_nxt /\ f.rcv_wnd = e.rcv_wnd /\ f.ooseq = e.ooseq
  /\ f.recv_flags = e.recv_flags /\ f.recv_data = e.recv_data
Quiet(e, f) ==
  SameCore(e, f) /\ SameRcv(e, f) /\ f.snd_lbb = e.snd_lbb /\ Queued(f) = Queued(e)

LEMMA QuietTwice ==
  ASSUME NEW e, NEW f, NEW g, Quiet(e, f), Quiet(f, g) PROVE Quiet(e, g)
  BY DEF Quiet, SameCore, SameRcv

\* A packet of the right shape is one of o's when its segment is genuine.
LEMMA IsSent ==
  ASSUME NEW o, NEW k, NEW p \in Datagram, Genuine(p, o), p.rst \/ p.ackno <= k
  PROVE  p \in Sent(o, k)
  BY Zenon DEF Sent

LEMMA PacketIsSent ==
  ASSUME NEW o, NEW k \in Nat, NEW e, NEW s \in Segment, Genuine(s, o), NEW ack \in BOOLEAN,
         e.rcv_nxt \in Nat, e.rcv_nxt <= k, e.rcv_ann_wnd \in Nat
  PROVE  Packet(e, s, ack) \in Sent(o, k)
<1>1. PICK p : p = Packet(e, s, ack)
  OBVIOUS
<1>3. p \in Datagram
  BY <1>1 DEF Packet, Datagram, Segment
<1>4. /\ p.seq = s.seq /\ p.data = s.data /\ p.syn = s.syn /\ p.fin = s.fin
      /\ p.ackno = e.rcv_nxt
  BY <1>1 DEF Packet
<1>5. Genuine(p, o)
  BY <1>4, Zenon DEF Genuine, InStream, DataEnd
<1> QED BY <1>1, <1>3, <1>4, <1>5, IsSent

LEMMA EmptyAckIsSent ==
  ASSUME NEW o, NEW k \in Nat, NEW e, NEW n \in Nat,
         e.rcv_nxt \in Nat, e.rcv_nxt <= k, e.rcv_ann_wnd \in Nat
  PROVE  Packet(e, Seg(n, <<>>, FALSE, FALSE), TRUE) \in Sent(o, k)
<1>1. PICK none \in Seq(Nat) : none = <<>>
  <2>1. <<>> \in Seq(Nat)
    OBVIOUS
  <2> QED BY <2>1, Zenon
<1>2. PICK p : p = [seq |-> n, data |-> none, syn |-> FALSE, fin |-> FALSE, rst |-> FALSE,
                    ack |-> TRUE, ackno |-> e.rcv_nxt, wnd |-> e.rcv_ann_wnd]
  OBVIOUS
<1>3. Packet(e, Seg(n, <<>>, FALSE, FALSE), TRUE) = p
  BY <1>1, <1>2 DEF Packet, Seg
<1>4. p \in Datagram
  BY <1>1, <1>2 DEF Datagram
<1>5. p.data = <<>> /\ ~p.syn /\ ~p.fin /\ p.ackno <= k
  BY <1>1, <1>2
<1>6. Genuine(p, o)
  BY <1>5, Zenon DEF Genuine
<1> QED BY <1>3, <1>4, <1>5, <1>6, IsSent

LEMMA ResetIsSent ==
  ASSUME NEW o, NEW k, NEW n \in Nat, NEW ackno \in Nat
  PROVE  Reset(n, ackno) \in Sent(o, k)
<1>1. PICK none \in Seq(Nat) : none = <<>>
  <2>1. <<>> \in Seq(Nat)
    OBVIOUS
  <2> QED BY <2>1, Zenon
<1>2. PICK p : p = [seq |-> n, data |-> none, syn |-> FALSE, fin |-> FALSE, rst |-> TRUE,
                    ack |-> TRUE, ackno |-> ackno, wnd |-> TcpWnd]
  OBVIOUS
<1>3. Reset(n, ackno) = p
  BY <1>1, <1>2 DEF Reset
<1>4. p \in Datagram
  BY <1>1, <1>2, TcpAssumption DEF Datagram
<1>5. p.data = <<>> /\ ~p.syn /\ ~p.fin /\ p.rst
  BY <1>1, <1>2
<1>6. Genuine(p, o)
  BY <1>5, Zenon DEF Genuine
<1> QED BY <1>3, <1>4, <1>5, <1>6, IsSent

\* SYN and FIN take one place each in the sequence numbers.
LEMMA TcpLenIs ==
  ASSUME NEW s, Len(s.data) \in Nat
  PROVE  /\ ~s.syn /\ ~s.fin => TcpLen(s) = Len(s.data)
         /\ s.syn \/ s.fin => TcpLen(s) = Len(s.data) + 1
<1>1. CASE s.syn \/ s.fin
  <2>1. Bit(s.syn \/ s.fin) = 1
    BY <1>1, Zenon DEF Bit
  <2> QED BY <1>1, <2>1, Zenon DEF TcpLen
<1>2. CASE ~(s.syn \/ s.fin)
  <2>1. Bit(s.syn \/ s.fin) = 0
    BY <1>2, Zenon DEF Bit
  <2>2. TcpLen(s) = Len(s.data) + 0
    BY <2>1, Zenon DEF TcpLen
  <2>3. Len(s.data) + 0 = Len(s.data)
    OBVIOUS
  <2> QED BY <1>2, <2>2, <2>3, Zenon
<1> QED BY <1>1, <1>2, Zenon

\* No segment of o ends after its FIN.
LEMMA EndBound ==
  ASSUME NEW o, o.written \in Nat, NEW s \in Segs(o)
  PROVE  End(s) \in Nat /\ End(s) <= o.written + 2
<1>1. s \in Segment /\ Genuine(s, o) /\ (s.syn \/ s.fin \/ s.data # <<>>)
  BY DEF Segs
<1>2. s.seq \in Nat /\ s.data \in Seq(Nat) /\ Len(s.data) \in Nat
  BY <1>1 DEF Segment
<1>3. TcpLen(s) \in Nat /\ TcpLen(s) <= Len(s.data) + 1
  BY <1>2, TcpLenIs
<1>4. CASE s.syn
  BY <1>1, <1>2, <1>3, <1>4 DEF End, Genuine
<1>5. CASE ~s.syn
  <2>1. InStream(s, o)
    BY <1>1, <1>5 DEF Genuine
  <2> QED BY <1>2, <1>3, <2>1 DEF End, InStream, DataEnd
<1> QED BY <1>4, <1>5

LEMMA NumbersStay ==
  ASSUME NEW o, NEW k, NEW e, NEW f, NEW S, Numbers(e, o, k), Same(e, f, S),
         {"snd_nxt", "lastack", "snd_lbb", "rcv_nxt", "holded", "dupacks", "rcv_ann_right_edge",
          "rcv_wnd", "rcv_ann_wnd"} \cap S = {}
  PROVE  Numbers(f, o, k)
<1>1. /\ f.snd_nxt = e.snd_nxt /\ f.lastack = e.lastack /\ f.snd_lbb = e.snd_lbb
      /\ f.rcv_nxt = e.rcv_nxt /\ f.holded = e.holded /\ f.dupacks = e.dupacks
      /\ f.rcv_ann_right_edge = e.rcv_ann_right_edge /\ f.rcv_wnd = e.rcv_wnd
      /\ f.rcv_ann_wnd = e.rcv_ann_wnd
  BY DEF Same, PcbFields
<1> QED BY <1>1 DEF Numbers

\* The flags are only moved.
LEMMA FlagsKeep ==
  ASSUME NEW o, NEW k \in Nat, NEW e, Sound(e, o, k)
  PROVE  /\ Sound(AckNow(e), o, k) /\ Quiet(e, AckNow(e))
         /\ Sound(NoAckDue(e), o, k) /\ Quiet(e, NoAckDue(e))
         /\ Sound(Ack(e), o, k) /\ Quiet(e, Ack(e))
<1>1. Sound(AckNow(e), o, k) /\ Quiet(e, AckNow(e))
  BY DEF AckNow, Sound, IsPcb, PcbFields, Numbers, Queues, Quiet, SameCore, SameRcv,
         Queued, Listening
<1>2. Sound(NoAckDue(e), o, k) /\ Quiet(e, NoAckDue(e))
  BY DEF NoAckDue, Sound, IsPcb, PcbFields, Numbers, Queues, Quiet, SameCore, SameRcv,
         Queued, Listening
<1>3. Sound(Ack(e), o, k) /\ Quiet(e, Ack(e))
  BY DEF Ack, AckNow, Sound, IsPcb, PcbFields, Numbers, Queues, Quiet, SameCore, SameRcv,
         Queued, Listening
<1> QED BY <1>1, <1>2, <1>3

\* tcp_output_segment and tcp_output_alloc_header: a packet is sent.
LEMMA SendKeeps ==
  ASSUME NEW o, NEW k \in Nat, NEW e, Sound(e, o, k), NEW p \in Sent(o, k)
  PROVE  /\ Sound(Send(e, p), o, k) /\ Quiet(e, Send(e, p))
         /\ Sound(Announced(e), o, k) /\ Quiet(e, Announced(e))
<1>1. Append(e.out, p) \in Seq(Sent(o, k))
  BY AppendProperties DEF Sound, Queues
<1>2. Sound(Send(e, p), o, k) /\ Quiet(e, Send(e, p))
  BY <1>1 DEF Send, Sound, IsPcb, PcbFields, Numbers, Queues, Quiet, SameCore, SameRcv,
         Queued, Listening
<1>3. PICK edge \in Int : edge = e.rcv_nxt + e.rcv_ann_wnd
  BY DEF Sound, Numbers
<1>4. Sound(Announced(e), o, k) /\ Quiet(e, Announced(e))
  BY <1>3, SMTT(30) DEF Announced, Sound, IsPcb, PcbFields, Numbers, Queues, Quiet, SameCore, SameRcv,
         Queued, Listening
<1> QED BY <1>2, <1>4

LEMMA SendEmptyAckKeeps ==
  ASSUME NEW o, NEW k \in Nat, NEW e, Sound(e, o, k)
  PROVE  Sound(SendEmptyAck(e), o, k) /\ Quiet(e, SendEmptyAck(e))
<1>1. PICK p : p = Packet(e, Seg(e.snd_nxt, <<>>, FALSE, FALSE), TRUE)
  OBVIOUS
<1>2. p \in Sent(o, k)
  <2>1. /\ e.snd_nxt \in Nat /\ e.rcv_nxt \in Nat /\ e.rcv_nxt <= k /\ e.rcv_ann_wnd \in Nat
    BY DEF Sound, Numbers
  <2> QED BY <1>1, <2>1, EmptyAckIsSent, Zenon
<1>3. PICK f : f = Send(e, p)
  OBVIOUS
<1>4. Sound(f, o, k) /\ Quiet(e, f)
  BY <1>2, <1>3, SendKeeps
<1>5. PICK g : g = Announced(f)
  OBVIOUS
<1>6. Sound(g, o, k) /\ Quiet(f, g)
  BY <1>2, <1>4, <1>5, SendKeeps
<1>7. SendEmptyAck(e) = NoAckDue(g)
  BY <1>1, <1>3, <1>5 DEF SendEmptyAck
<1>8. Sound(NoAckDue(g), o, k) /\ Quiet(g, NoAckDue(g))
  BY <1>6, FlagsKeep
<1> QED BY <1>4, <1>6, <1>7, <1>8, QuietTwice

\* What the driver lets go was there before.
LEMMA DrivenKeeps ==
  ASSUME NEW o, NEW k \in Nat, NEW e, Sound(e, o, k), NEW p \in Sent(o, k)
  PROVE  Sound(Driven(e, p), o, k) /\ Quiet(e, Driven(e, p))
<1>1. PICK q : q = Append(e.drv, p)
  OBVIOUS
<1>2. q \in Seq(Sent(o, k)) /\ q # <<>>
  BY <1>1, AppendProperties DEF Sound, Queues
<1>3. Head(q) \in Sent(o, k) /\ Tail(q) \in Seq(Sent(o, k))
  BY <1>2, HeadTailProperties
<1>4. CASE Len(q) <= e.slots
  <2>1. Driven(e, p) = [e EXCEPT !.drv = q]
    BY <1>1, <1>4 DEF Driven
  <2> QED BY <1>2, <2>1, SMTT(30) DEF Sound, IsPcb, PcbFields, Numbers, Queues, Quiet, SameCore,
             SameRcv, Queued, Listening
<1>5. CASE ~(Len(q) <= e.slots)
  <2>1. PICK f : f = Send(e, Head(q))
    OBVIOUS
  <2>2. Driven(e, p) = [f EXCEPT !.drv = Tail(q)]
    BY <1>1, <1>5, <2>1 DEF Driven
  <2>3. Sound(f, o, k) /\ Quiet(e, f)
    BY <1>3, <2>1, SendKeeps
  <2>4. PICK g : g = [f EXCEPT !.drv = Tail(q)]
    OBVIOUS
  <2>5. g.drv = Tail(q) /\ Same(f, g, {"drv"})
    BY <2>3, <2>4 DEF Sound, IsPcb, PcbFields, Same
  <2>6. Sound(g, o, k)
    <3>1. Numbers(g, o, k)
      BY <2>3, <2>5, NumbersStay DEF Sound
    <3>2. Queues(g, o, k)
      BY <1>3, <2>3, <2>5 DEF Same, PcbFields, Sound, Queues
    <3> QED BY <2>5, <3>1, <3>2 DEF Same, Sound
  <2>7. Quiet(f, g)
    BY <2>5 DEF Same, PcbFields, Quiet, SameCore, SameRcv, Queued, Listening
  <2> QED BY <2>2, <2>3, <2>4, <2>6, <2>7, QuietTwice
<1> QED BY <1>4, <1>5

\* From e to f the segments S are transmitted.
Transmits(e, f, S, o, k) ==
  /\ Sound(f, o, k) /\ SameCore(e, f) /\ SameRcv(e, f) /\ f.snd_lbb = e.snd_lbb
  /\ f.unsent = e.unsent /\ Range(f.unacked) = Range(e.unacked) \cup S
  /\ f.snd_nxt >= e.snd_nxt /\ f.lastack = e.lastack /\ f.snd_wnd = e.snd_wnd

\* A segment that is transmitted joins those that wait for their ACK.
LEMMA TransmitKeeps ==
  ASSUME NEW o, NEW k \in Nat, NEW e, Sound(e, o, k), NEW s \in Segs(o)
  PROVE  Transmits(e, Transmit(e, s), {s}, o, k)
<1> DEFINE acks == e.st # "SYN_SENT"
<1>1. PICK d : d = IF acks THEN NoAckDue(e) ELSE e
  OBVIOUS
<1>2. Sound(d, o, k) /\ Quiet(e, d) /\ d.unsent = e.unsent /\ d.unacked = e.unacked
      /\ d.snd_nxt = e.snd_nxt /\ d.lastack = e.lastack /\ d.snd_wnd = e.snd_wnd
  <2>1. CASE acks
    <3>1. d = NoAckDue(e)
      BY <1>1, <2>1
    <3>2. Sound(d, o, k) /\ Quiet(e, d)
      BY <3>1, FlagsKeep
    <3>3. /\ d.unsent = e.unsent /\ d.unacked = e.unacked /\ d.snd_nxt = e.snd_nxt
          /\ d.lastack = e.lastack /\ d.snd_wnd = e.snd_wnd
      BY <3>1 DEF NoAckDue, Sound, IsPcb, PcbFields
    <3> QED BY <3>2, <3>3
  <2>2. CASE ~acks
    BY <1>1, <2>2 DEF Quiet, SameCore, SameRcv
  <2> QED BY <2>1, <2>2
<1>3. PICK p : p = Packet(e, s, acks)
  OBVIOUS
<1>4. p \in Sent(o, k)
  <2>1. acks \in BOOLEAN
    OBVIOUS
  <2>2. s \in Segment /\ Genuine(s, o)
    BY DEF Segs
  <2> HIDE DEF acks
  <2> QED BY <1>3, <2>1, <2>2, PacketIsSent DEF Sound, Numbers
<1>5. PICK g : g = Driven(d, p)
  OBVIOUS
<1>6. Sound(g, o, k) /\ Quiet(d, g)
  BY <1>2, <1>4, <1>5, DrivenKeeps
<1>7. /\ g.unsent = e.unsent /\ g.unacked = e.unacked /\ g.snd_nxt = e.snd_nxt
      /\ g.lastack = e.lastack /\ g.snd_wnd = e.snd_wnd
  BY <1>2, <1>5 DEF Driven, Send, Sound, IsPcb, PcbFields
<1>8. PICK h : h = Announced(g)
  OBVIOUS
<1>9. Sound(h, o, k) /\ Quiet(g, h)
  BY <1>4, <1>6, <1>8, SendKeeps
<1>10. /\ h.unsent = e.unsent /\ h.unacked = e.unacked /\ h.snd_nxt = e.snd_nxt
       /\ h.lastack = e.lastack /\ h.snd_wnd = e.snd_wnd
  BY <1>6, <1>7, <1>8 DEF Announced, Sound, IsPcb, PcbFields
<1>11. Quiet(e, h)
  BY <1>2, <1>6, <1>9, QuietTwice
<1>12. PICK q : q = InsertSeg(e.unacked, s)
  OBVIOUS
<1>13. q \in Seq(Segs(o)) /\ Range(q) = Range(e.unacked) \cup {s}
  BY <1>12, InsertSegKeeps DEF Sound, Queues
<1>14. PICK n : n = IF End(s) > e.snd_nxt THEN End(s) ELSE e.snd_nxt
  OBVIOUS
<1>15. n \in Nat /\ n >= e.snd_nxt /\ n <= o.written + 2
  BY <1>14, EndBound DEF Sound, Numbers
<1>16. Transmit(e, s) = [h EXCEPT !.snd_nxt = n, !.unacked = q, !.timing = TRUE]
  BY <1>1, <1>3, <1>5, <1>8, <1>10, <1>12, <1>14, Zenon DEF Transmit
<1>17. PICK f : f = [h EXCEPT !.snd_nxt = n, !.unacked = q, !.timing = TRUE]
  OBVIOUS
<1>18. f.snd_nxt = n /\ f.unacked = q /\ Same(h, f, {"snd_nxt", "unacked", "timing"})
  BY <1>9, <1>17 DEF Sound, IsPcb, PcbFields, Same
<1>19. Sound(f, o, k)
  <2>1. h.lastack \in Nat /\ h.lastack <= n
    BY <1>9, <1>10, <1>15 DEF Sound, Numbers
  <2>2. Numbers(f, o, k)
    BY <1>9, <1>15, <1>18, <2>1 DEF Same, PcbFields, Sound, Numbers
  <2>3. Queues(f, o, k)
    BY <1>9, <1>13, <1>18 DEF Same, PcbFields, Sound, Queues
  <2> QED BY <1>18, <2>2, <2>3 DEF Same, Sound
<1>20. SameCore(h, f) /\ SameRcv(h, f) /\ f.snd_lbb = h.snd_lbb /\ f.unsent = h.unsent
       /\ f.lastack = h.lastack /\ f.snd_wnd = h.snd_wnd
  BY <1>18 DEF Same, PcbFields, SameCore, SameRcv, Listening
<1>21. SameCore(e, f) /\ SameRcv(e, f) /\ f.snd_lbb = e.snd_lbb
  BY <1>11, <1>20 DEF Quiet, SameCore, SameRcv
<1>22. /\ f.unsent = e.unsent /\ f.lastack = e.lastack /\ f.snd_nxt >= e.snd_nxt
       /\ f.snd_wnd = e.snd_wnd
  BY <1>10, <1>15, <1>18, <1>20
<1>23. Transmits(e, f, {s}, o, k)
  BY <1>13, <1>18, <1>19, <1>21, <1>22 DEF Transmits
<1> QED BY <1>16, <1>17, <1>23

\* The loop of tcp_output ends.
LEMMA SendAllLoop ==
  ASSUME NEW e, NEW q, Len(q) \in Nat
  PROVE  \E p : /\ p = [i \in 0 .. Len(q) |-> IF i = 0 THEN e ELSE Transmit(p[i - 1], q[i])]
                /\ SendAll(e, q) = p[Len(q)]
<1> DEFINE next(x, i) == Transmit(x, q[i])
           Loop(p, n) == p = [i \in 0 .. n |-> IF i = 0 THEN e ELSE next(p[i - 1], i)]
           S == {n \in Nat : \E p : Loop(p, n)}
<1>1. 0 \in S
  <2>1. PICK p : p = [i \in 0 .. 0 |-> e]
    OBVIOUS
  <2>2. Loop(p, 0)
    BY <2>1
  <2> HIDE DEF Loop
  <2> QED BY <2>2
<1>2. ASSUME NEW n \in Nat, n \in S PROVE n + 1 \in S
  <2>1. PICK p : Loop(p, n)
    <3> HIDE DEF Loop
    <3> QED BY <1>2
  <2> HIDE DEF next
  <2>2. PICK r : r = [i \in 0 .. n + 1 |-> IF i = n + 1 THEN next(p[n], n + 1) ELSE p[i]]
    OBVIOUS
  <2>3. \A i \in 0 .. n : r[i] = p[i]
    BY <2>2
  <2>4. r[n + 1] = next(r[n], n + 1)
    BY <2>2
  <2>5. \A i \in 0 .. n : p[i] = (IF i = 0 THEN e ELSE next(p[i - 1], i))
    BY <2>1
  <2>6. r[0] = e
    BY <2>3, <2>5
  <2>7. ASSUME NEW i \in 1 .. n + 1 PROVE r[i] = next(r[i - 1], i)
    <3>1. CASE i = n + 1
      BY <2>4, <3>1
    <3>2. CASE i # n + 1
      <4>1. i \in 0 .. n /\ i - 1 \in 0 .. n /\ i # 0
        BY <3>2
      <4>2. r[i] = p[i] /\ r[i - 1] = p[i - 1] /\ p[i] = next(p[i - 1], i)
        BY <2>3, <2>5, <4>1
      <4> QED BY <4>2
    <3> QED BY <3>1, <3>2
  <2>8. Loop(r, n + 1)
    <3>1. r = [i \in 0 .. n + 1 |-> r[i]]
      BY <2>2
    <3>2. \A i \in 0 .. n + 1 : r[i] = (IF i = 0 THEN e ELSE next(r[i - 1], i))
      <4>1. \A i \in 0 .. n + 1 : i = 0 \/ i \in 1 .. n + 1
        OBVIOUS
      <4> QED BY <2>6, <2>7, <4>1
    <3> QED BY <3>1, <3>2
  <2> HIDE DEF Loop
  <2> QED BY <2>8
<1>3. Len(q) \in S
  <2> HIDE DEF S
  <2> QED BY <1>1, <1>2, Climbs
<1>4. Loop(CHOOSE p : Loop(p, Len(q)), Len(q))
  <2> HIDE DEF Loop
  <2> QED BY <1>3, Zenon
<1>5. SendAll(e, q) = (CHOOSE p : Loop(p, Len(q)))[Len(q)]
  BY Zenon DEF SendAll
<1> QED BY <1>4, <1>5, Zenon

\* What tcp_output transmits moves from unsent to unacked.
LEMMA SendAllKeeps ==
  ASSUME NEW o, NEW k \in Nat, NEW e, Sound(e, o, k), NEW q \in Seq(Segs(o))
  PROVE  Transmits(e, SendAll(e, q), Range(q), o, k)
<1>1. Len(q) \in Nat /\ \A i \in 1 .. Len(q) : q[i] \in Segs(o)
  BY LenProperties, ElementOfSeq
<1>2. PICK p : /\ p = [i \in 0 .. Len(q) |-> IF i = 0 THEN e ELSE Transmit(p[i - 1], q[i])]
               /\ SendAll(e, q) = p[Len(q)]
  BY <1>1, SendAllLoop
<1>3. p[0] = e
  BY <1>1, <1>2
<1>4. \A i \in 1 .. Len(q) : p[i] = Transmit(p[i - 1], q[i])
  BY <1>1, <1>2
<1> DEFINE Made(n) == Transmits(e, p[n], {q[i] : i \in 1 .. n}, o, k)
           S == {n \in Nat : n <= Len(q) => Made(n)}
<1>5. 0 \in S
  <2>1. e.snd_nxt \in Nat /\ 1 .. 0 = {}
    BY DEF Sound, Numbers
  <2>2. Made(0)
    BY <1>3, <2>1 DEF Transmits, SameCore, SameRcv
  <2> HIDE DEF Made
  <2> QED BY <2>2
<1>6. ASSUME NEW n \in Nat, n \in S PROVE n + 1 \in S
  <2>1. SUFFICES ASSUME n + 1 <= Len(q) PROVE Made(n + 1)
    OBVIOUS
  <2>2. PICK d, s, g : d = p[n] /\ s = q[n + 1] /\ g = p[n + 1]
    OBVIOUS
  <2>3. PICK T : T = {q[i] : i \in 1 .. n}
    OBVIOUS
  <2>4. Transmits(e, d, T, o, k) /\ s \in Segs(o)
    BY <1>1, <1>6, <2>1, <2>2, <2>3
  <2>5. g = Transmit(d, s)
    <3>1. n + 1 \in 1 .. Len(q) /\ n + 1 - 1 = n
      BY <1>1, <2>1
    <3> QED BY <1>4, <2>2, <3>1
  <2>6. Sound(d, o, k)
    BY <2>4 DEF Transmits
  <2>7. Transmits(d, g, {s}, o, k)
    BY <2>4, <2>5, <2>6, TransmitKeeps
  <2>8. SameCore(e, g) /\ SameRcv(e, g)
    BY <2>4, <2>7 DEF Transmits, SameCore, SameRcv
  <2>9. g.snd_nxt >= e.snd_nxt
    <3>1. e.snd_nxt \in Nat /\ d.snd_nxt \in Nat /\ g.snd_nxt \in Nat
      BY <2>6, <2>7 DEF Transmits, Sound, Numbers
    <3>2. g.snd_nxt >= d.snd_nxt /\ d.snd_nxt >= e.snd_nxt
      BY <2>4, <2>7 DEF Transmits
    <3> QED BY <3>1, <3>2
  <2>10. Transmits(e, g, T \cup {s}, o, k)
    <3>1. Range(g.unacked) = Range(e.unacked) \cup (T \cup {s})
      BY <2>4, <2>7 DEF Transmits
    <3> QED BY <2>4, <2>7, <2>8, <2>9, <3>1 DEF Transmits
  <2>11. {q[i] : i \in 1 .. n + 1} = T \cup {s}
    BY <2>2, <2>3
  <2> QED BY <2>2, <2>10, <2>11
<1>7. Made(Len(q))
  <2> HIDE DEF Made
  <2>1. Nat \subseteq S
    <3> HIDE DEF S
    <3> QED BY <1>5, <1>6, Climbs
  <2> QED BY <1>1, <2>1
<1>8. Range(q) = {q[i] : i \in 1 .. Len(q)}
  BY RangeEquality
<1> QED BY <1>2, <1>7, <1>8

\* From e to f what waits is sent, or sent again.
Calm(e, f, o, k) ==
  Sound(f, o, k) /\ Quiet(e, f) /\ f.snd_nxt >= e.snd_nxt /\ f.lastack = e.lastack

LEMMA CalmTwice ==
  ASSUME NEW o, NEW k, NEW e, NEW f, NEW g, e.snd_nxt \in Nat,
         Calm(e, f, o, k), Calm(f, g, o, k)
  PROVE  Calm(e, g, o, k)
<1>1. Quiet(e, g)
  BY QuietTwice DEF Calm
<1>2. f.snd_nxt \in Nat /\ g.snd_nxt \in Nat
  BY DEF Calm, Sound, Numbers
<1> QED BY <1>1, <1>2 DEF Calm

LEMMA OutputKeeps ==
  ASSUME NEW o, NEW k \in Nat, NEW e, Sound(e, o, k)
  PROVE  Calm(e, Output(e), o, k)
<1> DEFINE wnd == IF e.cwnd < e.snd_wnd THEN e.cwnd ELSE e.snd_wnd
           go == {i \in DOMAIN e.unsent : Fits(e, e.unsent[i], wnd) /\ ~Held(e, e.unsent[i])}
           acks == "ACK_NOW" \in e.flags /\ (e.unsent = <<>> \/ ~Fits(e, Head(e.unsent), wnd))
<1>1. e.unsent \in Seq(Segs(o)) /\ e.snd_nxt \in Nat
  BY DEF Sound, Queues, Numbers
<1>2. PICK ready : ready = Lead(e.unsent, go)
  OBVIOUS
<1>3. ready \in 0 .. Len(e.unsent)
  <2> HIDE DEF go
  <2> QED BY <1>1, <1>2, LeadCounts
<1>4. PICK head : head = SubSeq(e.unsent, 1, ready)
  OBVIOUS
<1>5. PICK rest : rest = SubSeq(e.unsent, ready + 1, Len(e.unsent))
  OBVIOUS
<1>6. /\ head \in Seq(Segs(o)) /\ rest \in Seq(Segs(o))
      /\ Range(e.unsent) = Range(head) \cup Range(rest)
  BY <1>1, <1>3, <1>4, <1>5, CutInTwo
<1>7. PICK sent : sent = SendAll(e, head)
  OBVIOUS
<1>8. Transmits(e, sent, Range(head), o, k)
  <2>1. head \in Seq(Segs(o))
    BY <1>6
  <2> QED BY <1>7, <2>1, SendAllKeeps
<1>9. PICK per : per = (sent.persist \/ WindowTooSmall(e, rest))
  OBVIOUS
<1>10. PICK f : f = [sent EXCEPT !.unsent = rest, !.persist = per]
  OBVIOUS
<1>11. CASE acks
  <2>1. Output(e) = SendEmptyAck(e)
    BY <1>11, Zenon DEF Output
  <2>2. Sound(SendEmptyAck(e), o, k) /\ Quiet(e, SendEmptyAck(e))
    BY SendEmptyAckKeeps
  <2>3. SendEmptyAck(e).snd_nxt = e.snd_nxt /\ SendEmptyAck(e).lastack = e.lastack
    BY DEF SendEmptyAck, NoAckDue, Announced, Send, Sound, IsPcb, PcbFields
  <2> QED BY <1>1, <2>1, <2>2, <2>3 DEF Calm
<1>12. CASE ~acks
  <2>1. Output(e) = f
    BY <1>2, <1>4, <1>5, <1>7, <1>9, <1>10, <1>12, Zenon DEF Output
  <2> Sound(sent, o, k)
    BY <1>8 DEF Transmits
  <2>2. f.unsent = rest /\ Same(sent, f, {"unsent", "persist"})
    BY <1>10 DEF Sound, IsPcb, PcbFields, Same
  <2>3. Sound(f, o, k)
    <3>1. Numbers(f, o, k)
      BY <2>2 DEF Same, PcbFields, Sound, Numbers
    <3>2. Queues(f, o, k)
      BY <1>6, <2>2 DEF Same, PcbFields, Sound, Queues
    <3> QED BY <2>2, <3>1, <3>2 DEF Same, Sound
  <2>4. SameCore(sent, f) /\ SameRcv(sent, f) /\ f.snd_lbb = sent.snd_lbb
    BY <2>2 DEF Same, PcbFields, SameCore, SameRcv, Listening
  <2>5. SameCore(e, f) /\ SameRcv(e, f) /\ f.snd_lbb = e.snd_lbb
    BY <1>8, <2>4 DEF Transmits, SameCore, SameRcv
  <2>6. f.unacked = sent.unacked /\ f.snd_nxt = sent.snd_nxt /\ f.lastack = sent.lastack
    BY <2>2 DEF Same, PcbFields
  <2>7. Queued(f) = Queued(e)
    BY <1>6, <1>8, <2>2, <2>6 DEF Queued, Transmits
  <2> QED BY <1>8, <2>1, <2>3, <2>5, <2>6, <2>7 DEF Quiet, Calm, Transmits
<1> QED BY <1>11, <1>12

-----------------------------------------------------------------------------
(* Retransmissions and acknowledgements.                                   *)

LEMMA HeadAndTail ==
  ASSUME NEW A, NEW q \in Seq(A), q # <<>>
  PROVE  Head(q) \in A /\ Tail(q) \in Seq(A) /\ Range(q) = {Head(q)} \cup Range(Tail(q))
<1>1. /\ Head(q) \in A /\ Tail(q) \in Seq(A) /\ Len(q) \in Nat /\ Len(q) > 0
      /\ Len(Tail(q)) = Len(q) - 1 /\ Head(q) = q[1]
      /\ \A i \in 1 .. Len(q) - 1 : Tail(q)[i] = q[i + 1]
  BY HeadTailProperties, LenProperties
<1>2. Range(q) = {q[i] : i \in 1 .. Len(q)}
  BY RangeEquality
<1>3. Range(Tail(q)) = {Tail(q)[i] : i \in 1 .. Len(q) - 1}
  BY <1>1, RangeEquality
<1>4. \A i \in 1 .. Len(q) : i = 1 \/ (i - 1 \in 1 .. Len(q) - 1 /\ q[i] = Tail(q)[i - 1])
  BY <1>1
<1>5. \A i \in 1 .. Len(q) - 1 : i + 1 \in 1 .. Len(q) /\ Tail(q)[i] = q[i + 1]
  BY <1>1
<1>6. 1 \in 1 .. Len(q)
  BY <1>1
<1>7. \A x \in Range(q) : x = Head(q) \/ x \in Range(Tail(q))
  BY <1>1, <1>2, <1>3, <1>4
<1>8. Head(q) \in Range(q)
  BY <1>1, <1>2, <1>6
<1>9. \A x \in Range(Tail(q)) : x \in Range(q)
  BY <1>2, <1>3, <1>5
<1>10. PICK head, rest : head = Head(q) /\ rest = Tail(q)
  OBVIOUS
<1>11. Range(q) = {head} \cup Range(rest)
  BY <1>7, <1>8, <1>9, <1>10
<1> QED BY <1>1, <1>10, <1>11

\* The queues may be filled in another way.
LEMMA RequeuedIsCalm ==
  ASSUME NEW o, NEW k \in Nat, NEW e, Sound(e, o, k),
         NEW f, Same(e, f, {"unsent", "unacked", "timing", "persist", "nrtx", "dupacks", "cwnd",
                            "snd_wnd", "snd_wl1", "snd_wl2", "flags"}),
         Listening(f) <=> Listening(e),
         f.unsent \in Seq(Segs(o)), f.unacked \in Seq(Segs(o)), Queued(f) = Queued(e),
         f.dupacks \in Nat
  PROVE  Calm(e, f, o, k)
<1>1. Numbers(f, o, k)
  <2>1. /\ f.snd_nxt = e.snd_nxt /\ f.lastack = e.lastack /\ f.snd_lbb = e.snd_lbb
        /\ f.rcv_nxt = e.rcv_nxt /\ f.holded = e.holded
        /\ f.rcv_ann_right_edge = e.rcv_ann_right_edge /\ f.rcv_wnd = e.rcv_wnd
        /\ f.rcv_ann_wnd = e.rcv_ann_wnd
    BY DEF Same, PcbFields
  <2> QED BY <2>1 DEF Sound, Numbers
<1>2. Queues(f, o, k)
  BY DEF Same, PcbFields, Sound, Queues
<1>3. Quiet(e, f)
  BY DEF Same, PcbFields, Quiet, SameCore, SameRcv
<1>4. f.snd_nxt = e.snd_nxt /\ f.lastack = e.lastack /\ e.snd_nxt \in Nat
  BY DEF Same, PcbFields, Sound, Numbers
<1> QED BY <1>1, <1>2, <1>3, <1>4 DEF Calm, Sound, Same

LEMMA RexmitKeeps ==
  ASSUME NEW o, NEW k \in Nat, NEW e, Sound(e, o, k)
  PROVE  Calm(e, Rexmit(e), o, k)
<1>1. CASE e.unacked = <<>>
  <2>1. Rexmit(e) = e
    BY <1>1 DEF Rexmit
  <2>2. Calm(e, e, o, k)
    BY DEF Calm, Quiet, SameCore, SameRcv, Sound, Numbers
  <2> QED BY <2>1, <2>2
<1>2. CASE e.unacked # <<>>
  <2>1. PICK s, rest, q, n :
          s = Head(e.unacked) /\ rest = Tail(e.unacked) /\ q = InsertSeg(e.unsent, s)
          /\ n = Again(e.nrtx)
    OBVIOUS
  <2>2. s \in Segs(o) /\ rest \in Seq(Segs(o)) /\ Range(e.unacked) = {s} \cup Range(rest)
    BY <1>2, <2>1, HeadAndTail DEF Sound, Queues
  <2>3. q \in Seq(Segs(o)) /\ Range(q) = Range(e.unsent) \cup {s}
    <3>1. e.unsent \in Seq(Segs(o))
      BY DEF Sound, Queues
    <3>2. s \in Segs(o)
      BY <2>2
    <3>3. /\ InsertSeg(e.unsent, s) \in Seq(Segs(o))
          /\ Range(InsertSeg(e.unsent, s)) = Range(e.unsent) \cup {s}
      BY <3>1, <3>2, InsertSegKeeps
    <3> QED BY <2>1, <3>3, Zenon
  <2>4. PICK f : f = [e EXCEPT !.unacked = rest, !.unsent = q, !.nrtx = n]
    OBVIOUS
  <2>5. Rexmit(e) = f
    BY <1>2, <2>1, <2>4 DEF Rexmit
  <2>6. f.unacked = rest /\ f.unsent = q /\ Same(e, f, {"unsent", "unacked", "nrtx"})
    BY <2>4 DEF Sound, IsPcb, PcbFields, Same
  <2>7. Same(e, f, {"unsent", "unacked", "timing", "persist", "nrtx", "dupacks", "cwnd",
                    "snd_wnd", "snd_wl1", "snd_wl2", "flags"})
    BY <2>6 DEF Same
  <2>8. Listening(f) <=> Listening(e)
    BY <2>6 DEF Same, PcbFields, Listening
  <2>9. Queued(f) = Queued(e)
    BY <2>2, <2>3, <2>6 DEF Queued
  <2>10. f.dupacks \in Nat
    BY <2>6 DEF Same, PcbFields, Sound, Numbers
  <2> QED BY <2>2, <2>3, <2>5, <2>6, <2>7, <2>8, <2>9, <2>10, RequeuedIsCalm
<1> QED BY <1>1, <1>2

\* cwnd and dupacks are not seen by the peer.
LEMMA CountersAreCalm ==
  ASSUME NEW o, NEW k \in Nat, NEW e, Sound(e, o, k), NEW f,
         Same(e, f, {"timing", "persist", "nrtx", "dupacks", "cwnd", "snd_wnd", "snd_wl1",
                     "snd_wl2", "flags"}),
         "UNREGISTERED" \in f.flags <=> "UNREGISTERED" \in e.flags, f.dupacks \in Nat
  PROVE  Calm(e, f, o, k)
<1>1. f.unsent = e.unsent /\ f.unacked = e.unacked
  BY DEF Same, PcbFields
<1>2. Same(e, f, {"unsent", "unacked", "timing", "persist", "nrtx", "dupacks", "cwnd",
                  "snd_wnd", "snd_wl1", "snd_wl2", "flags"})
  BY DEF Same
<1>3. Listening(f) <=> Listening(e)
  BY DEF Listening
<1>4. f.unsent \in Seq(Segs(o)) /\ f.unacked \in Seq(Segs(o)) /\ Queued(f) = Queued(e)
  BY <1>1 DEF Queued, Sound, Queues
<1> QED BY <1>2, <1>3, <1>4, RequeuedIsCalm

LEMMA RexmitFastKeeps ==
  ASSUME NEW o, NEW k \in Nat, NEW e, Sound(e, o, k)
  PROVE  Calm(e, RexmitFast(e), o, k)
<1>1. CASE e.unacked = <<>> \/ "INFR" \in e.flags
  <2>1. RexmitFast(e) = e
    BY <1>1 DEF RexmitFast
  <2>2. Calm(e, e, o, k)
    BY DEF Calm, Quiet, SameCore, SameRcv, Sound, Numbers
  <2> QED BY <2>1, <2>2
<1>2. CASE ~(e.unacked = <<>> \/ "INFR" \in e.flags)
  <2>1. PICK d : d = Rexmit(e)
    OBVIOUS
  <2>2. Calm(e, d, o, k)
    BY <2>1, RexmitKeeps
  <2>3. PICK f : f = [d EXCEPT !.cwnd = 2 * Mss, !.flags = @ \cup {"INFR"}]
    OBVIOUS
  <2>4. RexmitFast(e) = f
    BY <1>2, <2>1, <2>3 DEF RexmitFast
  <2>5. Sound(d, o, k)
    BY <2>2 DEF Calm
  <2>6. Same(d, f, {"cwnd", "flags"}) /\ f.flags = d.flags \cup {"INFR"}
    BY <2>3, <2>5 DEF Sound, IsPcb, PcbFields, Same
  <2>7. Same(d, f, {"timing", "persist", "nrtx", "dupacks", "cwnd", "snd_wnd", "snd_wl1",
                    "snd_wl2", "flags"})
    BY <2>6 DEF Same
  <2>8. "UNREGISTERED" \in f.flags <=> "UNREGISTERED" \in d.flags
    BY <2>6
  <2> f.dupacks \in Nat
    BY <2>5, <2>6 DEF Same, PcbFields, Sound, Numbers
  <2>9. Calm(d, f, o, k)
    BY <2>5, <2>7, <2>8, CountersAreCalm
  <2>10. e.snd_nxt \in Nat
    BY DEF Sound, Numbers
  <2> QED BY <2>2, <2>4, <2>9, <2>10, CalmTwice
<1> QED BY <1>1, <1>2

\* tcp_rexmit_rto, with its tcp_output.
LEMMA RexmitRtoKeeps ==
  ASSUME NEW o, NEW k \in Nat, NEW e, Sound(e, o, k)
  PROVE  Calm(e, RexmitRto(e), o, k)
<1> DEFINE held == {i \in DOMAIN e.unacked : Held(e, e.unacked[i])}
<1>1. e.unsent \in Seq(Segs(o)) /\ e.unacked \in Seq(Segs(o))
  BY DEF Sound, Queues
<1>2. PICK I, J : I = held /\ J = DOMAIN e.unacked \ held
  OBVIOUS
<1>3. I \cap DOMAIN e.unacked = I /\ J \cap DOMAIN e.unacked = J /\ I \cup J = DOMAIN e.unacked
  BY <1>2
<1>4. PICK stay, again : stay = Picked(e.unacked, I) /\ again = Picked(e.unacked, J)
  OBVIOUS
<1>5. stay \in Seq(Segs(o)) /\ Range(stay) = {e.unacked[i] : i \in I \cap DOMAIN e.unacked}
  BY <1>1, <1>4, PickedKeeps, Zenon
<1>6. again \in Seq(Segs(o)) /\ Range(again) = {e.unacked[i] : i \in J \cap DOMAIN e.unacked}
  BY <1>1, <1>4, PickedKeeps, Zenon
<1>7. Range(e.unacked) = {e.unacked[i] : i \in DOMAIN e.unacked}
  BY DEF Range
<1>8. Range(e.unacked) = Range(stay) \cup Range(again)
  BY <1>3, <1>5, <1>6, <1>7
<1>9. PICK q : q = again \o e.unsent
  OBVIOUS
<1>10. q \in Seq(Segs(o))
  BY <1>1, <1>6, <1>9, ConcatProperties
<1>11. Range(q) = Range(again) \cup Range(e.unsent)
  BY <1>1, <1>6, <1>9, RangeConcatenation
<1>12. PICK n : n = Again(e.nrtx)
  OBVIOUS
<1>13. PICK f : f = [e EXCEPT !.unacked = stay, !.unsent = q, !.nrtx = n]
  OBVIOUS
<1>14. RexmitRto(e) = Output(f)
  BY <1>2, <1>4, <1>9, <1>12, <1>13, Zenon DEF RexmitRto
<1>15. f.unacked = stay /\ f.unsent = q /\ Same(e, f, {"unsent", "unacked", "nrtx"})
  BY <1>13 DEF Sound, IsPcb, PcbFields, Same
<1>16. Same(e, f, {"unsent", "unacked", "timing", "persist", "nrtx", "dupacks", "cwnd",
                   "snd_wnd", "snd_wl1", "snd_wl2", "flags"})
  BY <1>15 DEF Same
<1>17. Listening(f) <=> Listening(e)
  BY <1>15 DEF Same, PcbFields, Listening
<1>18. Queued(f) = Queued(e)
  BY <1>8, <1>11, <1>15 DEF Queued
<1> f.dupacks \in Nat
  BY <1>15 DEF Same, PcbFields, Sound, Numbers
<1>19. Calm(e, f, o, k)
  BY <1>5, <1>10, <1>15, <1>16, <1>17, <1>18, RequeuedIsCalm
<1>20. Sound(f, o, k) /\ e.snd_nxt \in Nat
  BY <1>19 DEF Calm, Sound, Numbers
<1>21. Calm(f, Output(f), o, k)
  BY <1>20, OutputKeeps
<1> QED BY <1>14, <1>19, <1>20, <1>21, CalmTwice

\* The byte a probe carries is in its place.
LEMMA ProbeKeeps ==
  ASSUME NEW o, NEW k \in Nat, NEW e, Sound(e, o, k)
  PROVE  Calm(e, ZeroWindowProbe(e), o, k)
<1> DEFINE s == IF e.unacked # <<>> THEN Head(e.unacked) ELSE Head(e.unsent)
<1>1. e.unsent \in Seq(Segs(o)) /\ e.unacked \in Seq(Segs(o)) /\ e.snd_nxt \in Nat
  BY DEF Sound, Queues, Numbers
<1>2. CASE e.unacked \o e.unsent = <<>>
  <2>1. ZeroWindowProbe(e) = e
    BY <1>2, Zenon DEF ZeroWindowProbe
  <2>2. Calm(e, e, o, k)
    BY DEF Calm, Quiet, SameCore, SameRcv, Sound, Numbers
  <2> QED BY <2>1, <2>2
<1>3. CASE e.unacked \o e.unsent # <<>>
  <2>1. e.unacked # <<>> \/ e.unsent # <<>>
    BY <1>1, <1>3, ConcatEmptySeq
  <2>2. PICK t : t = s
    OBVIOUS
  <2>3. t \in Segs(o)
    BY <1>1, <2>1, <2>2, HeadAndTail
  <2>4. t \in Segment /\ Genuine(t, o)
    BY <2>3 DEF Segs
  <2>5. t.seq \in Nat /\ t.data \in Seq(Nat) /\ Len(t.data) \in Nat
    BY <2>4 DEF Segment
  <2>6. PICK one : one = SubSeq(t.data, 1, Min({1, Len(t.data)}))
    OBVIOUS
  <2>7. PICK fin \in BOOLEAN : fin = (t.fin /\ t.data = <<>>)
    OBVIOUS
  <2>8. PICK u : u = Seg(t.seq, one, FALSE, fin)
    OBVIOUS
  <2>9. u.seq = t.seq /\ u.data = one /\ ~u.syn /\ (u.fin <=> fin)
    BY <2>8 DEF Seg
  <2>10. one \in Seq(Nat) /\ (one # <<>> => t.data # <<>> /\ Len(one) = 1 /\ one[1] = t.data[1])
    <3>1. CASE t.data = <<>>
      <4>1. Min({1, Len(t.data)}) = 0
        BY <3>1, MinOfTwo
      <4> QED BY <2>6, <3>1, <4>1
    <3>2. CASE t.data # <<>>
      <4>1. Len(t.data) >= 1
        BY <2>5, <3>2
      <4>2. Min({1, Len(t.data)}) = 1
        BY <4>1, <2>5, MinOfTwo
      <4>3. 1 \in 0 .. Len(t.data)
        BY <4>1, <2>5
      <4>4. /\ SubSeq(t.data, 1, 1) \in Seq(Nat) /\ Len(SubSeq(t.data, 1, 1)) = 1
            /\ SubSeq(t.data, 1, 1)[1] = t.data[1]
        BY <2>5, <4>3, CutInTwo
      <4> QED BY <2>6, <3>2, <4>2, <4>4
    <3> QED BY <3>1, <3>2
  <2>11. u \in Segment
    BY <2>5, <2>8, <2>10 DEF Seg, Segment
  <2>12. Genuine(u, o)
    <3>1. ~u.syn
      BY <2>9
    <3>2. ASSUME one # <<>> PROVE InStream(u, o)
      <4>1. InStream(t, o) /\ 1 \in DOMAIN t.data
        BY <2>4, <2>5, <2>10, <3>2 DEF Genuine
      <4>2. t.data[1] = t.seq + 1 - 1 /\ t.seq >= 1 /\ DataEnd(t) <= o.written + 1
        BY <4>1 DEF InStream
      <4>3. DataEnd(u) = t.seq + 1 /\ Len(t.data) >= 1 /\ DataEnd(t) = t.seq + Len(t.data)
        <5>1. Len(u.data) = 1 /\ t.data # <<>>
          BY <2>9, <2>10, <3>2
        <5>2. Len(t.data) >= 1
          BY <2>5, <5>1
        <5> QED BY <2>9, <5>1, <5>2 DEF DataEnd
      <4>4. ~u.fin
        BY <2>7, <2>9, <2>10, <3>2
      <4>5. DOMAIN u.data = {1} /\ u.data[1] = u.seq + 1 - 1
        BY <2>9, <2>10, <3>2, <4>2
      <4>6. o.written \in Nat
        BY DEF Sound, Numbers
      <4>7. u.seq >= 1 /\ DataEnd(u) <= o.written + 1
        BY <2>5, <2>9, <4>2, <4>3, <4>6
      <4> QED BY <4>4, <4>5, <4>7 DEF InStream
    <3>3. ASSUME one = <<>>, u.fin PROVE InStream(u, o)
      <4>1. t.fin /\ t.data = <<>>
        BY <2>7, <2>9, <3>3
      <4>2. InStream(t, o)
        BY <2>4, <4>1 DEF Genuine
      <4>3. u.seq = t.seq /\ u.data = t.data
        BY <2>9, <3>3, <4>1
      <4> QED BY <4>1, <4>2, <4>3, Zenon DEF InStream, DataEnd
    <3> QED BY <2>9, <3>1, <3>2, <3>3, Zenon DEF Genuine
  <2>13. PICK p : p = Packet(e, u, TRUE)
    OBVIOUS
  <2>14. p \in Sent(o, k)
    <3>1. e.rcv_nxt \in Nat /\ e.rcv_nxt <= k /\ e.rcv_ann_wnd \in Nat
      BY DEF Sound, Numbers
    <3> QED BY <2>11, <2>12, <2>13, <3>1, PacketIsSent
  <2>15. PICK d : d = Send(e, p)
    OBVIOUS
  <2>16. ZeroWindowProbe(e) = Announced(d)
    BY <1>3, <2>2, <2>6, <2>7, <2>8, <2>13, <2>15, Zenon DEF ZeroWindowProbe
  <2>17. Sound(d, o, k) /\ Quiet(e, d)
    BY <2>14, <2>15, SendKeeps
  <2>18. Sound(Announced(d), o, k) /\ Quiet(d, Announced(d))
    BY <2>14, <2>17, SendKeeps
  <2>19. Quiet(e, Announced(d))
    BY <2>17, <2>18, QuietTwice
  <2>20. d.snd_nxt = e.snd_nxt /\ d.lastack = e.lastack
    BY <2>15 DEF Send, Sound, IsPcb, PcbFields
  <2>21. Announced(d).snd_nxt = d.snd_nxt /\ Announced(d).lastack = d.lastack
    BY <2>17 DEF Announced, Sound, IsPcb, PcbFields
  <2> QED BY <1>1, <2>16, <2>18, <2>19, <2>20, <2>21 DEF Calm
<1> QED BY <1>2, <1>3

\* rest is q without some segments whose places are in I.
RestOf(rest, q, A, I) ==
  /\ rest \in Seq(A) /\ Range(rest) \subseteq Range(q)
  /\ \A s \in Range(q) \ Range(rest) : \E i \in I : s = q[i]

LEMMA RestKeeps ==
  ASSUME NEW A, NEW q \in Seq(A), NEW I
  PROVE  RestOf(SubSeq(q, Lead(q, I) + 1, Len(q)), q, A, I)
<1>1. PICK n : n = Lead(q, I)
  OBVIOUS
<1>2. n \in 0 .. Len(q) /\ \A i \in 1 .. n : i \in I
  BY <1>1, LeadCounts
<1> DEFINE head == SubSeq(q, 1, n)
           rest == SubSeq(q, n + 1, Len(q))
<1>3. /\ head \in Seq(A) /\ Len(head) = n /\ \A i \in 1 .. n : head[i] = q[i]
      /\ rest \in Seq(A) /\ Range(q) = Range(head) \cup Range(rest)
  BY <1>2, CutInTwo
<1> HIDE DEF head, rest
<1>4. Range(head) = {head[i] : i \in 1 .. n}
  BY <1>3, RangeEquality
<1>5. \A s \in Range(head) : \E i \in I : s = q[i]
  BY <1>2, <1>3, <1>4
<1>6. RestOf(rest, q, A, I)
  BY <1>3, <1>5 DEF RestOf
<1> QED BY <1>1, <1>6 DEF rest

\* From e to f segments that end at n or before are acknowledged, and no
\* others leave the queues.
Acked(e, f, n, o, k) ==
  /\ Sound(f, o, k) /\ SameCore(e, f) /\ SameRcv(e, f) /\ f.snd_lbb = e.snd_lbb
  /\ Queued(f) \subseteq Queued(e)
  /\ \A s \in Queued(e) \ Queued(f) : End(s) <= n

LEMMA NewAckKeeps ==
  ASSUME NEW o, NEW k \in Nat, NEW e, Sound(e, o, k),
         NEW m, m.ackno \in Nat, m.ackno <= e.snd_nxt
  PROVE  Acked(e, NewAck(e, m), m.ackno, o, k)
<1> DEFINE I == {i \in DOMAIN e.unacked : End(e.unacked[i]) <= m.ackno}
<1>1. PICK done : done = I
  OBVIOUS
<1>2. PICK n : n = Lead(e.unacked, done)
  OBVIOUS
<1>3. PICK rest : rest = SubSeq(e.unacked, n + 1, Len(e.unacked))
  OBVIOUS
<1>4. e.unacked \in Seq(Segs(o))
  BY DEF Sound, Queues
<1>5. /\ rest \in Seq(Segs(o)) /\ Range(rest) \subseteq Range(e.unacked)
      /\ \A s \in Range(e.unacked) \ Range(rest) : \E i \in done : s = e.unacked[i]
  <2>1. RestOf(rest, e.unacked, Segs(o), done)
    BY <1>2, <1>3, <1>4, RestKeeps
  <2> QED BY <2>1 DEF RestOf
<1>6. \A s \in Range(e.unacked) \ Range(rest) : End(s) <= m.ackno
  BY <1>1, <1>5
<1>7. PICK t, c : t = (rest # <<>>) /\ c = 2 * Mss
  OBVIOUS
<1>8. PICK f : f = [e EXCEPT !.flags = @ \ {"INFR"}, !.cwnd = c, !.nrtx = 0, !.dupacks = 0,
                             !.lastack = m.ackno, !.unacked = rest, !.timing = t]
  OBVIOUS
<1>9. NewAck(e, m) = f
  BY <1>1, <1>2, <1>3, <1>7, <1>8, Zenon DEF NewAck
<1>10. /\ f.lastack = m.ackno /\ f.unacked = rest /\ f.flags = e.flags \ {"INFR"}
       /\ f.dupacks = 0
       /\ Same(e, f, {"flags", "cwnd", "nrtx", "dupacks", "lastack", "unacked", "timing"})
  BY <1>8 DEF Sound, IsPcb, PcbFields, Same
<1>11. /\ f.snd_nxt = e.snd_nxt /\ f.snd_lbb = e.snd_lbb
       /\ f.rcv_nxt = e.rcv_nxt /\ f.holded = e.holded
       /\ f.rcv_ann_right_edge = e.rcv_ann_right_edge /\ f.rcv_wnd = e.rcv_wnd
       /\ f.rcv_ann_wnd = e.rcv_ann_wnd /\ f.unsent = e.unsent
  BY <1>10 DEF Same, PcbFields
<1>12. Sound(f, o, k)
  <2>1. Numbers(f, o, k)
    BY <1>10, <1>11 DEF Sound, Numbers
  <2>2. Queues(f, o, k)
    BY <1>5, <1>10 DEF Same, PcbFields, Sound, Queues
  <2> QED BY <1>10, <2>1, <2>2 DEF Sound, Same
<1>13. SameCore(e, f) /\ SameRcv(e, f)
  <2>1. Listening(f) <=> Listening(e)
    BY <1>10 DEF Listening
  <2> QED BY <1>10, <2>1 DEF Same, PcbFields, SameCore, SameRcv
<1>14. Queued(f) \subseteq Queued(e) /\ \A s \in Queued(e) \ Queued(f) : End(s) <= m.ackno
  BY <1>5, <1>6, <1>10, <1>11 DEF Queued
<1> QED BY <1>9, <1>11, <1>12, <1>13, <1>14 DEF Acked

LEMMA AckUnsentKeeps ==
  ASSUME NEW o, NEW k \in Nat, NEW e, Sound(e, o, k), NEW m
  PROVE  Acked(e, AckUnsent(e, m), m.ackno, o, k)
<1> DEFINE I == {i \in DOMAIN e.unsent : SeqBetween(m.ackno, End(e.unsent[i]), e.snd_nxt)}
<1>1. PICK done : done = I
  OBVIOUS
<1>2. PICK n : n = Lead(e.unsent, done)
  OBVIOUS
<1>3. PICK rest : rest = SubSeq(e.unsent, n + 1, Len(e.unsent))
  OBVIOUS
<1>4. e.unsent \in Seq(Segs(o))
  BY DEF Sound, Queues
<1>5. /\ rest \in Seq(Segs(o)) /\ Range(rest) \subseteq Range(e.unsent)
      /\ \A s \in Range(e.unsent) \ Range(rest) : \E i \in done : s = e.unsent[i]
  <2>1. RestOf(rest, e.unsent, Segs(o), done)
    BY <1>2, <1>3, <1>4, RestKeeps
  <2> QED BY <2>1 DEF RestOf
<1>6. \A s \in Range(e.unsent) \ Range(rest) : End(s) <= m.ackno
  BY <1>1, <1>5 DEF SeqBetween
<1>7. PICK f : f = [e EXCEPT !.unsent = rest]
  OBVIOUS
<1>8. AckUnsent(e, m) = f
  BY <1>1, <1>2, <1>3, <1>7, Zenon DEF AckUnsent
<1>9. f.unsent = rest /\ Same(e, f, {"unsent"})
  BY <1>7 DEF Sound, IsPcb, PcbFields, Same
<1>10. Sound(f, o, k)
  <2>1. Numbers(f, o, k)
    BY <1>9 DEF Same, PcbFields, Sound, Numbers
  <2>2. Queues(f, o, k)
    BY <1>5, <1>9 DEF Same, PcbFields, Sound, Queues
  <2> QED BY <1>9, <2>1, <2>2 DEF Sound, Same
<1>11. SameCore(e, f) /\ SameRcv(e, f) /\ f.snd_lbb = e.snd_lbb /\ f.snd_nxt = e.snd_nxt
       /\ f.unacked = e.unacked
  BY <1>9 DEF Same, PcbFields, SameCore, SameRcv, Listening
<1>12. Queued(f) \subseteq Queued(e) /\ \A s \in Queued(e) \ Queued(f) : End(s) <= m.ackno
  BY <1>5, <1>6, <1>9, <1>11 DEF Queued
<1> QED BY <1>8, <1>10, <1>11, <1>12 DEF Acked

LEMMA CalmIsAcked ==
  ASSUME NEW o, NEW k, NEW n, NEW e, NEW f, Calm(e, f, o, k)
  PROVE  Acked(e, f, n, o, k)
  BY DEF Calm, Quiet, Acked

LEMMA AckedTwice ==
  ASSUME NEW o, NEW k, NEW n, NEW e, NEW f, NEW g, Acked(e, f, n, o, k), Acked(f, g, n, o, k)
  PROVE  Acked(e, g, n, o, k)
<1>1. SameCore(e, g) /\ SameRcv(e, g)
  BY DEF Acked, SameCore, SameRcv
<1>2. Queued(g) \subseteq Queued(e) /\ \A s \in Queued(e) \ Queued(g) : End(s) <= n
  BY DEF Acked
<1> QED BY <1>1, <1>2 DEF Acked

LEMMA OldAckKeeps ==
  ASSUME NEW o, NEW k \in Nat, NEW e, Sound(e, o, k), NEW m, NEW edge
  PROVE  Calm(e, OldAck(e, m, edge), o, k)
<1> DEFINE dup == /\ TcpLen(m) = 0 /\ e.snd_wl2 + e.snd_wnd = edge /\ e.timing
                  /\ e.lastack = m.ackno
           n == IF e.dupacks > DupThreshold THEN e.dupacks ELSE e.dupacks + 1
<1>1. PICK c, d : c = n /\ d = IF dup THEN n ELSE 0
  OBVIOUS
<1>2. PICK f : f = [e EXCEPT !.dupacks = d]
  OBVIOUS
<1>3. Same(e, f, {"dupacks"}) /\ f.dupacks = d
  BY <1>2 DEF Sound, IsPcb, PcbFields, Same
<1>4. Same(e, f, {"timing", "persist", "nrtx", "dupacks", "cwnd", "snd_wnd", "snd_wl1",
                  "snd_wl2", "flags"})
  BY <1>3 DEF Same
<1>5. f.flags = e.flags
  BY <1>3 DEF Same, PcbFields
<1> c \in Nat /\ f.dupacks \in Nat
  <2>1. e.dupacks \in Nat
    BY DEF Sound, Numbers
  <2>2. c \in Nat /\ d \in Nat
    BY <1>1, <2>1
  <2> QED BY <1>3, <2>2
<1>6. Calm(e, f, o, k)
  BY <1>4, <1>5, CountersAreCalm
<1>7. Sound(f, o, k) /\ e.snd_nxt \in Nat
  BY <1>6 DEF Calm, Sound, Numbers
<1>8. PICK b \in BOOLEAN : b = dup
  OBVIOUS
<1>9. PICK fast, g : fast = RexmitFast(f) /\ g = [f EXCEPT !.cwnd = 2 * Mss]
  OBVIOUS
<1>10. OldAck(e, m, edge) = CASE ~b \/ c < DupThreshold -> f
                              [] b /\ c = DupThreshold -> fast
                              [] b /\ c > DupThreshold -> g
  BY <1>1, <1>2, <1>8, <1>9, Zenon DEF OldAck
<1>11. OldAck(e, m, edge) \in {f, fast, g}
  BY <1>10, TcpAssumption
<1>12. Calm(f, fast, o, k)
  BY <1>7, <1>9, RexmitFastKeeps
<1>13. Calm(f, g, o, k)
  <2>1. PICK w : w = 2 * Mss
    OBVIOUS
  <2>2. Same(f, g, {"cwnd"})
    BY <1>7, <1>9, <2>1 DEF Sound, IsPcb, PcbFields, Same
  <2>3. Same(f, g, {"timing", "persist", "nrtx", "dupacks", "cwnd", "snd_wnd", "snd_wl1",
                    "snd_wl2", "flags"})
    BY <2>2 DEF Same
  <2>4. g.flags = f.flags /\ g.dupacks = f.dupacks
    BY <2>2 DEF Same, PcbFields
  <2> QED BY <1>7, <2>3, <2>4, CountersAreCalm
<1>14. Calm(e, fast, o, k) /\ Calm(e, g, o, k)
  BY <1>6, <1>7, <1>12, <1>13, CalmTwice
<1> QED BY <1>6, <1>11, <1>14

LEMMA UpdateSndWndKeeps ==
  ASSUME NEW o, NEW k \in Nat, NEW e, Sound(e, o, k), NEW m
  PROVE  Calm(e, UpdateSndWnd(e, m), o, k)
<1>1. CASE ~WindowNews(e, m)
  <2>1. UpdateSndWnd(e, m) = e
    BY <1>1 DEF UpdateSndWnd
  <2>2. Calm(e, e, o, k)
    BY DEF Calm, Quiet, SameCore, SameRcv, Sound, Numbers
  <2> QED BY <2>1, <2>2
<1>2. CASE WindowNews(e, m)
  <2>1. PICK per : per = (e.persist /\ m.wnd = 0)
    OBVIOUS
  <2>2. PICK f : f = [e EXCEPT !.snd_wnd = m.wnd, !.snd_wl1 = m.seq, !.snd_wl2 = m.ackno,
                              !.persist = per]
    OBVIOUS
  <2>3. UpdateSndWnd(e, m) = f
    BY <1>2, <2>1, <2>2, Zenon DEF UpdateSndWnd
  <2>4. Same(e, f, {"snd_wnd", "snd_wl1", "snd_wl2", "persist"})
    BY <2>2 DEF Sound, IsPcb, PcbFields, Same
  <2>5. Same(e, f, {"timing", "persist", "nrtx", "dupacks", "cwnd", "snd_wnd", "snd_wl1",
                    "snd_wl2", "flags"})
    BY <2>4 DEF Same
  <2>6. f.flags = e.flags /\ f.dupacks \in Nat
    BY <2>4 DEF Same, PcbFields, Sound, Numbers
  <2> QED BY <2>3, <2>5, <2>6, CountersAreCalm
<1> QED BY <1>1, <1>2

\* The first part of tcp_receive takes nothing from the queues that the peer
\* did not acknowledge.
LEMMA ReceiveAckKeeps ==
  ASSUME NEW o, NEW k \in Nat, NEW e, Sound(e, o, k), NEW m, m.ack => m.ackno \in Nat
  PROVE  Acked(e, ReceiveAck(e, m), m.ackno, o, k)
<1>1. CASE ~m.ack
  <2>1. ReceiveAck(e, m) = e
    BY <1>1, Zenon DEF ReceiveAck
  <2>2. Acked(e, e, m.ackno, o, k)
    BY DEF Acked, SameCore, SameRcv
  <2> QED BY <2>1, <2>2
<1>2. CASE m.ack
  <2>1. PICK f : f = UpdateSndWnd(e, m)
    OBVIOUS
  <2>2. PICK edge : edge = e.snd_wl2 + e.snd_wnd
    OBVIOUS
  <2>3. PICK g : g = IF m.ackno <= f.lastack THEN OldAck(f, m, edge)
                     ELSE IF m.ackno <= f.snd_nxt THEN NewAck(f, m) ELSE f
    OBVIOUS
  <2>4. ReceiveAck(e, m) = AckUnsent(g, m)
    BY <1>2, <2>1, <2>2, <2>3, Zenon DEF ReceiveAck
  <2>5. Calm(e, f, o, k)
    BY <2>1, UpdateSndWndKeeps
  <2>6. Sound(f, o, k) /\ Acked(e, f, m.ackno, o, k)
    BY <2>5, CalmIsAcked DEF Calm
  <2>7. Acked(f, g, m.ackno, o, k)
    <3>1. CASE m.ackno <= f.lastack
      <4>1. g = OldAck(f, m, edge)
        BY <2>3, <3>1
      <4> QED BY <2>6, <4>1, OldAckKeeps, CalmIsAcked
    <3>2. CASE ~(m.ackno <= f.lastack) /\ m.ackno <= f.snd_nxt
      <4>1. g = NewAck(f, m)
        BY <2>3, <3>2
      <4> QED BY <1>2, <2>6, <3>2, <4>1, NewAckKeeps
    <3>3. CASE ~(m.ackno <= f.lastack) /\ ~(m.ackno <= f.snd_nxt)
      <4>1. g = f
        BY <2>3, <3>3
      <4> QED BY <2>6, <4>1 DEF Acked, SameCore, SameRcv
    <3> QED BY <3>1, <3>2, <3>3
  <2>8. Sound(g, o, k)
    BY <2>7 DEF Acked
  <2>9. Acked(g, AckUnsent(g, m), m.ackno, o, k)
    BY <2>8, AckUnsentKeeps
  <2> QED BY <2>4, <2>6, <2>7, <2>9, AckedTwice
<1> QED BY <1>1, <1>2

\* What is left of the queue r ends where r does.
EndsAlike(q, r) == q = <<>> \/ (r # <<>> /\ Last(q) = Last(r))

\* A segment that is not an empty ACK leaves the end of unsent where it was.
LEMMA UnsentEndStays ==
  ASSUME NEW o, NEW k \in Nat, NEW e, Sound(e, o, k), NEW m, m.ack => m.ackno \in Nat,
         TcpLen(m) # 0
  PROVE  EndsAlike(ReceiveAck(e, m).unsent, e.unsent)
<1>1. CASE ~m.ack
  <2>1. ReceiveAck(e, m) = e
    BY <1>1, Zenon DEF ReceiveAck
  <2> QED BY <2>1 DEF EndsAlike
<1>2. CASE m.ack
  <2>1. PICK f : f = UpdateSndWnd(e, m)
    OBVIOUS
  <2>2. PICK edge : edge = e.snd_wl2 + e.snd_wnd
    OBVIOUS
  <2>3. PICK g : g = IF m.ackno <= f.lastack THEN OldAck(f, m, edge)
                     ELSE IF m.ackno <= f.snd_nxt THEN NewAck(f, m) ELSE f
    OBVIOUS
  <2>4. ReceiveAck(e, m) = AckUnsent(g, m)
    BY <1>2, <2>1, <2>2, <2>3, Zenon DEF ReceiveAck
  <2>5. IsPcb(e) /\ e.unsent \in Seq(Segs(o))
    BY DEF Sound, Queues
  <2>6. f.unsent = e.unsent /\ IsPcb(f)
    BY <2>1, <2>5 DEF UpdateSndWnd, IsPcb, PcbFields
  <2>7. g.unsent = e.unsent /\ IsPcb(g)
    <3>1. OldAck(f, m, edge) = [f EXCEPT !.dupacks = 0]
      BY Zenon DEF OldAck
    <3>2. OldAck(f, m, edge).unsent = e.unsent /\ IsPcb(OldAck(f, m, edge))
      BY <2>6, <3>1 DEF IsPcb, PcbFields
    <3>3. NewAck(f, m).unsent = e.unsent /\ IsPcb(NewAck(f, m))
      BY <2>6 DEF NewAck, IsPcb, PcbFields
    <3> QED BY <2>3, <2>6, <3>2, <3>3
  <2>8. PICK n : n = Lead(e.unsent, {i \in DOMAIN e.unsent :
                                        SeqBetween(m.ackno, End(e.unsent[i]), g.snd_nxt)})
    OBVIOUS
  <2>9. n \in 0 .. Len(e.unsent)
    BY <2>5, <2>8, LeadCounts
  <2> DEFINE rest == SubSeq(e.unsent, n + 1, Len(e.unsent))
  <2>10. AckUnsent(g, m).unsent = rest
    <3>1. AckUnsent(g, m) = [g EXCEPT !.unsent = rest]
      BY <2>7, <2>8, Zenon DEF AckUnsent
    <3> HIDE DEF rest
    <3> QED BY <2>7, <3>1 DEF IsPcb, PcbFields
  <2>11. /\ rest \in Seq(Segs(o)) /\ Len(rest) = Len(e.unsent) - n
         /\ \A i \in 1 .. Len(e.unsent) - n : rest[i] = e.unsent[n + i]
    BY <2>5, <2>9, CutInTwo
  <2>12. rest = <<>> \/ (e.unsent # <<>> /\ Last(rest) = Last(e.unsent))
    <3>1. Len(e.unsent) \in Nat
      BY <2>5, LenProperties
    <3> HIDE DEF rest
    <3>2. rest # <<>> => Len(rest) \in 1 .. Len(e.unsent) - n
      BY <2>9, <2>11, <3>1, EmptySeq
    <3>3. rest # <<>> => rest[Len(rest)] = e.unsent[Len(e.unsent)]
      BY <2>9, <2>11, <3>1, <3>2
    <3>4. rest # <<>> => Len(e.unsent) # 0
      BY <2>9, <3>1, <3>2
    <3>5. rest # <<>> => e.unsent # <<>>
      BY <2>5, <3>4, EmptySeq
    <3> QED BY <3>3, <3>5 DEF Last
  <2> QED BY <2>4, <2>10, <2>12 DEF EndsAlike
<1> QED BY <1>1, <1>2

-----------------------------------------------------------------------------
(* The stream grows.                                                       *)

Grows(o, r) ==
  /\ o.written \in Nat /\ r.written \in Nat /\ o.written <= r.written
  /\ Over(o) => Over(r) /\ r.written = o.written

\* What belonged to the stream still does.
LEMMA GrowingKeeps ==
  ASSUME NEW o, NEW r, Grows(o, r), NEW s, s.seq \in Nat, Len(s.data) \in Nat
  PROVE  /\ InStream(s, o) => InStream(s, r)
         /\ Genuine(s, o) => Genuine(s, r)
<1>1. ASSUME InStream(s, o) PROVE InStream(s, r)
  <2>1. s.seq >= 1 /\ DataEnd(s) <= o.written + 1 /\ DataEnd(s) \in Nat
        /\ \A i \in DOMAIN s.data : s.data[i] = s.seq + i - 1
    BY <1>1 DEF InStream, DataEnd
  <2>2. DataEnd(s) <= r.written + 1
    BY <2>1 DEF Grows
  <2>3. s.fin => Over(r) /\ DataEnd(s) = r.written + 1
    <3>1. CASE s.fin
      <4>1. Over(o) /\ DataEnd(s) = o.written + 1
        BY <1>1, <3>1, Zenon DEF InStream
      <4>2. Over(r) /\ r.written = o.written
        BY <4>1, Zenon DEF Grows
      <4> QED BY <4>1, <4>2, Zenon
    <3>2. CASE ~s.fin
      BY <3>2, Zenon
    <3> QED BY <3>1, <3>2, Zenon
  <2> QED BY <2>1, <2>2, <2>3, Zenon DEF InStream
<1>2. Genuine(s, o) => Genuine(s, r)
  BY <1>1, Zenon DEF Genuine
<1> QED BY <1>1, <1>2, Zenon

LEMMA SegsGrow ==
  ASSUME NEW o, NEW r, Grows(o, r)
  PROVE  Segs(o) \subseteq Segs(r)
<1> SUFFICES ASSUME NEW s \in Segs(o) PROVE s \in Segs(r)
  OBVIOUS
<1>1. s \in Segment /\ Genuine(s, o) /\ (s.syn \/ s.fin \/ s.data # <<>>)
  BY DEF Segs
<1>2. s.seq \in Nat /\ Len(s.data) \in Nat
  BY <1>1 DEF Segment
<1>3. Genuine(s, r)
  BY <1>1, <1>2, GrowingKeeps
<1> QED BY <1>1, <1>3, Zenon DEF Segs

LEMMA SentGrow ==
  ASSUME NEW o, NEW r, Grows(o, r), NEW k \in Nat, NEW l \in Nat, k <= l
  PROVE  Sent(o, k) \subseteq Sent(r, l)
<1> SUFFICES ASSUME NEW p \in Sent(o, k) PROVE p \in Sent(r, l)
  OBVIOUS
<1>1. p \in Datagram /\ Genuine(p, o)
  BY DEF Sent
<1>2. p.seq \in Nat /\ Len(p.data) \in Nat /\ p.ackno \in Nat
      /\ p.ack \in BOOLEAN /\ p.rst \in BOOLEAN
  BY <1>1 DEF Datagram
<1>3. Genuine(p, r)
  BY <1>1, <1>2, GrowingKeeps
<1>4. p.ack /\ ~p.rst => p.ackno <= l
  <2>1. CASE p.ack /\ ~p.rst
    <3>1. p.ackno <= k
      BY <2>1, Zenon DEF Sent
    <3> QED BY <1>2, <3>1
  <2> QED BY <2>1, Zenon
<1> QED BY <1>1, <1>3, <1>4, Zenon DEF Sent

LEMMA SeqGrow ==
  ASSUME NEW A, NEW B, A \subseteq B, NEW q \in Seq(A)
  PROVE  q \in Seq(B)
<1>1. Len(q) \in Nat /\ \A i \in 1 .. Len(q) : q[i] \in B
  BY LenProperties, ElementOfSeq
<1>2. q = [i \in 1 .. Len(q) |-> q[i]]
  OBVIOUS
<1>3. [i \in 1 .. Len(q) |-> q[i]] \in Seq(B)
  BY <1>1
<1> QED BY <1>2, <1>3

LEMMA SoundGrows ==
  ASSUME NEW o, NEW r, Grows(o, r), NEW k \in Nat, NEW l \in Nat, k <= l,
         NEW e, Sound(e, o, k)
  PROVE  Sound(e, r, l)
<1>1. Numbers(e, r, l)
  BY DEF Sound, Numbers, Grows
<1>2. Queues(e, r, l)
  <2>1. e.unsent \in Seq(Segs(r)) /\ e.unacked \in Seq(Segs(r))
    BY SegsGrow, SeqGrow DEF Sound, Queues
  <2>2. e.drv \in Seq(Sent(r, l)) /\ e.out \in Seq(Sent(r, l))
    BY SentGrow, SeqGrow DEF Sound, Queues
  <2> QED BY <2>1, <2>2 DEF Queues
<1> QED BY <1>1, <1>2 DEF Sound

LEMMA AppendKeeps ==
  ASSUME NEW A, NEW q \in Seq(A), NEW s \in A
  PROVE  Append(q, s) \in Seq(A) /\ Range(Append(q, s)) = Range(q) \cup {s}
<1>1. PICK n \in Nat : n = Len(q)
  BY LenProperties
<1> PICK r : r = Append(q, s)
  OBVIOUS
<1>2. r \in Seq(A) /\ Len(r) = n + 1 /\ (\A i \in 1 .. n : r[i] = q[i]) /\ r[n + 1] = s
  BY <1>1, AppendProperties
<1>3. Range(q) = {q[i] : i \in 1 .. n} /\ Range(r) = {r[i] : i \in 1 .. n + 1}
  <2>1. Range(q) = {q[i] : i \in 1 .. Len(q)}
    BY RangeEquality
  <2>2. Range(r) = {r[i] : i \in 1 .. Len(r)}
    BY <1>2, RangeEquality, ZenonT(30)
  <2> QED BY <1>1, <1>2, <2>1, <2>2
<1>4. \A i \in 1 .. n + 1 : i = n + 1 \/ i \in 1 .. n
  BY <1>1
<1>5. \A x \in Range(r) : x \in Range(q) \cup {s}
  BY <1>2, <1>3, <1>4
<1>6. \A x \in Range(q) : x \in Range(r)
  BY <1>2, <1>3
<1>7. s \in Range(r)
  BY <1>2, <1>3
<1> QED BY <1>2, <1>5, <1>6, <1>7

\* The last segment of a queue is replaced.
LEMMA LastReplaced ==
  ASSUME NEW A, NEW q \in Seq(A), q # <<>>, NEW s \in A
  PROVE  /\ Last(q) \in A /\ Last(q) \in Range(q)
         /\ Append(Front(q), s) \in Seq(A)
         /\ Range(Append(Front(q), s)) \subseteq Range(q) \cup {s}
         /\ \A x \in Range(q) : x = Last(q) \/ x \in Range(Append(Front(q), s))
         /\ s \in Range(Append(Front(q), s))
<1>1. Len(q) \in Nat /\ Len(q) > 0 /\ \A i \in 1 .. Len(q) : q[i] \in A
  BY LenProperties, ElementOfSeq, EmptySeq
<1>2. PICK n : n = Len(q) - 1 /\ n \in 0 .. Len(q)
  BY <1>1
<1> DEFINE front == SubSeq(q, 1, n)
           new == Append(front, s)
<1>3. front \in Seq(A) /\ Len(front) = n /\ \A i \in 1 .. n : front[i] = q[i]
  BY <1>2, CutInTwo
<1>4. Front(q) = front
  BY <1>2 DEF Front
<1> HIDE DEF front
<1>5. /\ new \in Seq(A) /\ Len(new) = n + 1 /\ new[n + 1] = s
      /\ \A i \in 1 .. n : new[i] = q[i]
  BY <1>3, AppendProperties
<1> HIDE DEF new
<1>6. Range(q) = {q[i] : i \in 1 .. n + 1} /\ Range(new) = {new[i] : i \in 1 .. n + 1}
  BY <1>1, <1>2, <1>5, RangeEquality
<1>7. Last(q) = q[n + 1] /\ n + 1 \in 1 .. Len(q) /\ n \in Nat
  BY <1>1, <1>2 DEF Last
<1>8. \A i \in 1 .. n + 1 : i = n + 1 \/ i \in 1 .. n
  BY <1>7
<1>9. \A x \in Range(new) : x \in Range(q) \cup {s}
  BY <1>5, <1>6, <1>8
<1>10. \A x \in Range(q) : x = Last(q) \/ x \in Range(new)
  BY <1>5, <1>6, <1>7, <1>8
<1>11. Last(q) \in A /\ Last(q) \in Range(q) /\ s \in Range(new)
  BY <1>1, <1>5, <1>6, <1>7
<1>12. Append(Front(q), s) = new
  BY <1>4 DEF new
<1> QED BY <1>5, <1>9, <1>10, <1>11, <1>12

\* A byte that is in a queue of e.
Covers(e, i) == \E s \in Queued(e) : Contains(s.data, i)

\* From e to f the queues take segments of r and give no byte away.
Enqueues(e, f, r, k) ==
  /\ Sound(f, r, k) /\ SameCore(e, f) /\ SameRcv(e, f)
  /\ \A i : Covers(e, i) => Covers(f, i)

\* Where SYN and FIN are queued.
LEMMA EnqueueFlagsKeeps ==
  ASSUME NEW o, NEW r, Grows(o, r), NEW k \in Nat, NEW e, Sound(e, o, k),
         NEW syn \in BOOLEAN, NEW fin \in BOOLEAN, syn # fin,
         syn => e.snd_lbb = 0, fin => Over(r) /\ e.snd_lbb = r.written + 1
  PROVE  LET f == EnqueueFlags(e, syn, fin) IN
         /\ Enqueues(e, f, r, k) /\ f.snd_lbb = e.snd_lbb + 1
         /\ Queued(f) = Queued(e) \cup {Seg(e.snd_lbb, <<>>, syn, fin)}
<1> DEFINE f == EnqueueFlags(e, syn, fin)
<1>1. PICK s : s = Seg(e.snd_lbb, <<>>, syn, fin)
  OBVIOUS
<1>2. Sound(e, r, k)
  BY SoundGrows
<1>3. PICK none \in Seq(Nat) : none = <<>>
  <2>1. <<>> \in Seq(Nat)
    OBVIOUS
  <2> QED BY <2>1, Zenon
<1>4. s = [seq |-> e.snd_lbb, data |-> none, syn |-> syn, fin |-> fin] /\ e.snd_lbb \in Nat
      /\ r.written \in Nat
  BY <1>1, <1>2, <1>3 DEF Seg, Sound, Numbers
<1>5. s \in Segment
  BY <1>4 DEF Segment
<1>6. Genuine(s, r) /\ (s.syn \/ s.fin \/ s.data # <<>>)
  <2>1. CASE syn
    <3>1. ~fin
      BY <2>1
    <3>2. s.seq = 0 /\ s.data = <<>> /\ ~s.fin /\ s.syn
      BY <1>3, <1>4, <2>1, <3>1
    <3> QED BY <3>2, Zenon DEF Genuine
  <2>2. CASE ~syn
    <3>1. fin
      BY <2>2
    <3>2. s.seq = r.written + 1 /\ s.data = <<>> /\ s.fin /\ ~s.syn /\ Len(s.data) = 0
          /\ DOMAIN s.data = {}
      BY <1>3, <1>4, <2>2, <3>1
    <3>3. InStream(s, r)
      <4>1. DataEnd(s) = r.written + 1 /\ s.seq >= 1 /\ DataEnd(s) <= r.written + 1
        BY <1>4, <3>2 DEF DataEnd
      <4> QED BY <3>1, <3>2, <4>1 DEF InStream
    <3> QED BY <3>2, <3>3, Zenon DEF Genuine
  <2> QED BY <2>1, <2>2
<1>7. s \in Segs(r)
  <2>1. Len(s.data) <= Mss
    BY <1>3, <1>4, TcpAssumption
  <2> QED BY <1>5, <1>6, <2>1, Zenon DEF Segs
<1>8. PICK q : q = Append(e.unsent, s)
  OBVIOUS
<1>9. e.unsent \in Seq(Segs(r))
  BY <1>2 DEF Sound, Queues
<1>10. q \in Seq(Segs(r)) /\ Range(q) = Range(e.unsent) \cup {s}
  <2>1. /\ Append(e.unsent, s) \in Seq(Segs(r))
        /\ Range(Append(e.unsent, s)) = Range(e.unsent) \cup {s}
    BY <1>7, <1>9, AppendKeeps
  <2> QED BY <1>8, <2>1, Zenon
<1>11. PICK n : n = e.snd_lbb + 1
  OBVIOUS
<1>12. f = [e EXCEPT !.unsent = q, !.snd_lbb = n]
  BY <1>1, <1>2, <1>8, <1>11 DEF EnqueueFlags, Sound, IsPcb, PcbFields
<1> HIDE DEF f
<1>13. f.unsent = q /\ f.snd_lbb = n /\ Same(e, f, {"unsent", "snd_lbb"})
  BY <1>2, <1>12 DEF Sound, IsPcb, PcbFields, Same
<1>14. Numbers(f, r, k)
  <2>1. /\ f.snd_nxt = e.snd_nxt /\ f.lastack = e.lastack
        /\ f.rcv_nxt = e.rcv_nxt /\ f.holded = e.holded /\ f.dupacks = e.dupacks
        /\ f.rcv_ann_right_edge = e.rcv_ann_right_edge /\ f.rcv_wnd = e.rcv_wnd
        /\ f.rcv_ann_wnd = e.rcv_ann_wnd
    BY <1>13 DEF Same, PcbFields
  <2>2. f.snd_lbb \in Nat
    BY <1>4, <1>11, <1>13
  <2> QED BY <1>2, <2>1, <2>2 DEF Sound, Numbers
<1>15. Queues(f, r, k)
  BY <1>2, <1>10, <1>13 DEF Same, PcbFields, Sound, Queues
<1>16. SameCore(e, f) /\ SameRcv(e, f) /\ f.unacked = e.unacked
  BY <1>13 DEF Same, PcbFields, SameCore, SameRcv, Listening
<1>17. Queued(f) = Queued(e) \cup {s}
  BY <1>10, <1>13, <1>16 DEF Queued
<1>18. Enqueues(e, f, r, k)
  BY <1>13, <1>14, <1>15, <1>16, <1>17 DEF Enqueues, Covers, Sound, Same
<1> QED BY <1>1, <1>11, <1>13, <1>17, <1>18 DEF f

\* tcp_send_fin: the FIN comes after all the data.
LEMMA SendFinKeeps ==
  ASSUME NEW o, NEW r, Grows(o, r), Over(r), r.written = o.written, NEW k \in Nat,
         NEW e, Sound(e, o, k), e.snd_lbb = o.written + 1, EndsTheStream(e)
  PROVE  Enqueues(e, SendFin(e), r, k) /\ SendFin(e).snd_lbb >= r.written + 1
<1> DEFINE last == Last(e.unsent)
<1>1. e.unsent \in Seq(Segs(o)) /\ Sound(e, r, k) /\ e.snd_lbb \in Nat /\ r.written \in Nat
  <2>1. Sound(e, r, k)
    <3>1. k <= k
      OBVIOUS
    <3> QED BY <3>1, SoundGrows
  <2>2. e.unsent \in Seq(Segs(o))
    BY DEF Sound, Queues
  <2> QED BY <2>1, <2>2 DEF Sound, Numbers
<1>2. CASE e.unsent # <<>> /\ ~last.syn /\ ~last.fin
  <2>1. PICK t : t = last
    OBVIOUS
  <2>2. t \in Segs(o)
    <3>1. e.unsent # <<>>
      BY <1>2
    <3>2. PICK x \in Segs(o) : TRUE
      BY <1>1, <3>1, HeadAndTail
    <3> QED BY <1>1, <2>1, <3>1, <3>2, LastReplaced
  <2>3. /\ t \in Segment /\ Genuine(t, o) /\ t.data # <<>> /\ ~t.syn /\ ~t.fin
        /\ Len(t.data) <= Mss
    BY <1>2, <2>1, <2>2, Zenon DEF Segs
  <2>4. t.seq \in Nat /\ t.data \in Seq(Nat) /\ Len(t.data) \in Nat
    BY <2>3 DEF Segment
  <2>5. InStream(t, r)
    BY <2>3, <2>4, GrowingKeeps, Zenon DEF Genuine
  <2>6. DataEnd(t) = r.written + 1
    BY <1>2, <2>1 DEF EndsTheStream
  <2>7. PICK s : s = [t EXCEPT !.fin = TRUE]
    OBVIOUS
  <2>8. s \in Segment /\ s.seq = t.seq /\ s.data = t.data /\ ~s.syn /\ s.fin
    BY <2>3, <2>7 DEF Segment
  <2>9. InStream(s, r)
    BY <2>5, <2>6, <2>8, Zenon DEF InStream, DataEnd
  <2>10. s \in Segs(r)
    BY <2>3, <2>8, <2>9, Zenon DEF Segs, Genuine
  <2>11. PICK q : q = Append(Front(e.unsent), s)
    OBVIOUS
  <2>12. e.unsent \in Seq(Segs(r)) /\ e.unsent # <<>>
    BY <1>1, <1>2 DEF Sound, Queues
  <2>13. /\ q \in Seq(Segs(r)) /\ s \in Range(q)
         /\ \A x \in Range(e.unsent) : x = t \/ x \in Range(q)
    BY <2>1, <2>10, <2>11, <2>12, LastReplaced
  <2>14. PICK f : f = [e EXCEPT !.unsent = q]
    OBVIOUS
  <2>15. SendFin(e) = f
    BY <1>2, <2>1, <2>7, <2>11, <2>14, Zenon DEF SendFin, TakesFin
  <2>16. f.unsent = q /\ Same(e, f, {"unsent"})
    BY <1>1, <2>14 DEF Sound, IsPcb, PcbFields, Same
  <2>17. Sound(f, r, k)
    <3>1. Numbers(f, r, k)
      BY <1>1, <2>16, NumbersStay DEF Sound
    <3>2. Queues(f, r, k)
      BY <1>1, <2>13, <2>16 DEF Same, PcbFields, Sound, Queues
    <3> QED BY <2>16, <3>1, <3>2 DEF Same, Sound
  <2>18. SameCore(e, f) /\ SameRcv(e, f) /\ f.unacked = e.unacked /\ f.snd_lbb = e.snd_lbb
    BY <2>16 DEF Same, PcbFields, SameCore, SameRcv, Listening
  <2>19. ASSUME NEW i, Covers(e, i) PROVE Covers(f, i)
    <3>1. PICK x \in Queued(e) : Contains(x.data, i)
      BY <2>19 DEF Covers
    <3>2. x \in Queued(f) \/ x = t
      BY <2>13, <2>16, <2>18 DEF Queued
    <3>3. s \in Queued(f)
      BY <2>13, <2>16 DEF Queued
    <3> QED BY <2>8, <3>1, <3>2, <3>3 DEF Covers
  <2>20. Enqueues(e, f, r, k)
    BY <2>17, <2>18, <2>19 DEF Enqueues
  <2>21. f.snd_lbb >= r.written + 1
    BY <1>1, <2>18
  <2> QED BY <2>15, <2>20, <2>21
<1>3. CASE ~(e.unsent # <<>> /\ ~last.syn /\ ~last.fin)
  <2>1. SendFin(e) = EnqueueFlags(e, FALSE, TRUE)
    BY <1>3 DEF SendFin, TakesFin
  <2>2. PICK f : f = EnqueueFlags(e, FALSE, TRUE)
    OBVIOUS
  <2>3. PICK no, yes \in BOOLEAN : no = FALSE /\ yes = TRUE
    OBVIOUS
  <2>4. no # yes /\ ~no /\ e.snd_lbb = r.written + 1
    BY <2>3
  <2>5. /\ Enqueues(e, EnqueueFlags(e, no, yes), r, k)
        /\ EnqueueFlags(e, no, yes).snd_lbb = e.snd_lbb + 1
    BY <2>4, EnqueueFlagsKeeps
  <2>6. Enqueues(e, f, r, k) /\ f.snd_lbb = e.snd_lbb + 1
    BY <2>2, <2>3, <2>5, Zenon
  <2>7. f.snd_lbb >= r.written + 1
    BY <1>1, <2>4, <2>6
  <2> QED BY <2>1, <2>2, <2>6, <2>7
<1> QED BY <1>2, <1>3

-----------------------------------------------------------------------------
(* tcp_write.                                                              *)

LEMMA DivisionIs ==
  ASSUME NEW x \in Nat, NEW m \in Nat \ {0}
  PROVE  /\ x \div m \in Nat /\ (x \div m) * m <= x /\ x < (x \div m) * m + m
         /\ \A q \in Nat : q * m <= x => q <= x \div m
<1>1. PICK d \in Nat : d = x \div m
  OBVIOUS
<1>2. d * m <= x /\ x < d * m + m
  BY <1>1
<1>3. ASSUME NEW q \in Nat, q * m <= x PROVE q <= d
  <2>1. SUFFICES ASSUME d + 1 <= q PROVE FALSE
    OBVIOUS
  <2>2. PICK c \in Nat : c = q - (d + 1)
    BY <2>1
  <2>3. q = d + 1 + c
    BY <2>2
  <2>4. q * m = d * m + m + c * m
    BY <2>3
  <2>5. c * m \in Nat /\ d * m \in Nat
    OBVIOUS
  <2> QED BY <1>2, <1>3, <2>4, <2>5
<1> QED BY <1>1, <1>2, <1>3

\* Where the i-th new segment of x bytes begins, and which one holds byte b.
LEMMA PlacesInSegments ==
  ASSUME NEW x \in Nat, NEW m \in Nat \ {0}
  PROVE  LET c == (x + m - 1) \div m IN
         /\ c \in Nat
         /\ \A i \in 1 .. c : (i - 1) * m \in Nat /\ (i - 1) * m < x
         /\ \A b \in 1 .. x : \E i \in 1 .. c : (i - 1) * m < b /\ b <= (i - 1) * m + m
<1>1. PICK c : c = (x + m - 1) \div m
  OBVIOUS
<1>2. x + m - 1 \in Nat
  OBVIOUS
<1>3. c \in Nat /\ c * m <= x + m - 1 /\ \A q \in Nat : q * m <= x + m - 1 => q <= c
  BY <1>1, <1>2, DivisionIs
<1>4. ASSUME NEW i \in 1 .. c PROVE (i - 1) * m \in Nat /\ (i - 1) * m < x
  <2>1. PICK d \in Nat : d = c - i
    BY <1>3
  <2>2. c = i + d
    BY <1>3, <2>1
  <2>3. c * m = (i - 1) * m + m + d * m
    BY <2>2
  <2>4. d * m \in Nat /\ (i - 1) * m \in Nat
    BY <1>3
  <2> QED BY <1>3, <2>3, <2>4
<1>5. ASSUME NEW b \in 1 .. x
      PROVE  \E i \in 1 .. c : (i - 1) * m < b /\ b <= (i - 1) * m + m
  <2>1. PICK d : d = (b - 1) \div m
    OBVIOUS
  <2>2. d \in Nat /\ d * m <= b - 1 /\ b - 1 < d * m + m
    <3>1. b - 1 \in Nat
      OBVIOUS
    <3> QED BY <2>1, <3>1, DivisionIs
  <2>3. (d + 1) * m = d * m + m /\ d * m \in Nat
    BY <2>2
  <2>4. d + 1 <= c
    <3>1. (d + 1) * m <= x + m - 1
      BY <2>2, <2>3
    <3> QED BY <1>3, <2>2, <3>1
  <2>5. PICK i \in 1 .. c : i = d + 1
    BY <1>3, <2>2, <2>4
  <2>6. i - 1 = d
    BY <2>2, <2>5
  <2>7. d * m < b /\ b <= d * m + m
    BY <2>2, <2>3
  <2>8. (i - 1) * m < b /\ b <= (i - 1) * m + m
    BY <2>6, <2>7, Zenon
  <2> QED BY <2>8, Zenon
<1> QED BY <1>1, <1>3, <1>4, <1>5

\* The n bytes after the first w.
Bytes(w, n) == [i \in 1 .. n |-> w + i]

\* s holds the bytes of a stream from w + i + 1 to w + j.
IsSlice(s, w, i, j) ==
  s \in Seq(Nat) /\ Len(s) = j - i /\ \A x \in 1 .. j - i : s[x] = w + i + x

LEMMA SliceOfBytes ==
  ASSUME NEW w \in Nat, NEW n \in Nat, NEW i \in Nat, NEW j \in Nat, i <= j, j <= n
  PROVE  IsSlice(SubSeq(Bytes(w, n), i + 1, j), w, i, j)
<1>1. PICK b : b = Bytes(w, n)
  OBVIOUS
<1>2. \A x \in i + 1 .. j : b[x] = w + x
  BY <1>1 DEF Bytes
<1>3. i + 1 \in Int /\ j \in Int /\ \A x \in i + 1 .. j : b[x] \in Nat
  BY <1>2
<1>4. PICK s : s = SubSeq(b, i + 1, j)
  OBVIOUS
<1>5. /\ s \in Seq(Nat) /\ Len(s) = IF i + 1 <= j THEN j - (i + 1) + 1 ELSE 0
      /\ \A x \in 1 .. j - (i + 1) + 1 : s[x] = b[i + 1 + x - 1]
  BY <1>3, <1>4, SubSeqProperties
<1>6. \A x \in 1 .. j - i : s[x] = w + i + x
  <2> TAKE x \in 1 .. j - i
  <2>1. s[x] = b[i + x] /\ i + x \in i + 1 .. j
    BY <1>5
  <2> QED BY <1>2, <2>1
<1>7. Len(s) = j - i
  BY <1>5
<1> QED BY <1>1, <1>4, <1>5, <1>6, <1>7 DEF IsSlice

\* A segment that holds the bytes from i + 1 to j of the n new ones.
LEMMA NewSegment ==
  ASSUME NEW f, f.written \in Nat, NEW w \in Nat, NEW n \in Nat, f.written = w + n,
         NEW i \in Nat, NEW j \in Nat, i < j, j <= n, j - i <= Mss
  PROVE  LET s == Seg(w + 1 + i, SubSeq(Bytes(w, n), i + 1, j), FALSE, FALSE) IN
         /\ s \in Segs(f)
         /\ \A b \in i + 1 .. j : Contains(s.data, w + b)
<1>1. PICK d : d = SubSeq(Bytes(w, n), i + 1, j)
  OBVIOUS
<1>2. d \in Seq(Nat) /\ Len(d) = j - i /\ \A x \in 1 .. j - i : d[x] = w + i + x
  <2>1. IsSlice(d, w, i, j)
    BY <1>1, SliceOfBytes
  <2> QED BY <2>1 DEF IsSlice
<1>3. PICK s : s = [seq |-> w + 1 + i, data |-> d, syn |-> FALSE, fin |-> FALSE]
  OBVIOUS
<1>4. s \in Segment /\ s.seq = w + 1 + i /\ s.data = d /\ ~s.syn /\ ~s.fin
  BY <1>2, <1>3 DEF Segment
<1>5. InStream(s, f)
  <2>1. DataEnd(s) = w + 1 + j
    <3>1. s.seq = w + 1 + i /\ Len(s.data) = j - i
      BY <1>2, <1>4
    <3> QED BY <3>1 DEF DataEnd
  <2>2. s.seq >= 1 /\ DataEnd(s) <= f.written + 1
    BY <1>4, <2>1
  <2>3. DOMAIN d = 1 .. j - i
    BY <1>2, LenProperties
  <2>4. \A x \in DOMAIN s.data : s.data[x] = s.seq + x - 1
    BY <1>2, <1>4, <2>3
  <2> QED BY <1>4, <2>2, <2>4, Zenon DEF InStream
<1>6. d # <<>> /\ Len(d) <= Mss
  BY <1>2, EmptySeq
<1>7. s \in Segs(f)
  BY <1>4, <1>5, <1>6, Zenon DEF Segs, Genuine
<1>8. ASSUME NEW b \in i + 1 .. j PROVE Contains(d, w + b)
  <2>1. PICK x \in 1 .. j - i : x = b - i
    OBVIOUS
  <2>2. d[x] = w + b /\ x \in 1 .. Len(d)
    BY <1>2, <2>1
  <2> QED BY <2>2 DEF Contains
<1> QED BY <1>1, <1>3, <1>4, <1>7, <1>8 DEF Seg

\* The last unsent segment takes the first j of the n new bytes.
LEMMA LongerSegment ==
  ASSUME NEW e, e.written \in Nat, ~Over(e), NEW t \in Segs(e), ~t.syn,
         DataEnd(t) = e.written + 1,
         NEW f, NEW n \in Nat, f.written = e.written + n,
         NEW j \in Nat, 0 < j, j <= n, Len(t.data) + j <= Mss
  PROVE  LET s == [t EXCEPT !.data = @ \o SubSeq(Bytes(e.written, n), 1, j)] IN
         /\ s \in Segs(f)
         /\ \A b : Contains(t.data, b) => Contains(s.data, b)
         /\ \A b \in 1 .. j : Contains(s.data, e.written + b)
<1>1. PICK w \in Nat : w = e.written
  OBVIOUS
<1>2. PICK d : d = SubSeq(Bytes(w, n), 1, j)
  OBVIOUS
<1>3. d \in Seq(Nat) /\ Len(d) = j /\ \A x \in 1 .. j : d[x] = w + x
  <2>1. PICK i \in Nat : i = 0
    OBVIOUS
  <2>2. i + 1 = 1 /\ j - i = j /\ w + i = w /\ i <= j
    BY <2>1
  <2>3. IsSlice(SubSeq(Bytes(w, n), i + 1, j), w, i, j)
    BY <2>2, SliceOfBytes
  <2> QED BY <1>2, <2>2, <2>3 DEF IsSlice
<1>4. t \in Segment /\ Genuine(t, e) /\ (t.syn \/ t.fin \/ t.data # <<>>)
  BY Zenon DEF Segs
<1>5. PICK l \in Nat : l = Len(t.data) /\ t.seq \in Nat /\ t.data \in Seq(Nat)
  BY <1>4 DEF Segment
<1>6. InStream(t, e)
  BY <1>4, Zenon DEF Genuine
<1>7. ~t.fin /\ t.data # <<>>
  BY <1>4, <1>6, Zenon DEF InStream
<1>8. PICK c : c = t.data \o d
  OBVIOUS
<1>9. /\ c \in Seq(Nat) /\ Len(c) = l + j
      /\ \A x \in 1 .. l + j :
           c[x] = IF x <= l THEN t.data[x] ELSE d[x - l]
  <2>1. PICK x, y \in Seq(Nat) : x = t.data /\ y = d
    BY <1>3, <1>5
  <2>2. /\ x \o y \in Seq(Nat) /\ Len(x \o y) = Len(x) + Len(y)
        /\ \A i \in 1 .. Len(x) + Len(y) :
             (x \o y)[i] = IF i <= Len(x) THEN x[i] ELSE y[i - Len(x)]
    BY ConcatProperties
  <2>3. Len(x) = l /\ Len(y) = j /\ c = x \o y
    BY <1>3, <1>5, <1>8, <2>1
  <2> QED BY <2>1, <2>2, <2>3
<1>10. PICK s : s = [t EXCEPT !.data = c]
  OBVIOUS
<1>11. s \in Segment /\ s.seq = t.seq /\ s.data = c /\ ~s.syn /\ ~s.fin
  BY <1>4, <1>7, <1>9, <1>10 DEF Segment
<1>12. t.seq + l = w + 1 /\ t.seq \in Nat /\ l + j <= Mss /\ l + j \in Nat
  BY <1>1, <1>5 DEF DataEnd
<1>13. \A x \in 1 .. l : t.data[x] = t.seq + x - 1
  BY <1>5, <1>6, LenProperties DEF InStream
<1>14. InStream(s, f)
  <2>1. DataEnd(s) = w + 1 + j
    <3>1. DataEnd(s) = t.seq + (l + j)
      BY <1>9, <1>11, Zenon DEF DataEnd
    <3> QED BY <1>12, <3>1
  <2>2. s.seq >= 1 /\ DataEnd(s) <= f.written + 1
    BY <1>1, <1>6, <1>11, <2>1 DEF InStream
  <2>3. ASSUME NEW x \in 1 .. l + j PROVE c[x] = t.seq + x - 1
    <3>1. CASE x <= l
      BY <1>5, <1>9, <1>13, <3>1
    <3>2. CASE ~(x <= l)
      <4>1. x - l \in 1 .. j
        BY <1>5, <3>2
      <4>2. c[x] = w + (x - l)
        BY <1>3, <1>9, <3>2, <4>1
      <4> QED BY <1>12, <4>1, <4>2
    <3> QED BY <3>1, <3>2
  <2>4. DOMAIN s.data = 1 .. l + j
    BY <1>9, <1>11, LenProperties
  <2> QED BY <1>11, <2>2, <2>3, <2>4, Zenon DEF InStream
<1>15. s.data # <<>> /\ Len(s.data) <= Mss
  <2>1. Len(s.data) = l + j /\ s.data \in Seq(Nat)
    BY <1>9, <1>11, Zenon
  <2>2. Len(s.data) # 0
    BY <1>12, <2>1
  <2> QED BY <1>12, <2>1, <2>2, EmptySeq
<1>16. s \in Segs(f)
  BY <1>11, <1>14, <1>15, Zenon DEF Segs, Genuine
<1>17. ASSUME NEW b, Contains(t.data, b) PROVE Contains(c, b)
  <2>1. PICK x \in 1 .. l : t.data[x] = b
    BY <1>5, <1>17, Zenon DEF Contains
  <2>2. x \in 1 .. Len(c) /\ c[x] = b
    BY <1>9, <1>12, <2>1
  <2> QED BY <2>2 DEF Contains
<1>18. ASSUME NEW b \in 1 .. j PROVE Contains(c, w + b)
  <2>1. PICK x : x = l + b
    OBVIOUS
  <2>2. x \in 1 .. l + j /\ ~(x <= l) /\ x - l = b
    BY <1>5, <2>1
  <2>3. x \in 1 .. Len(c) /\ c[x] = w + b
    BY <1>3, <1>9, <2>2
  <2> QED BY <2>3 DEF Contains
<1> QED BY <1>1, <1>2, <1>8, <1>10, <1>11, <1>16, <1>17, <1>18

\* From e to f the application writes n bytes, which wait for tcp_output.
Writes(e, f, n, k) ==
  /\ Sound(f, f, k) /\ SameRcv(e, f)
  /\ f.written = e.written + n /\ f.snd_lbb = e.snd_lbb + n
  /\ f.st = e.st /\ f.got = e.got /\ f.eof = e.eof /\ f.err = e.err
  /\ Listening(f) <=> Listening(e)
  /\ \A b : Covers(e, b) => Covers(f, b)
  /\ \A b \in e.written + 1 .. f.written : Covers(f, b)

LEMMA TcpWriteKeeps ==
  ASSUME NEW k \in Nat, NEW e, Sound(e, e, k), ~Over(e), e.snd_lbb = e.written + 1,
         EndsTheStream(e), NEW n \in Nat
  PROVE  Writes(e, TcpWrite(e, n), n, k)
<1>1. PICK w \in Nat : w = e.written
  BY DEF Sound, Numbers
<1>2. PICK bytes : bytes = Bytes(w, n)
  OBVIOUS
<1> DEFINE t == Last(e.unsent)
           Chain == e.unsent # <<>> /\ t.data # <<>>
           Space == IF Chain THEN Mss - Len(t.data) ELSE 0
<1>3. PICK space : space = Space
  OBVIOUS
<1>4. PICK j : j = IF n < space THEN n ELSE space
  OBVIOUS
<1>5. PICK x : x = n - j
  OBVIOUS
<1>6. PICK c : c = (x + Mss - 1) \div Mss
  OBVIOUS
<1>7. PICK tail : tail = IF j = 0 THEN e.unsent
                         ELSE Append(Front(e.unsent), [t EXCEPT !.data = @ \o SubSeq(bytes, 1, j)])
  OBVIOUS
<1> DEFINE From(i) == j + (i - 1) * Mss
           Part(i) == Seg(e.snd_lbb + From(i),
                          SubSeq(bytes, From(i) + 1, Min({From(i) + Mss, n})), FALSE, FALSE)
<1>8. PICK more : more = [i \in 1 .. c |-> Part(i)]
  OBVIOUS
<1>9. PICK f : f = [e EXCEPT !.unsent = tail \o more, !.snd_lbb = @ + n, !.written = @ + n]
  OBVIOUS
<1>10. TcpWrite(e, n) = f
  BY <1>1, <1>2, <1>3, <1>4, <1>5, <1>6, <1>7, <1>8, <1>9, ZenonT(30) DEF TcpWrite, Bytes
<1>11. /\ f.unsent = tail \o more /\ f.snd_lbb = e.snd_lbb + n /\ f.written = w + n
       /\ Same(e, f, {"unsent", "snd_lbb", "written"})
  BY <1>1, <1>9 DEF Sound, IsPcb, PcbFields, Same
<1>12. Grows(e, f) /\ f.written \in Nat
  BY <1>1, <1>11 DEF Grows
<1>13. e.unsent \in Seq(Segs(e)) /\ e.unacked \in Seq(Segs(e)) /\ e.snd_lbb = w + 1
  BY <1>1 DEF Sound, Queues
<1>14. e.unsent \in Seq(Segs(f)) /\ e.unacked \in Seq(Segs(f))
  BY <1>12, <1>13, SegsGrow, SeqGrow
<1>15. Chain => /\ t \in Segs(e) /\ ~t.syn /\ ~t.fin /\ DataEnd(t) = w + 1
                /\ Len(t.data) \in Nat /\ Len(t.data) <= Mss
  <2> SUFFICES ASSUME Chain PROVE /\ t \in Segs(e) /\ ~t.syn /\ ~t.fin /\ DataEnd(t) = w + 1
                                  /\ Len(t.data) \in Nat /\ Len(t.data) <= Mss
    OBVIOUS
  <2>1. t \in Segs(e)
    <3>1. PICK a \in Segs(e) : TRUE
      BY <1>13, HeadAndTail
    <3> QED BY <1>13, <3>1, LastReplaced
  <2>2. t \in Segment /\ Genuine(t, e) /\ Len(t.data) <= Mss
    BY <2>1 DEF Segs
  <2>3. ~t.syn /\ ~t.fin
    BY <2>2, Zenon DEF Genuine, InStream
  <2>4. Len(t.data) \in Nat
    BY <2>2 DEF Segment
  <2>5. DataEnd(t) = w + 1
    BY <1>13, <2>3 DEF EndsTheStream
  <2> QED BY <2>1, <2>2, <2>3, <2>4, <2>5
<1>16. Mss \in Nat \ {0}
  BY TcpAssumption
<1>17. j \in Nat /\ j <= n /\ x \in Nat /\ x = n - j /\ (j > 0 => Chain /\ Len(t.data) + j <= Mss)
  <2>1. PICK l \in Int : Chain => l = Len(t.data) /\ l >= 0 /\ l <= Mss
    <3>1. CASE Chain
      BY <1>15, <3>1
    <3>2. CASE ~Chain
      BY <3>2
    <3> QED BY <3>1, <3>2
  <2>2. PICK b \in BOOLEAN : b = Chain
    OBVIOUS
  <2>3. space = IF b THEN Mss - l ELSE 0
    BY <1>3, <2>1, <2>2, Zenon
  <2>4. b => l >= 0 /\ l <= Mss
    BY <2>1, <2>2, Zenon
  <2>5. j \in Nat /\ j <= n /\ x \in Nat /\ x = n - j /\ (j > 0 => b /\ l + j <= Mss)
    BY <1>4, <1>5, <1>16, <2>3, <2>4
  <2> QED BY <2>1, <2>2, <2>5, Zenon
<1> HIDE DEF Space
<1>18. /\ tail \in Seq(Segs(f))
       /\ \A s \in Range(e.unsent) : \A b : Contains(s.data, b) =>
            \E r \in Range(tail) : Contains(r.data, b)
       /\ \A b \in 1 .. j : \E r \in Range(tail) : Contains(r.data, w + b)
  <2>1. CASE j = 0
    <3>1. tail = e.unsent
      BY <1>7, <2>1
    <3> QED BY <1>14, <2>1, <3>1
  <2>2. CASE j # 0
    <3>1. Chain /\ 0 < j /\ Len(t.data) + j <= Mss
      BY <1>17, <2>2
    <3>2. PICK r : r = [t EXCEPT !.data = @ \o SubSeq(bytes, 1, j)]
      OBVIOUS
    <3>3. /\ r \in Segs(f)
          /\ \A b : Contains(t.data, b) => Contains(r.data, b)
          /\ \A b \in 1 .. j : Contains(r.data, w + b)
      <4>1. t \in Segs(e) /\ ~t.syn /\ DataEnd(t) = w + 1
        BY <1>15, <3>1
      <4> HIDE DEF t
      <4> QED BY <1>1, <1>2, <1>11, <1>17, <3>1, <3>2, <4>1, LongerSegment
    <3>4. tail = Append(Front(e.unsent), r)
      BY <1>7, <2>2, <3>2
    <3>5. /\ tail \in Seq(Segs(f)) /\ r \in Range(tail)
          /\ \A s \in Range(e.unsent) : s = t \/ s \in Range(tail)
      BY <1>14, <3>1, <3>3, <3>4, LastReplaced
    <3> QED BY <3>3, <3>5
  <2> QED BY <2>1, <2>2
<1>19. /\ c \in Nat
       /\ \A i \in 1 .. c : (i - 1) * Mss \in Nat /\ (i - 1) * Mss < x
       /\ \A b \in 1 .. x : \E i \in 1 .. c : (i - 1) * Mss < b /\ b <= (i - 1) * Mss + Mss
  BY <1>6, <1>16, <1>17, PlacesInSegments
<1>20. ASSUME NEW i \in 1 .. c
       PROVE  /\ Part(i) \in Segs(f)
              /\ \A b \in j + 1 .. n : (i - 1) * Mss < b - j /\ b - j <= (i - 1) * Mss + Mss
                   => Contains(Part(i).data, w + b)
  <2>1. PICK from : from = From(i)
    OBVIOUS
  <2>2. PICK d \in Nat : d = (i - 1) * Mss /\ d < x
    BY <1>19
  <2>3. from = j + d /\ from \in Nat /\ from < n
    <3>1. from = j + d
      BY <2>1, <2>2, Zenon
    <3> QED BY <1>17, <2>2, <3>1
  <2>4. PICK to : to = Min({from + Mss, n})
    OBVIOUS
  <2>5. to = IF from + Mss <= n THEN from + Mss ELSE n
    <3>1. from + Mss \in Int /\ n \in Int
      BY <1>16, <2>3
    <3> QED BY <2>4, <3>1, MinOfTwo
  <2>6. to \in Nat /\ from < to /\ to <= n /\ to - from <= Mss
    BY <1>16, <2>3, <2>5
  <2>7. PICK s : s = Seg(w + 1 + from, SubSeq(Bytes(w, n), from + 1, to), FALSE, FALSE)
    OBVIOUS
  <2>8. s \in Segs(f) /\ \A b \in from + 1 .. to : Contains(s.data, w + b)
    BY <1>11, <1>12, <2>3, <2>6, <2>7, NewSegment
  <2>9. Part(i) = s
    BY <1>2, <1>13, <2>1, <2>4, <2>7
  <2> HIDE DEF Part
  <2>10. ASSUME NEW b \in j + 1 .. n, d < b - j, b - j <= d + Mss
         PROVE  b \in from + 1 .. to
    BY <1>16, <1>17, <2>3, <2>5, <2>10
  <2> QED BY <2>2, <2>8, <2>9, <2>10
<1> HIDE DEF Part
<1>21. more \in Seq(Segs(f)) /\ \A i \in 1 .. c : Part(i) \in Range(more)
  <2>1. more \in Seq(Segs(f)) /\ Len(more) = c /\ \A i \in 1 .. c : more[i] = Part(i)
    BY <1>8, <1>19, <1>20
  <2>2. Range(more) = {more[i] : i \in 1 .. c}
    BY <2>1, RangeEquality
  <2> QED BY <2>1, <2>2
<1>22. \A b \in j + 1 .. n : \E s \in Range(more) : Contains(s.data, w + b)
  <2> TAKE b \in j + 1 .. n
  <2>1. PICK i \in 1 .. c : (i - 1) * Mss < b - j /\ b - j <= (i - 1) * Mss + Mss
    <3>1. b - j \in 1 .. x
      BY <1>17
    <3> QED BY <1>19, <3>1
  <2>2. Contains(Part(i).data, w + b)
    BY <1>20, <2>1
  <2> QED BY <1>21, <2>2
<1>23. PICK q : q = tail \o more
  OBVIOUS
<1>24. q \in Seq(Segs(f))
  BY <1>18, <1>21, <1>23, ConcatProperties
<1>25. Range(q) = Range(tail) \cup Range(more)
  BY <1>18, <1>21, <1>23, RangeConcatenation
<1>26. f.unsent = q /\ f.unacked = e.unacked
  BY <1>11, <1>23 DEF Same, PcbFields
<1>27. Sound(f, f, k)
  <2>1. Sound(e, f, k)
    <3>1. k <= k
      OBVIOUS
    <3> QED BY <1>12, <3>1, SoundGrows
  <2>2. Numbers(f, f, k)
    <3>1. /\ f.snd_nxt = e.snd_nxt /\ f.lastack = e.lastack
          /\ f.rcv_nxt = e.rcv_nxt /\ f.holded = e.holded /\ f.dupacks = e.dupacks
          /\ f.rcv_ann_right_edge = e.rcv_ann_right_edge /\ f.rcv_wnd = e.rcv_wnd
          /\ f.rcv_ann_wnd = e.rcv_ann_wnd
      BY <1>11 DEF Same, PcbFields
    <3>2. f.snd_lbb \in Nat
      BY <1>11, <1>13
    <3> QED BY <2>1, <3>1, <3>2 DEF Sound, Numbers
  <2>3. Queues(f, f, k)
    BY <1>11, <1>24, <1>26, <2>1 DEF Same, PcbFields, Sound, Queues
  <2> QED BY <1>11, <2>2, <2>3 DEF Same, Sound
<1>28. /\ SameRcv(e, f) /\ f.st = e.st /\ f.got = e.got /\ f.eof = e.eof /\ f.err = e.err
       /\ Listening(f) <=> Listening(e)
  BY <1>11 DEF Same, PcbFields, SameRcv, Listening
<1>29. \A b : Covers(e, b) => Covers(f, b)
  <2> SUFFICES ASSUME NEW b, NEW s \in Queued(e), Contains(s.data, b) PROVE Covers(f, b)
    BY DEF Covers
  <2>1. \E r \in Queued(f) : Contains(r.data, b)
    <3>1. CASE s \in Range(e.unsent)
      BY <1>18, <1>25, <1>26, <3>1 DEF Queued
    <3>2. CASE s \in Range(e.unacked)
      BY <1>26, <3>2 DEF Queued
    <3> QED BY <3>1, <3>2 DEF Queued
  <2> QED BY <2>1 DEF Covers
<1>30. \A b \in e.written + 1 .. f.written : Covers(f, b)
  <2> TAKE b \in e.written + 1 .. f.written
  <2>1. PICK a \in 1 .. n : b = w + a
    <3>1. b - w \in 1 .. n /\ b = w + (b - w)
      BY <1>1, <1>11, SMTT(30)
    <3> QED BY <3>1
  <2>2. \E r \in Range(q) : Contains(r.data, b)
    <3>1. CASE a <= j
      <4>1. a \in 1 .. j
        BY <1>17, <3>1
      <4> QED BY <1>18, <1>25, <2>1, <4>1
    <3>2. CASE ~(a <= j)
      <4>1. a \in j + 1 .. n
        BY <1>17, <3>2
      <4> QED BY <1>22, <1>25, <2>1, <4>1
    <3> QED BY <3>1, <3>2
  <2> QED BY <1>26, <2>2 DEF Covers, Queued
<1>31. f.written = e.written + n
  BY <1>1, <1>11
<1> QED BY <1>10, <1>11, <1>27, <1>28, <1>29, <1>30, <1>31 DEF Writes

-----------------------------------------------------------------------------
(* What a pcb has received.                                                *)

Taken(e) == Len(e.got) + Len(e.recv_data)

\* How far e may acknowledge the stream of p.
Reach(e, p) == IF Over(p) /\ Taken(e) = p.written THEN p.written + 2 ELSE Taken(e) + 1

\* Segments of p that wait for those before them; a FIN is the end of all.
Waiting(p) == {s \in Segment : ~s.syn /\ InStream(s, p)}
FinLast(q) == \A i \in 1 .. Len(q) - 1 : ~q[i].fin

Windows(e) ==
  /\ e.rcv_nxt \in Nat /\ e.rcv_ann_right_edge \in Int
  /\ e.rcv_wnd \in Nat /\ e.rcv_wnd < 65536 /\ e.rcv_ann_wnd \in Nat /\ e.rcv_ann_wnd < 65536

\* The application of e has, and will get with its next callback, the stream
\* of p from its beginning.
Stream(e, p) ==
  /\ p.written \in Nat
  /\ e.got \in Seq(Nat) /\ \A i \in 1 .. Len(e.got) : e.got[i] = i
  /\ e.recv_data \in Seq(Nat)
  /\ \A i \in 1 .. Len(e.recv_data) : e.recv_data[i] = Len(e.got) + i
  /\ Taken(e) <= p.written
  /\ e.eof => Over(p) /\ Len(e.got) = p.written

\* The next byte e expects is the one after those it has.
HasAll(e, p) == Over(p) /\ Taken(e) = p.written
AllTaken(e, p) == HasAll(e, p) /\ e.rcv_nxt = p.written + 2
Placed(e, p) ==
  /\ e.rcv_nxt = Taken(e) + 1 \/ AllTaken(e, p)
  /\ GotFin(e) => AllTaken(e, p)

Sorted(e, p) == e.ooseq \in Seq(Waiting(p)) /\ FinLast(e.ooseq)

Taker(e, p) == IsPcb(e) /\ Windows(e) /\ Stream(e, p) /\ Placed(e, p) /\ Sorted(e, p)

\* From e to f more of the stream is taken.
RcvFields == {"st", "rcv_nxt", "rcv_wnd", "rcv_ann_wnd", "ooseq", "recv_flags", "recv_data"}
MayGetFin(e, f) == f.recv_flags = e.recv_flags \/ f.recv_flags = e.recv_flags \cup {"GOT_FIN"}
Takes(e, f, p) ==
  /\ Taker(f, p) /\ Same(e, f, RcvFields) /\ MayGetFin(e, f)
  /\ f.st = e.st \/ (e.st = "ESTABLISHED" /\ f.st = "CLOSE_WAIT" /\ GotFin(f))

LEMMA U16Is ==
  ASSUME NEW n \in Int
  PROVE  U16(n) \in Nat /\ U16(n) < 65536
  BY DEF U16

LEMMA UpdateAnnWndKeeps ==
  ASSUME NEW e, IsPcb(e), Windows(e)
  PROVE  Windows(UpdateAnnWnd(e)) /\ Same(e, UpdateAnnWnd(e), {"rcv_ann_wnd"})
<1>1. PICK u : u = U16(e.rcv_ann_right_edge - e.rcv_nxt)
  OBVIOUS
<1>2. u \in Nat /\ u < 65536
  <2>1. e.rcv_ann_right_edge - e.rcv_nxt \in Int
    BY DEF Windows
  <2> QED BY <1>1, <2>1, U16Is
<1>3. PICK w : w = IF Moved(e) THEN e.rcv_wnd
                   ELSE IF e.rcv_nxt > e.rcv_ann_right_edge THEN 0 ELSE u
  OBVIOUS
<1>4. w \in Nat /\ w < 65536
  <2>1. w = e.rcv_wnd \/ w = 0 \/ w = u
    BY <1>3, Zenon
  <2> QED BY <1>2, <2>1 DEF Windows
<1>5. UpdateAnnWnd(e) = [e EXCEPT !.rcv_ann_wnd = w]
  BY <1>1, <1>3, Zenon DEF UpdateAnnWnd
<1>6. PICK f : f = [e EXCEPT !.rcv_ann_wnd = w]
  OBVIOUS
<1>7. f.rcv_ann_wnd = w /\ Same(e, f, {"rcv_ann_wnd"})
  BY <1>6 DEF IsPcb, PcbFields, Same
<1>8. Windows(f)
  BY <1>4, <1>7 DEF Same, PcbFields, Windows
<1> QED BY <1>5, <1>6, <1>7, <1>8

\* What is delivered is the continuation of the stream.
LEMMA DeliverTakes ==
  ASSUME NEW p, NEW e, Taker(e, p), NEW s \in Waiting(p), s.seq = e.rcv_nxt
  PROVE  /\ Takes(e, Deliver(e, s), p)
         /\ Deliver(e, s).st = e.st /\ Deliver(e, s).ooseq = e.ooseq
<1>1. s \in Segment /\ ~s.syn /\ InStream(s, p)
  BY DEF Waiting
<1>2. PICK l \in Nat : l = Len(s.data) /\ s.seq \in Nat /\ s.data \in Seq(Nat)
  BY <1>1 DEF Segment
<1>3. PICK w \in Nat : w = p.written
  BY DEF Taker, Stream
<1>4. /\ s.seq + l <= w + 1 /\ (s.fin => Over(p) /\ s.seq + l = w + 1)
      /\ \A i \in 1 .. l : s.data[i] = s.seq + i - 1
  <2>1. \A i \in 1 .. l : s.data[i] = s.seq + i - 1
    BY <1>1, <1>2, LenProperties DEF InStream
  <2> QED BY <1>1, <1>2, <1>3, <2>1, Zenon DEF InStream, DataEnd
<1>5. PICK g, r \in Nat : /\ g = Len(e.got) /\ r = Len(e.recv_data) /\ g + r <= w
                          /\ e.recv_data \in Seq(Nat)
                          /\ \A i \in 1 .. r : e.recv_data[i] = g + i
  <2>1. /\ e.got \in Seq(Nat) /\ e.recv_data \in Seq(Nat)
        /\ Len(e.got) + Len(e.recv_data) <= w
        /\ \A i \in 1 .. Len(e.recv_data) : e.recv_data[i] = Len(e.got) + i
    BY <1>3, Zenon DEF Taker, Stream, Taken
  <2>2. PICK g, r : g = Len(e.got) /\ r = Len(e.recv_data)
    OBVIOUS
  <2>3. g \in Nat /\ r \in Nat
    BY <2>1, <2>2, LenProperties
  <2>4. g + r <= w /\ \A i \in 1 .. r : e.recv_data[i] = g + i
    BY <2>1, <2>2, Zenon
  <2> QED BY <2>1, <2>2, <2>3, <2>4, Zenon
<1>6. s.seq = g + r + 1
  <2>1. s.seq <= w + 1
    BY <1>2, <1>4
  <2>2. s.seq = g + r + 1 \/ s.seq = w + 2
    BY <1>3, <1>5, Zenon DEF Taker, Placed, AllTaken, HasAll, Taken
  <2> QED BY <2>1, <2>2
<1>7. PICK d : d = e.recv_data \o s.data
  OBVIOUS
<1>8. d \in Seq(Nat) /\ Len(d) = r + l /\ \A i \in 1 .. r + l : d[i] = g + i
  <2>1. PICK x, y \in Seq(Nat) : x = e.recv_data /\ y = s.data
    BY <1>2, <1>5
  <2>2. /\ x \o y \in Seq(Nat) /\ Len(x \o y) = Len(x) + Len(y)
        /\ \A i \in 1 .. Len(x) + Len(y) :
             (x \o y)[i] = IF i <= Len(x) THEN x[i] ELSE y[i - Len(x)]
    BY ConcatProperties
  <2>3. /\ d \in Seq(Nat) /\ Len(d) = r + l
        /\ \A i \in 1 .. r + l : d[i] = IF i <= r THEN x[i] ELSE y[i - r]
    BY <1>2, <1>5, <1>7, <2>1, <2>2
  <2>4. ASSUME NEW i \in 1 .. r + l PROVE d[i] = g + i
    <3>1. CASE i <= r
      BY <1>5, <2>1, <2>3, <3>1
    <3>2. CASE ~(i <= r)
      <4>1. i - r \in 1 .. l
        BY <3>2
      <4>2. d[i] = s.seq + (i - r) - 1
        BY <1>4, <2>1, <2>3, <3>2, <4>1
      <4> QED BY <1>6, <4>1, <4>2
    <3> QED BY <3>1, <3>2
  <2> QED BY <2>3, <2>4
<1>9. PICK n \in Nat : n = End(s) /\ (s.fin => n = w + 2) /\ (~s.fin => n = g + r + l + 1)
  <2>1. TcpLen(s) = IF s.fin THEN l + 1 ELSE l
    BY <1>1, <1>2, TcpLenIs
  <2>2. End(s) = s.seq + (IF s.fin THEN l + 1 ELSE l)
    BY <2>1, Zenon DEF End
  <2>3. CASE s.fin
    <3>1. End(s) = s.seq + (l + 1)
      BY <2>2, <2>3, Zenon
    <3>2. End(s) \in Nat /\ End(s) = w + 2
      BY <1>2, <1>4, <2>3, <3>1
    <3> QED BY <2>3, <3>2, Zenon
  <2>4. CASE ~s.fin
    <3>1. End(s) = s.seq + l
      BY <2>2, <2>4, Zenon
    <3>2. End(s) \in Nat /\ End(s) = g + r + l + 1
      BY <1>6, <3>1
    <3> QED BY <2>4, <3>2, Zenon
  <2> QED BY <2>3, <2>4
<1>10. PICK u \in Nat : u = U16(e.rcv_wnd - TcpLen(s)) /\ u < 65536
  <2>1. e.rcv_wnd - TcpLen(s) \in Int
    <3>1. TcpLen(s) \in Nat
      BY <1>2, TcpLenIs
    <3> QED BY <3>1 DEF Taker, Windows
  <2> QED BY <2>1, U16Is
<1>11. PICK fl : fl = IF s.fin THEN e.recv_flags \cup {"GOT_FIN"} ELSE e.recv_flags
  OBVIOUS
<1>12. PICK c : c = [e EXCEPT !.rcv_nxt = n, !.rcv_wnd = u, !.recv_data = d, !.recv_flags = fl]
  OBVIOUS
<1>13. Deliver(e, s) = UpdateAnnWnd(c)
  <2>1. n = End(s) /\ u = U16(e.rcv_wnd - TcpLen(s))
    BY <1>9, <1>10
  <2> QED BY <1>7, <1>11, <1>12, <2>1, Zenon DEF Deliver
<1>14. /\ c.rcv_nxt = n /\ c.rcv_wnd = u /\ c.recv_data = d /\ c.recv_flags = fl
       /\ Same(e, c, {"rcv_nxt", "rcv_wnd", "recv_data", "recv_flags"})
  BY <1>12 DEF Taker, IsPcb, PcbFields, Same
<1>15. Windows(c) /\ IsPcb(c)
  BY <1>10, <1>14 DEF Taker, Windows, Same, PcbFields
<1>16. PICK f : f = UpdateAnnWnd(c)
  OBVIOUS
<1>17. Windows(f) /\ Same(c, f, {"rcv_ann_wnd"})
  BY <1>15, <1>16, UpdateAnnWndKeeps
<1>18. /\ f.rcv_nxt = n /\ f.recv_data = d /\ f.recv_flags = fl /\ f.got = e.got
       /\ f.eof = e.eof /\ f.ooseq = e.ooseq /\ f.st = e.st /\ Same(e, f, RcvFields)
  BY <1>14, <1>17 DEF Same, PcbFields, RcvFields
<1>19. Taken(f) = g + r + l /\ g + r + l <= w
  <2>1. Taken(f) = g + (r + l)
    BY <1>5, <1>8, <1>18, Zenon DEF Taken
  <2>2. s.seq + l <= w + 1
    BY <1>4
  <2> QED BY <1>6, <2>1, <2>2
<1>20. Stream(f, p)
  <2>1. Taken(f) <= p.written
    BY <1>3, <1>19
  <2>2. f.recv_data \in Seq(Nat) /\ \A i \in 1 .. Len(f.recv_data) : f.recv_data[i] = Len(f.got) + i
    BY <1>5, <1>8, <1>18
  <2> QED BY <1>18, <2>1, <2>2 DEF Taker, Stream
<1>21. Placed(f, p) /\ (GotFin(e) => GotFin(f))
  <2>1. CASE s.fin
    <3>1. AllTaken(f, p)
      <4>1. Over(p) /\ s.seq + l = w + 1 /\ n = w + 2
        BY <1>4, <1>9, <2>1, Zenon
      <4>2. Taken(f) = w /\ f.rcv_nxt = w + 2
        BY <1>6, <1>18, <1>19, <4>1
      <4> QED BY <1>3, <4>1, <4>2, Zenon DEF AllTaken, HasAll
    <3>2. GotFin(f)
      BY <1>11, <1>18, <2>1 DEF GotFin
    <3> QED BY <3>1, <3>2 DEF Placed
  <2>2. CASE ~s.fin
    <3>1. f.rcv_nxt = Taken(f) + 1
      BY <1>9, <1>18, <1>19, <2>2
    <3>2. GotFin(f) <=> GotFin(e)
      BY <1>11, <1>18, <2>2 DEF GotFin
    <3>3. ~GotFin(e)
      <4>1. GotFin(e) => s.seq = w + 2
        BY <1>3, Zenon DEF Taker, Placed, AllTaken, HasAll
      <4> QED BY <1>2, <1>4, <4>1
    <3> QED BY <3>1, <3>2, <3>3 DEF Placed
  <2> QED BY <2>1, <2>2
<1>22. Taker(f, p)
  BY <1>17, <1>18, <1>20, <1>21 DEF Taker, Sorted, Same
<1>23. MayGetFin(e, f)
  BY <1>11, <1>18, Zenon DEF MayGetFin
<1> QED BY <1>13, <1>16, <1>18, <1>22, <1>23 DEF Takes

LEMMA TakesTwice ==
  ASSUME NEW p, NEW e, NEW f, NEW g, Takes(e, f, p), Takes(f, g, p)
  PROVE  Takes(e, g, p)
<1>1. Same(e, g, RcvFields)
  BY DEF Takes, Same
<1>2. MayGetFin(e, g)
  BY DEF Takes, MayGetFin
<1>3. GotFin(f) => GotFin(g)
  BY DEF Takes, MayGetFin, GotFin
<1> QED BY <1>1, <1>2, <1>3 DEF Takes

LEMMA TakesNothing ==
  ASSUME NEW p, NEW e, Taker(e, p)
  PROVE  Takes(e, e, p)
  BY DEF Takes, Same, Taker, MayGetFin

\* A part of a queue of segments that wait.
LEMMA PartWaits ==
  ASSUME NEW p, NEW q \in Seq(Waiting(p)), FinLast(q), NEW k \in 0 .. Len(q)
  PROVE  /\ SubSeq(q, 1, k) \in Seq(Waiting(p))
         /\ SubSeq(q, k + 1, Len(q)) \in Seq(Waiting(p))
         /\ FinLast(SubSeq(q, k + 1, Len(q)))
         /\ k < Len(q) => \A i \in 1 .. k : ~SubSeq(q, 1, k)[i].fin
<1> DEFINE head == SubSeq(q, 1, k)
           rest == SubSeq(q, k + 1, Len(q))
<1>1. /\ head \in Seq(Waiting(p)) /\ \A i \in 1 .. k : head[i] = q[i]
      /\ rest \in Seq(Waiting(p)) /\ Len(rest) = Len(q) - k
      /\ \A i \in 1 .. Len(q) - k : rest[i] = q[k + i]
  BY CutInTwo
<1>2. PICK n \in Nat : n = Len(q)
  BY LenProperties
<1> HIDE DEF head, rest
<1>3. FinLast(rest)
  <2> SUFFICES ASSUME NEW i \in 1 .. n - k - 1 PROVE ~rest[i].fin
    BY <1>1, <1>2 DEF FinLast
  <2>1. rest[i] = q[k + i] /\ k + i \in 1 .. n - 1
    BY <1>1, <1>2
  <2> QED BY <1>2, <2>1 DEF FinLast
<1>4. k < Len(q) => \A i \in 1 .. k : ~head[i].fin
  <2> SUFFICES ASSUME k < n, NEW i \in 1 .. k PROVE ~head[i].fin
    BY <1>2
  <2>1. head[i] = q[i] /\ i \in 1 .. n - 1
    BY <1>1, <1>2
  <2> QED BY <1>2, <2>1 DEF FinLast
<1> QED BY <1>1, <1>3, <1>4 DEF head, rest

\* The first segment of ooseq is next in the stream, or waits on.
LEMMA DequeueTakes ==
  ASSUME NEW p, NEW e, Taker(e, p)
  PROVE  Takes(e, Dequeue(e), p)
<1>1. CASE e.ooseq = <<>> \/ Head(e.ooseq).seq # e.rcv_nxt
  <2>1. Dequeue(e) = e
    BY <1>1, Zenon DEF Dequeue
  <2> QED BY <2>1, TakesNothing
<1>2. CASE ~(e.ooseq = <<>> \/ Head(e.ooseq).seq # e.rcv_nxt)
  <2>1. PICK q : q = e.ooseq /\ q \in Seq(Waiting(p)) /\ FinLast(q) /\ q # <<>>
    BY <1>2 DEF Taker, Sorted
  <2>2. PICK s : s = Head(q) /\ s.seq = e.rcv_nxt
    BY <1>2, <2>1
  <2>3. s \in Waiting(p)
    BY <2>1, <2>2, HeadAndTail
  <2>4. PICK rest : rest = Tail(q)
    OBVIOUS
  <2>5. rest \in Seq(Waiting(p)) /\ FinLast(rest)
    <3>1. 1 \in 0 .. Len(q)
      BY <2>1, LenProperties, EmptySeq
    <3>2. PICK one \in 0 .. Len(q) : one = 1
      BY <3>1
    <3>3. SubSeq(q, one + 1, Len(q)) \in Seq(Waiting(p)) /\ FinLast(SubSeq(q, one + 1, Len(q)))
      BY <2>1, PartWaits
    <3>4. rest = SubSeq(q, one + 1, Len(q))
      <4>1. rest = SubSeq(q, 2, Len(q))
        BY <2>1, <2>4, TailIsSubSeq
      <4> QED BY <3>2, <4>1
    <3> QED BY <3>3, <3>4
  <2>6. PICK d : d = Deliver(e, s)
    OBVIOUS
  <2>7. Takes(e, d, p) /\ d.st = e.st /\ d.ooseq = e.ooseq
    BY <2>2, <2>3, <2>6, DeliverTakes
  <2>8. s.fin => GotFin(d)
    <3>1. s.fin => d.recv_flags = e.recv_flags \cup {"GOT_FIN"}
      BY <2>6 DEF Deliver, UpdateAnnWnd, Taker, IsPcb, PcbFields
    <3> QED BY <3>1 DEF GotFin
  <2>9. PICK st : st = IF s.fin /\ d.st = "ESTABLISHED" THEN "CLOSE_WAIT" ELSE d.st
    OBVIOUS
  <2>10. PICK f : f = [d EXCEPT !.st = st, !.ooseq = rest]
    OBVIOUS
  <2>11. Dequeue(e) = f
    BY <1>2, <2>1, <2>2, <2>4, <2>6, <2>7, <2>9, <2>10, Zenon DEF Dequeue
  <2>12. f.st = st /\ f.ooseq = rest /\ Same(d, f, {"st", "ooseq"})
    BY <2>7, <2>10 DEF Takes, Taker, IsPcb, PcbFields, Same
  <2>13. Same(e, f, RcvFields)
    BY <2>7, <2>12 DEF Takes, Same, RcvFields
  <2>14. /\ f.rcv_nxt = d.rcv_nxt /\ f.rcv_wnd = d.rcv_wnd /\ f.rcv_ann_wnd = d.rcv_ann_wnd
         /\ f.rcv_ann_right_edge = d.rcv_ann_right_edge /\ f.recv_flags = d.recv_flags
         /\ f.recv_data = d.recv_data /\ f.got = d.got /\ f.eof = d.eof
    BY <2>12 DEF Same, PcbFields
  <2>15. Taker(f, p)
    <3>1. Taker(d, p)
      BY <2>7 DEF Takes
    <3>2. IsPcb(f) /\ Windows(f) /\ Sorted(f, p)
      BY <2>5, <2>12, <2>14, <3>1 DEF Taker, Windows, Sorted, Same
    <3>3. Stream(f, p)
      BY <2>14, <3>1, Zenon DEF Taker, Stream, Taken
    <3>4. Placed(f, p)
      BY <2>14, <3>1, Zenon DEF Taker, Placed, AllTaken, HasAll, Taken, GotFin
    <3> QED BY <3>2, <3>3, <3>4 DEF Taker
  <2>16. f.st = e.st \/ (e.st = "ESTABLISHED" /\ f.st = "CLOSE_WAIT" /\ GotFin(f))
    <3>1. GotFin(f) <=> GotFin(d)
      BY <2>14, Zenon DEF GotFin
    <3>2. f.st = IF s.fin /\ e.st = "ESTABLISHED" THEN "CLOSE_WAIT" ELSE e.st
      BY <2>7, <2>9, <2>12, Zenon
    <3> QED BY <2>8, <3>1, <3>2, Zenon
  <2>17. MayGetFin(e, f)
    BY <2>7, <2>14, Zenon DEF Takes, MayGetFin
  <2> QED BY <2>11, <2>13, <2>15, <2>16, <2>17 DEF Takes
<1> QED BY <1>1, <1>2

\* The loop of tcp_receive over ooseq ends.
LEMMA DrainLoop ==
  ASSUME NEW e, NEW m \in Nat, m = Len(e.ooseq)
  PROVE  \E p : /\ p = [i \in 0 .. m |-> IF i = 0 THEN e ELSE Dequeue(p[i - 1])]
                /\ Drain(e) = p[m]
<1> DEFINE next(x) == Dequeue(x)
           Loop(p, n) == p = [i \in 0 .. n |-> IF i = 0 THEN e ELSE next(p[i - 1])]
           S == {n \in Nat : \E p : Loop(p, n)}
<1>1. 0 \in S
  <2>1. PICK p : p = [i \in 0 .. 0 |-> e]
    OBVIOUS
  <2>2. Loop(p, 0)
    BY <2>1
  <2> HIDE DEF Loop
  <2> QED BY <2>2
<1>2. ASSUME NEW n \in Nat, n \in S PROVE n + 1 \in S
  <2>1. PICK p : Loop(p, n)
    <3> HIDE DEF Loop
    <3> QED BY <1>2
  <2> HIDE DEF next
  <2>2. PICK r : r = [i \in 0 .. n + 1 |-> IF i = n + 1 THEN next(p[n]) ELSE p[i]]
    OBVIOUS
  <2>3. \A i \in 0 .. n : r[i] = p[i]
    BY <2>2
  <2>4. r[n + 1] = next(r[n])
    BY <2>2
  <2>5. \A i \in 0 .. n : p[i] = (IF i = 0 THEN e ELSE next(p[i - 1]))
    BY <2>1
  <2>6. r[0] = e
    BY <2>3, <2>5
  <2>7. ASSUME NEW i \in 1 .. n + 1 PROVE r[i] = next(r[i - 1])
    <3>1. CASE i = n + 1
      BY <2>4, <3>1
    <3>2. CASE i # n + 1
      <4>1. i \in 0 .. n /\ i - 1 \in 0 .. n /\ i # 0
        BY <3>2
      <4>2. r[i] = p[i] /\ r[i - 1] = p[i - 1] /\ p[i] = next(p[i - 1])
        BY <2>3, <2>5, <4>1
      <4> QED BY <4>2
    <3> QED BY <3>1, <3>2
  <2>8. Loop(r, n + 1)
    <3>1. r = [i \in 0 .. n + 1 |-> r[i]]
      BY <2>2
    <3>2. \A i \in 0 .. n + 1 : r[i] = (IF i = 0 THEN e ELSE next(r[i - 1]))
      <4>1. \A i \in 0 .. n + 1 : i = 0 \/ i \in 1 .. n + 1
        OBVIOUS
      <4> QED BY <2>6, <2>7, <4>1
    <3> QED BY <3>1, <3>2
  <2> HIDE DEF Loop
  <2> QED BY <2>8
<1>3. m \in S
  <2> HIDE DEF S
  <2> QED BY <1>1, <1>2, Climbs
<1>4. Loop(CHOOSE p : Loop(p, m), m)
  <2> HIDE DEF Loop
  <2> QED BY <1>3, Zenon
<1>5. Drain(e) = (CHOOSE p : Loop(p, m))[m]
  BY Zenon DEF Drain
<1> QED BY <1>4, <1>5, Zenon

LEMMA DrainTakes ==
  ASSUME NEW p, NEW e, Taker(e, p)
  PROVE  Takes(e, Drain(e), p)
<1>1. PICK m \in Nat : m = Len(e.ooseq)
  BY LenProperties DEF Taker, Sorted
<1>2. PICK f : f = [i \in 0 .. m |-> IF i = 0 THEN e ELSE Dequeue(f[i - 1])] /\ Drain(e) = f[m]
  BY <1>1, DrainLoop
<1>3. f[0] = e /\ \A i \in 1 .. m : f[i] = Dequeue(f[i - 1])
  BY <1>2
<1> DEFINE S == {n \in Nat : n <= m => Takes(e, f[n], p)}
<1>4. 0 \in S
  BY <1>3, TakesNothing
<1>5. ASSUME NEW n \in Nat, n \in S PROVE n + 1 \in S
  <2>1. SUFFICES ASSUME n + 1 <= m PROVE Takes(e, f[n + 1], p)
    OBVIOUS
  <2>2. PICK g : g = f[n]
    OBVIOUS
  <2>3. Takes(e, g, p)
    BY <1>5, <2>1, <2>2
  <2>4. f[n + 1] = Dequeue(g)
    <3>1. n + 1 \in 1 .. m /\ n + 1 - 1 = n
      BY <2>1
    <3> QED BY <1>3, <2>2, <3>1
  <2>5. Taker(g, p)
    BY <2>3 DEF Takes
  <2>6. Takes(g, Dequeue(g), p)
    BY <2>5, DequeueTakes
  <2> QED BY <2>3, <2>4, <2>6, TakesTwice
<1>6. Nat \subseteq S
  <2> HIDE DEF S
  <2> QED BY <1>4, <1>5, Climbs
<1> QED BY <1>2, <1>6

\* A segment that is cut is a part of the same stream.
LEMMA CutAtKeeps ==
  ASSUME NEW p, NEW s \in Waiting(p), NEW edge \in Int
  PROVE  /\ CutAt(s, edge).seq = s.seq /\ CutAt(s, edge).fin = s.fin
         /\ ~s.fin => CutAt(s, edge) \in Waiting(p)
         /\ [CutAt(s, edge) EXCEPT !.fin = FALSE] \in Waiting(p)
         /\ [CutAt(s, edge) EXCEPT !.fin = FALSE].seq = s.seq
         /\ [CutAt(s, edge) EXCEPT !.fin = FALSE].fin = FALSE
<1>1. s \in Segment /\ ~s.syn /\ InStream(s, p)
  BY DEF Waiting
<1>2. PICK l \in Nat : l = Len(s.data) /\ s.seq \in Nat /\ s.data \in Seq(Nat)
  BY <1>1 DEF Segment
<1>3. PICK k : k = Min({l, edge - s.seq})
  OBVIOUS
<1>4. k \in Int /\ k <= l
  <2>1. edge - s.seq \in Int
    BY <1>2
  <2>2. k = IF l <= edge - s.seq THEN l ELSE edge - s.seq
    BY <1>3, <2>1, MinOfTwo
  <2> QED BY <2>1, <2>2
<1>5. PICK d : d = SubSeq(s.data, 1, k)
  OBVIOUS
<1>6. PICK n \in Nat : /\ n <= l /\ d \in Seq(Nat) /\ Len(d) = n
                       /\ \A i \in 1 .. n : d[i] = s.data[i]
  <2>1. 1 \in Int /\ \A i \in 1 .. k : s.data[i] \in Nat
    BY <1>2, <1>4, ElementOfSeq
  <2>2. /\ d \in Seq(Nat) /\ Len(d) = IF 1 <= k THEN k - 1 + 1 ELSE 0
        /\ \A i \in 1 .. k - 1 + 1 : d[i] = s.data[1 + i - 1]
    BY <1>4, <1>5, <2>1, SubSeqProperties
  <2>3. \A i \in 1 .. k : d[i] = s.data[i]
    BY <1>4, <2>2
  <2>4. CASE 1 <= k
    BY <1>4, <2>2, <2>3, <2>4
  <2>5. CASE ~(1 <= k)
    <3>1. Len(d) = 0
      BY <2>2, <2>5
    <3> QED BY <2>2, <3>1
  <2> QED BY <2>4, <2>5
<1>7. PICK c : c = CutAt(s, edge)
  OBVIOUS
<1>8. c = [s EXCEPT !.data = d]
  BY <1>2, <1>3, <1>5, <1>7, Zenon DEF CutAt
<1>9. c \in Segment /\ c.seq = s.seq /\ c.fin = s.fin /\ c.data = d /\ ~c.syn
  BY <1>1, <1>6, <1>8 DEF Segment
<1>10. PICK b : b = [c EXCEPT !.fin = FALSE]
  OBVIOUS
<1>11. b \in Segment /\ b.seq = s.seq /\ b.fin = FALSE /\ b.data = d /\ ~b.syn
  BY <1>9, <1>10 DEF Segment
<1>12. ASSUME NEW t, t.seq = s.seq, t.data = d, ~t.fin PROVE InStream(t, p)
  <2>1. /\ s.seq >= 1 /\ s.seq + l <= p.written + 1
        /\ \A i \in 1 .. l : s.data[i] = s.seq + i - 1
    BY <1>1, <1>2, LenProperties, Zenon DEF InStream, DataEnd
  <2>2. DOMAIN d = 1 .. n
    BY <1>6, LenProperties
  <2>3. \A i \in DOMAIN t.data : t.data[i] = t.seq + i - 1
    <3>1. \A i \in 1 .. n : i \in 1 .. l
      BY <1>6
    <3> QED BY <1>6, <1>12, <2>1, <2>2, <3>1, Zenon
  <2>4. DataEnd(t) <= p.written + 1
    <3>1. DataEnd(t) = s.seq + n
      BY <1>6, <1>12, Zenon DEF DataEnd
    <3>2. PICK x : x = p.written + 1
      OBVIOUS
    <3> QED BY <1>2, <1>6, <2>1, <3>1, <3>2
  <2> QED BY <1>12, <2>1, <2>3, <2>4, Zenon DEF InStream
<1>13. ~s.fin => c \in Waiting(p)
  BY <1>9, <1>12, Zenon DEF Waiting
<1>14. b \in Waiting(p)
  BY <1>11, <1>12, Zenon DEF Waiting
<1> QED BY <1>7, <1>9, <1>10, <1>11, <1>13, <1>14
\* A segment and the queue it covers some of: what is left of both.
Covering(c, s, p) ==
  /\ c[1] \in Waiting(p) /\ c[1].seq = s.seq
  /\ c[2] \in Seq(Waiting(p)) /\ FinLast(c[2])
  /\ c[1].fin => c[2] = <<>>

LEMMA CoverKeeps ==
  ASSUME NEW p, p.written \in Nat, NEW s \in Waiting(p), NEW q \in Seq(Waiting(p)), FinLast(q)
  PROVE  Covering(Cover(s, q), s, p)
<1>1. s \in Segment /\ ~s.syn /\ InStream(s, p)
  BY DEF Waiting
<1>2. CASE s.fin
  <2>1. PICK none \in Seq(Waiting(p)) : none = <<>>
    <3>1. <<>> \in Seq(Waiting(p))
      OBVIOUS
    <3> QED BY <3>1, Zenon
  <2>2. Cover(s, q) = <<s, none>>
    BY <1>2, <2>1, Zenon DEF Cover
  <2>3. FinLast(none)
    BY <2>1 DEF FinLast
  <2> QED BY <2>1, <2>2, <2>3 DEF Covering
<1>3. CASE ~s.fin
  <2> DEFINE I == {i \in DOMAIN q : DataEnd(q[i]) <= s.seq + TcpLen(s)}
  <2>1. PICK done : done = I
    OBVIOUS
  <2>2. PICK n : n = Lead(q, done)
    OBVIOUS
  <2>3. n \in 0 .. Len(q) /\ \A i \in 1 .. n : i \in done
    BY <2>2, LeadCounts
  <2>4. PICK rest : rest = SubSeq(q, n + 1, Len(q))
    OBVIOUS
  <2>5. rest \in Seq(Waiting(p)) /\ FinLast(rest)
    BY <2>3, <2>4, PartWaits
  <2>6. Len(rest) = Len(q) - n
    BY <2>3, <2>4, CutInTwo
  <2>7. PICK b \in BOOLEAN : b = (s.fin \/ \E i \in 1 .. n : q[i].fin)
    OBVIOUS
  <2>8. PICK f : f = [s EXCEPT !.fin = b]
    OBVIOUS
  <2>9. f \in Segment /\ f.seq = s.seq /\ f.data = s.data /\ ~f.syn /\ f.fin = b
    BY <1>1, <2>8 DEF Segment
  <2>10. PICK l \in Nat : l = Len(q)
    BY LenProperties
  <2>11. b => rest = <<>> /\ \E i \in 1 .. n : q[i].fin
    <3> SUFFICES ASSUME NEW i \in 1 .. n, q[i].fin PROVE rest = <<>>
      BY <1>3, <2>7
    <3>1. ~(i \in 1 .. l - 1)
      BY <2>10 DEF FinLast
    <3>2. n = l
      BY <2>3, <2>10, <3>1
    <3>3. Len(rest) = 0
      BY <2>6, <2>10, <3>2
    <3> QED BY <2>5, <3>3, EmptySeq
  <2>12. f \in Waiting(p)
    <3>1. InStream(f, p)
      <4>1. DataEnd(f) = DataEnd(s)
        BY <2>9, Zenon DEF DataEnd
      <4>2. b => Over(p) /\ DataEnd(s) = p.written + 1
        <5> SUFFICES ASSUME NEW i \in 1 .. n, q[i].fin
                     PROVE  Over(p) /\ DataEnd(s) = p.written + 1
          BY <2>11
        <5>1. PICK x : x = q[i]
          OBVIOUS
        <5>2. i \in DOMAIN q /\ DataEnd(x) <= s.seq + TcpLen(s)
          BY <2>1, <2>3, <5>1
        <5>3. x \in Waiting(p) /\ x.fin
          <6>1. i \in 1 .. Len(q)
            BY <2>3, <2>10
          <6> QED BY <5>1, <6>1, ElementOfSeq
        <5>4. Over(p) /\ DataEnd(x) = p.written + 1
          BY <5>3, Zenon DEF Waiting, InStream
        <5>5. s.seq \in Nat /\ Len(s.data) \in Nat
          BY <1>1 DEF Segment
        <5>6. s.seq + TcpLen(s) = DataEnd(s)
          <6>1. TcpLen(s) = Len(s.data)
            BY <1>1, <1>3, <5>5, TcpLenIs
          <6> QED BY <6>1, Zenon DEF DataEnd
        <5>7. DataEnd(s) <= p.written + 1 /\ DataEnd(s) \in Nat
          BY <1>1, <5>5 DEF InStream, DataEnd
        <5>8. PICK y \in Nat : y = p.written + 1
          OBVIOUS
        <5> QED BY <5>2, <5>4, <5>6, <5>7, <5>8
      <4> QED BY <1>1, <2>9, <4>1, <4>2, Zenon DEF InStream
    <3> QED BY <2>9, <3>1, Zenon DEF Waiting
  <2>13. PICK cut : cut = CutAt(f, Head(rest).seq)
    OBVIOUS
  <2>14. PICK c : c = IF rest = <<>> THEN f ELSE cut
    OBVIOUS
  <2>15. Cover(s, q) = <<c, rest>>
    BY <1>3, <2>1, <2>2, <2>4, <2>7, <2>8, <2>13, <2>14, Zenon DEF Cover
  <2>16. c \in Waiting(p) /\ c.seq = s.seq /\ (c.fin => rest = <<>>)
    <3>1. CASE rest = <<>>
      BY <2>9, <2>12, <2>14, <3>1
    <3>2. CASE rest # <<>>
      <4>1. Head(rest) \in Waiting(p)
        BY <2>5, <3>2, HeadAndTail
      <4>2. Head(rest).seq \in Int
        BY <4>1 DEF Waiting, Segment
      <4>3. ~f.fin
        BY <2>9, <2>11, <3>2
      <4>4. cut \in Waiting(p) /\ cut.seq = f.seq /\ ~cut.fin
        <5>1. PICK x \in Int : x = Head(rest).seq
          BY <4>2
        <5>2. /\ CutAt(f, x).seq = f.seq /\ CutAt(f, x).fin = f.fin
              /\ ~f.fin => CutAt(f, x) \in Waiting(p)
          BY <2>12, CutAtKeeps
        <5> QED BY <2>13, <4>3, <5>1, <5>2, Zenon
      <4> QED BY <2>9, <2>14, <3>2, <4>4
    <3> QED BY <3>1, <3>2
  <2>17. <<c, rest>>[1] = c /\ <<c, rest>>[2] = rest
    OBVIOUS
  <2> QED BY <2>5, <2>15, <2>16, <2>17, Zenon DEF Covering
<1> QED BY <1>2, <1>3

\* Queues of segments that wait, the first of which has no FIN anywhere.
Open(q, p) == q \in Seq(Waiting(p)) /\ \A i \in 1 .. Len(q) : ~q[i].fin
Closed(q, p) == q \in Seq(Waiting(p)) /\ FinLast(q)

LEMMA JoinWaits ==
  ASSUME NEW p, NEW a, Open(a, p), NEW b
  PROVE  /\ Open(b, p) => Open(a \o b, p)
         /\ Closed(b, p) => Closed(a \o b, p)
<1> SUFFICES ASSUME Open(b, p) \/ Closed(b, p)
             PROVE  /\ Open(b, p) => Open(a \o b, p)
                    /\ Closed(b, p) => Closed(a \o b, p)
  OBVIOUS
<1>1. PICK x, y \in Seq(Waiting(p)) : x = a /\ y = b
  BY Zenon DEF Open, Closed
<1>2. PICK l, n : l = Len(x) /\ n = Len(y)
  OBVIOUS
<1>3. l \in Nat /\ n \in Nat
  BY <1>2, LenProperties
<1>4. PICK q : q = x \o y
  OBVIOUS
<1>5. /\ q \in Seq(Waiting(p)) /\ Len(q) = l + n
      /\ \A i \in 1 .. l + n : q[i] = IF i <= l THEN x[i] ELSE y[i - l]
  BY <1>2, <1>4, ConcatProperties
<1>6. \A i \in 1 .. l : ~x[i].fin
  BY <1>1, <1>2, Zenon DEF Open
<1>7. ASSUME NEW m \in 0 .. n, \A i \in 1 .. m : ~y[i].fin
      PROVE  \A i \in 1 .. l + m : ~q[i].fin
  <2> SUFFICES ASSUME NEW i \in 1 .. l + m PROVE ~q[i].fin
    OBVIOUS
  <2>1. CASE i <= l
    <3>1. i \in 1 .. l /\ i \in 1 .. l + n
      BY <1>3, <2>1
    <3>2. q[i] = x[i]
      BY <1>5, <2>1, <3>1
    <3> QED BY <1>6, <3>1, <3>2
  <2>2. CASE ~(i <= l)
    <3>1. i - l \in 1 .. m /\ i \in 1 .. l + n
      BY <1>3, <2>2
    <3>2. q[i] = y[i - l]
      BY <1>5, <2>2, <3>1
    <3> QED BY <1>7, <3>1, <3>2
  <2> QED BY <2>1, <2>2
<1>8. Open(b, p) => Open(q, p)
  <2> SUFFICES ASSUME Open(b, p) PROVE Open(q, p)
    OBVIOUS
  <2>1. \A i \in 1 .. n : ~y[i].fin
    BY <1>1, <1>2, Zenon DEF Open
  <2>2. n \in 0 .. n
    BY <1>3
  <2>3. \A i \in 1 .. l + n : ~q[i].fin
    BY <1>7, <2>1, <2>2, Zenon
  <2> QED BY <1>5, <2>3, Zenon DEF Open
<1>9. Closed(b, p) => Closed(q, p)
  <2> SUFFICES ASSUME Closed(b, p) PROVE Closed(q, p)
    OBVIOUS
  <2>1. \A i \in 1 .. n - 1 : ~y[i].fin
    BY <1>1, <1>2, Zenon DEF Closed, FinLast
  <2>2. CASE n = 0
    <3>1. \A i \in 1 .. l + n - 1 : i \in 1 .. l /\ i \in 1 .. l + n /\ i <= l
      BY <1>3, <2>2
    <3>2. \A i \in 1 .. l + n - 1 : ~q[i].fin
      BY <1>5, <1>6, <3>1
    <3>3. FinLast(q)
      <4>1. Len(q) = l + n
        BY <1>5
      <4>2. Len(q) - 1 = l + n - 1
        BY <1>3, <4>1
      <4> QED BY <3>2, <4>2, Zenon DEF FinLast
    <3> QED BY <1>5, <3>3, Zenon DEF Closed
  <2>3. CASE n # 0
    <3>1. PICK m \in 0 .. n : m = n - 1
      BY <1>3, <2>3
    <3>2. \A i \in 1 .. l + m : ~q[i].fin
      BY <1>7, <2>1, <3>1, Zenon
    <3>3. l + m = l + n - 1
      BY <1>3, <3>1
    <3>4. FinLast(q)
      <4>1. Len(q) = l + n
        BY <1>5
      <4>2. Len(q) - 1 = l + n - 1
        BY <1>3, <4>1
      <4> QED BY <3>2, <3>3, <4>2, Zenon DEF FinLast
    <3> QED BY <1>5, <3>4, Zenon DEF Closed
  <2> QED BY <2>2, <2>3
<1> QED BY <1>1, <1>4, <1>8, <1>9, Zenon

LEMMA OneWaits ==
  ASSUME NEW p, NEW s \in Waiting(p)
  PROVE  Closed(<<s>>, p) /\ (~s.fin => Open(<<s>>, p))
<1>1. PICK one : one = <<s>>
  OBVIOUS
<1>2. one \in Seq(Waiting(p)) /\ Len(one) = 1 /\ one[1] = s
  BY <1>1
<1>3. 1 .. 1 - 1 = {} /\ \A i \in 1 .. 1 : i = 1
  OBVIOUS
<1>4. FinLast(one)
  BY <1>2, <1>3, Zenon DEF FinLast
<1>5. ~s.fin => Open(one, p)
  BY <1>2, <1>3, Zenon DEF Open
<1> QED BY <1>1, <1>2, <1>4, <1>5, Zenon DEF Closed

\* The queue of segments beyond rcv_nxt.
LEMMA InsertOoseqKeeps ==
  ASSUME NEW p, p.written \in Nat, NEW e, Sorted(e, p), Edge(e) \in Int, NEW s \in Waiting(p)
  PROVE  Closed(InsertOoseq(e, s), p)
<1>1. PICK q \in Seq(Waiting(p)) : q = e.ooseq /\ FinLast(q)
  BY Zenon DEF Sorted
<1>2. PICK I : I = {i \in DOMAIN q : q[i].seq < s.seq}
  OBVIOUS
<1>3. PICK k : k = Lead(q, I)
  OBVIOUS
<1>4. k \in 0 .. Len(q)
  BY <1>3, LeadCounts
<1>5. PICK l \in Nat : l = Len(q)
  BY LenProperties
<1>6. PICK after : after = SubSeq(q, k + 1, Len(q))
  OBVIOUS
<1>7. Closed(after, p) /\ after \in Seq(Waiting(p)) /\ FinLast(after)
  BY <1>1, <1>4, <1>6, PartWaits DEF Closed
<1>8. Len(after) = l - k
  BY <1>4, <1>5, <1>6, CutInTwo
<1>9. PICK same \in BOOLEAN : same = (after # <<>> /\ Head(after).seq = s.seq)
  OBVIOUS
<1>10. PICK t : t = IF same THEN q[k] ELSE CutAt(q[k], s.seq)
  OBVIOUS
<1>11. PICK prev : prev = IF k = 0 THEN <<>> ELSE SubSeq(q, 1, k - 1) \o <<t>>
  OBVIOUS
<1>12. PICK last : last = IF q # <<>> /\ End(s) > Edge(e)
                          THEN [CutAt(s, Edge(e)) EXCEPT !.fin = FALSE] ELSE s
  OBVIOUS
<1>13. PICK put : put = Cover(s, after)
  OBVIOUS
<1>14. s.seq \in Int
  BY DEF Waiting, Segment
<1>15. ASSUME ~(after = <<>> /\ k > 0 /\ q[k].fin) PROVE Open(prev, p)
  <2>1. CASE k = 0
    <3>1. <<>> \in Seq(Waiting(p)) /\ 1 .. Len(<<>>) = {}
      OBVIOUS
    <3>2. prev = <<>>
      BY <1>11, <2>1
    <3> QED BY <3>1, <3>2, Zenon DEF Open
  <2>2. CASE k # 0
    <3>1. k \in 1 .. l
      BY <1>4, <1>5, <2>2
    <3>2. q[k] \in Waiting(p)
      BY <1>5, <3>1, ElementOfSeq
    <3>3. ~q[k].fin
      <4>1. CASE k = l
        <5>1. Len(after) = 0 /\ k > 0
          BY <1>8, <3>1, <4>1
        <5>2. after = <<>>
          BY <1>7, <5>1, EmptySeq
        <5> QED BY <1>15, <5>1, <5>2
      <4>2. CASE k # l
        <5>1. k \in 1 .. Len(q) - 1
          BY <1>5, <3>1, <4>2
        <5> QED BY <1>1, <5>1 DEF FinLast
      <4> QED BY <4>1, <4>2
    <3>4. t \in Waiting(p) /\ ~t.fin
      <4>1. CASE same
        BY <1>10, <3>2, <3>3, <4>1
      <4>2. CASE ~same
        <5>1. PICK x, y : x = q[k] /\ y = s.seq
          OBVIOUS
        <5>2. CutAt(x, y).fin = x.fin /\ (~x.fin => CutAt(x, y) \in Waiting(p))
          BY <1>14, <3>2, <5>1, CutAtKeeps, ZenonT(30)
        <5> QED BY <1>10, <3>3, <4>2, <5>1, <5>2, Zenon
      <4> QED BY <4>1, <4>2
    <3>5. PICK j \in 0 .. Len(q) : j = k - 1
      BY <1>5, <3>1
    <3>6. PICK head : head = SubSeq(q, 1, j)
      OBVIOUS
    <3>7. Open(head, p)
      <4>1. j < Len(q)
        BY <1>5, <3>1, <3>5
      <4>2. head \in Seq(Waiting(p)) /\ \A i \in 1 .. j : ~head[i].fin
        BY <1>1, <3>6, <4>1, PartWaits
      <4>3. Len(head) = j
        BY <3>6, CutInTwo
      <4> QED BY <4>2, <4>3 DEF Open
    <3>8. PICK one : one = <<t>>
      OBVIOUS
    <3>9. Open(one, p)
      BY <3>4, <3>8, OneWaits
    <3>10. prev = head \o one
      BY <1>11, <2>2, <3>5, <3>6, <3>8, Zenon
    <3> QED BY <3>7, <3>9, <3>10, JoinWaits
  <2> QED BY <2>1, <2>2
<1>16. last \in Waiting(p)
  <2>1. PICK x \in Int : x = Edge(e)
    OBVIOUS
  <2>2. [CutAt(s, x) EXCEPT !.fin = FALSE] \in Waiting(p)
    BY CutAtKeeps
  <2> QED BY <1>12, <2>1, <2>2, Zenon
<1>17. PICK one, two, rest : one = <<last>> /\ two = <<put[1]>> /\ rest = put[2]
  OBVIOUS
<1>18. Covering(put, s, p)
  BY <1>7, <1>13, CoverKeeps
<1>19. Closed(one, p) /\ Closed(two, p) /\ (~put[1].fin => Open(two, p)) /\ Closed(rest, p)
       /\ (put[1].fin => rest = <<>>)
  <2>1. put[1] \in Waiting(p)
    BY <1>18, Zenon DEF Covering
  <2>2. Closed(one, p)
    BY <1>16, <1>17, OneWaits
  <2>3. Closed(two, p) /\ (~put[1].fin => Open(two, p))
    BY <1>17, <2>1, OneWaits
  <2>4. Closed(rest, p) /\ (put[1].fin => rest = <<>>)
    BY <1>17, <1>18, Zenon DEF Covering, Closed
  <2> QED BY <2>2, <2>3, <2>4
<1>20. PICK shorter \in BOOLEAN : shorter <=> (Len(s.data) <= Len(Head(after).data))
  OBVIOUS
<1>21. PICK full \in BOOLEAN : full = (k > 0 /\ q[k].fin)
  OBVIOUS
<1>22. PICK middle : middle = prev \o two
  OBVIOUS
<1>23. InsertOoseq(e, s) = CASE after = <<>> /\ full -> q
                             [] after = <<>> /\ ~full -> prev \o one
                             [] same /\ shorter -> q
                             [] after # <<>> /\ ~(same /\ shorter) -> middle \o rest
  BY <1>1, <1>2, <1>3, <1>6, <1>9, <1>10, <1>11, <1>12, <1>13, <1>17, <1>20, <1>21, <1>22,
     Zenon DEF InsertOoseq
<1>24. CASE after = <<>> /\ full
  <2>1. ~same
    BY <1>9, <1>24, Zenon
  <2>2. InsertOoseq(e, s) = q
    BY <1>23, <1>24, <2>1
  <2> QED BY <1>1, <2>2, Zenon DEF Closed
<1>25. CASE after = <<>> /\ ~full
  <2>1. ~same
    BY <1>9, <1>25, Zenon
  <2>2. InsertOoseq(e, s) = prev \o one
    BY <1>23, <1>25, <2>1
  <2>3. Open(prev, p)
    BY <1>15, <1>21, <1>25, Zenon
  <2> QED BY <1>19, <2>2, <2>3, JoinWaits
<1>26. CASE after # <<>> /\ same /\ shorter
  <2>1. InsertOoseq(e, s) = q
    BY <1>23, <1>26
  <2> QED BY <1>1, <2>1, Zenon DEF Closed
<1>27. CASE after # <<>> /\ ~(same /\ shorter)
  <2>1. InsertOoseq(e, s) = middle \o rest
    BY <1>23, <1>27
  <2>2. Open(prev, p)
    BY <1>15, <1>27, Zenon
  <2>3. CASE put[1].fin
    <3>1. Closed(middle, p)
      BY <1>19, <1>22, <2>2, JoinWaits
    <3>2. middle \o rest = middle
      <4>1. middle \in Seq(Waiting(p)) /\ rest = <<>>
        BY <1>19, <2>3, <3>1 DEF Closed
      <4> QED BY <4>1, ConcatEmptySeq
    <3> QED BY <2>1, <3>1, <3>2
  <2>4. CASE ~put[1].fin
    <3>1. Open(middle, p)
      BY <1>19, <1>22, <2>2, <2>4, JoinWaits
    <3> QED BY <1>19, <2>1, <3>1, JoinWaits
  <2> QED BY <2>3, <2>4
<1> QED BY <1>24, <1>25, <1>26, <1>27

\* What e has not of the segment m.
LEMMA TrimmedKeeps ==
  ASSUME NEW p, NEW e, e.rcv_nxt \in Nat, NEW m \in Datagram, Genuine(m, p),
         TcpLen(m) # 0, ~m.syn
  PROVE  Trimmed(e, m) \in Waiting(p)
<1>1. PICK l \in Nat : l = Len(m.data) /\ m.seq \in Nat /\ m.data \in Seq(Nat) /\ m.fin \in BOOLEAN
  BY DEF Datagram
<1>2. InStream(m, p)
  <2>1. CASE m.data # <<>> \/ m.fin
    BY <2>1, Zenon DEF Genuine
  <2>2. CASE ~(m.data # <<>> \/ m.fin)
    <3>1. Len(m.data) = 0 /\ ~m.fin
      BY <2>2
    <3>2. TcpLen(m) = 0
      BY <1>1, <3>1, TcpLenIs
    <3> QED BY <3>2
  <2> QED BY <2>1, <2>2
<1>3. /\ m.seq >= 1 /\ DataEnd(m) <= p.written + 1
      /\ \A i \in 1 .. l : m.data[i] = m.seq + i - 1
      /\ m.fin => Over(p) /\ DataEnd(m) = p.written + 1
  BY <1>1, <1>2, LenProperties, Zenon DEF InStream
<1>4. PICK fin \in BOOLEAN : fin = m.fin
  BY <1>1
<1>5. PICK no \in BOOLEAN : no = FALSE
  OBVIOUS
<1> DEFINE off == e.rcv_nxt - m.seq
<1>6. CASE SeqBetween(off, 1, TcpLen(m) - 1)
  <2>1. PICK j \in Nat : j = off /\ 1 <= j /\ j <= l
    <3>1. TcpLen(m) = l \/ TcpLen(m) = l + 1
      <4>1. Len(m.data) \in Nat
        BY <1>1
      <4>2. CASE m.syn \/ m.fin
        BY <1>1, <4>1, <4>2, TcpLenIs, Zenon
      <4>3. CASE ~m.syn /\ ~m.fin
        BY <1>1, <4>1, <4>3, TcpLenIs, Zenon
      <4> QED BY <4>2, <4>3
    <3>2. 1 <= off /\ off <= TcpLen(m) - 1
      BY <1>6, Zenon DEF SeqBetween
    <3>3. PICK x \in Int : x = off
      BY <1>1
    <3> HIDE DEF off
    <3>4. x <= l /\ 1 <= x
      BY <3>1, <3>2, <3>3
    <3> QED BY <3>3, <3>4
  <2>2. PICK d : d = SubSeq(m.data, j + 1, l)
    OBVIOUS
  <2>3. d \in Seq(Nat) /\ Len(d) = l - j /\ \A i \in 1 .. l - j : d[i] = m.data[j + i]
    <3>1. PICK x \in 0 .. Len(m.data) : x = j
      BY <1>1, <2>1
    <3>2. /\ SubSeq(m.data, x + 1, Len(m.data)) \in Seq(Nat)
          /\ Len(SubSeq(m.data, x + 1, Len(m.data))) = Len(m.data) - x
          /\ \A i \in 1 .. Len(m.data) - x : SubSeq(m.data, x + 1, Len(m.data))[i] = m.data[x + i]
      BY <1>1, CutInTwo
    <3> QED BY <1>1, <2>2, <3>1, <3>2, Zenon
  <2>4. PICK s : s = [seq |-> e.rcv_nxt, data |-> d, syn |-> no, fin |-> fin]
    OBVIOUS
  <2>5. Trimmed(e, m) = s
    BY <1>1, <1>4, <1>5, <1>6, <2>1, <2>2, <2>4, Zenon DEF Trimmed, Seg
  <2>6. s \in Segment /\ s.seq = m.seq + j /\ s.data = d /\ ~s.syn /\ s.fin = fin
    <3>1. e.rcv_nxt = m.seq + j
      BY <1>1, <2>1
    <3> QED BY <1>5, <2>3, <2>4, <3>1 DEF Segment
  <2>7. DataEnd(s) = DataEnd(m)
    <3>1. DataEnd(s) = m.seq + j + (l - j) /\ DataEnd(m) = m.seq + l
      BY <1>1, <2>3, <2>6, Zenon DEF DataEnd
    <3>2. PICK x \in Nat : x = m.seq
      BY <1>1
    <3>3. x + j + (l - j) = x + l
      BY <1>1, <3>2
    <3> QED BY <3>1, <3>2
  <2>8. \A i \in DOMAIN s.data : s.data[i] = s.seq + i - 1
    <3>1. DOMAIN d = 1 .. l - j
      BY <2>3, LenProperties
    <3>2. \A i \in 1 .. l - j : j + i \in 1 .. l
      BY <2>1
    <3>3. \A i \in 1 .. l - j : m.data[j + i] = m.seq + (j + i) - 1
      BY <1>3, <3>2, Zenon
    <3>4. \A i \in 1 .. l - j : m.seq + (j + i) - 1 = m.seq + j + i - 1
      BY <1>1
    <3> QED BY <2>3, <2>6, <3>1, <3>3, <3>4, Zenon
  <2>9. s.seq >= 1
    BY <1>1, <1>3, <2>6
  <2>10. InStream(s, p)
    BY <1>3, <1>4, <2>6, <2>7, <2>8, <2>9, Zenon DEF InStream
  <2> QED BY <2>5, <2>6, <2>10, Zenon DEF Waiting
<1>7. CASE ~SeqBetween(off, 1, TcpLen(m) - 1)
  <2>1. PICK s : s = [seq |-> m.seq, data |-> m.data, syn |-> no, fin |-> fin]
    OBVIOUS
  <2>2. Trimmed(e, m) = s
    BY <1>4, <1>5, <1>7, <2>1, Zenon DEF Trimmed, Seg
  <2>3. s \in Segment /\ s.seq = m.seq /\ s.data = m.data /\ ~s.syn /\ s.fin = m.fin
    BY <1>1, <1>4, <1>5, <2>1 DEF Segment
  <2>4. InStream(s, p)
    BY <1>2, <2>3, Zenon DEF InStream, DataEnd
  <2> QED BY <2>2, <2>3, <2>4, Zenon DEF Waiting
<1> QED BY <1>6, <1>7

LEMMA PlacedReach ==
  ASSUME NEW p, NEW e, Taker(e, p)
  PROVE  /\ e.rcv_nxt \in Nat /\ e.rcv_nxt >= 1 /\ Reach(e, p) \in Nat
         /\ e.rcv_nxt <= Reach(e, p)
<1>1. PICK w \in Nat : w = p.written
  BY DEF Taker, Stream
<1>2. PICK n \in Nat : n = Taken(e)
  <2>1. e.got \in Seq(Nat) /\ e.recv_data \in Seq(Nat)
    BY DEF Taker, Stream
  <2>2. Len(e.got) \in Nat /\ Len(e.recv_data) \in Nat
    BY <2>1, LenProperties
  <2>3. PICK g \in Nat : g = Len(e.got)
    BY <2>2
  <2>4. PICK r \in Nat : r = Len(e.recv_data)
    BY <2>2
  <2>5. Taken(e) = g + r
    BY <2>3, <2>4, Zenon DEF Taken
  <2> QED BY <2>5
<1>3. e.rcv_nxt = n + 1 \/ (Over(p) /\ n = w /\ e.rcv_nxt = w + 2)
  BY <1>1, <1>2, Zenon DEF Taker, Placed, AllTaken, HasAll
<1>4. PICK b \in BOOLEAN : b = (Over(p) /\ n = w)
  OBVIOUS
<1>5. Reach(e, p) = IF b THEN w + 2 ELSE n + 1
  BY <1>1, <1>2, <1>4, Zenon DEF Reach
<1>6. b => n = w
  BY <1>4
<1>7. e.rcv_nxt = n + 1 \/ (b /\ e.rcv_nxt = w + 2)
  BY <1>3, <1>4, Zenon
<1> QED BY <1>5, <1>6, <1>7

\* What does not touch the receiver leaves what it has.
LEMMA QuietTaker ==
  ASSUME NEW p, NEW e, Taker(e, p), NEW f, Quiet(e, f), IsPcb(f), Windows(f)
  PROVE  Taker(f, p)
<1>1. /\ f.got = e.got /\ f.recv_data = e.recv_data /\ f.eof = e.eof /\ f.ooseq = e.ooseq
      /\ f.rcv_nxt = e.rcv_nxt /\ f.recv_flags = e.recv_flags
  BY DEF Quiet, SameCore, SameRcv
<1>2. Stream(f, p)
  BY <1>1, Zenon DEF Taker, Stream, Taken
<1>3. Placed(f, p) /\ Sorted(f, p)
  BY <1>1, Zenon DEF Taker, Placed, AllTaken, HasAll, Taken, GotFin, Sorted
<1> QED BY <1>2, <1>3 DEF Taker

\* What the rest of a pcb is does not matter to what was received.
LEMMA TakerFields ==
  ASSUME NEW p, NEW e, Taker(e, p), NEW f, IsPcb(f), Sorted(f, p),
         f.got = e.got, f.recv_data = e.recv_data, f.eof = e.eof, f.rcv_nxt = e.rcv_nxt,
         f.recv_flags = e.recv_flags, Windows(f)
  PROVE  Taker(f, p) /\ (GotFin(f) <=> GotFin(e))
<1>1. Stream(f, p)
  BY Zenon DEF Taker, Stream, Taken
<1>2. GotFin(f) <=> GotFin(e)
  BY Zenon DEF GotFin
<1>3. AllTaken(f, p) <=> AllTaken(e, p)
  BY Zenon DEF AllTaken, HasAll, Taken
<1>4. Placed(f, p)
  <2>1. Taken(f) = Taken(e)
    BY Zenon DEF Taken
  <2> QED BY <1>2, <1>3, <2>1, Zenon DEF Taker, Placed
<1> QED BY <1>1, <1>2, <1>4, Zenon DEF Taker

\* tcp_ack moves the flags only.
LEMMA AckSame ==
  ASSUME NEW e, IsPcb(e)
  PROVE  /\ Same(e, Ack(e), {"flags"}) /\ (Listening(Ack(e)) <=> Listening(e))
         /\ Same(e, AckNow(e), {"flags"}) /\ (Listening(AckNow(e)) <=> Listening(e))
  BY DEF IsPcb, PcbFields, Same, Ack, AckNow, Listening

\* Only fields of the receiver and the flags differ.
InOrder(e, f, p) ==
  /\ Taker(f, p) /\ Same(e, f, RcvFields \cup {"flags"}) /\ MayGetFin(e, f)
  /\ Listening(f) <=> Listening(e)
  /\ f.st = e.st \/ (e.st = "ESTABLISHED" /\ f.st = "CLOSE_WAIT" /\ GotFin(f))

LEMMA TakesFlags ==
  ASSUME NEW p, NEW e, NEW g, NEW f, Takes(e, g, p), Same(g, f, {"flags"}),
         Listening(f) <=> Listening(g)
  PROVE  InOrder(e, f, p)
<1>1. /\ f.got = g.got /\ f.recv_data = g.recv_data /\ f.eof = g.eof /\ f.ooseq = g.ooseq
      /\ f.rcv_nxt = g.rcv_nxt /\ f.recv_flags = g.recv_flags /\ f.st = g.st
      /\ f.rcv_wnd = g.rcv_wnd /\ f.rcv_ann_wnd = g.rcv_ann_wnd
      /\ f.rcv_ann_right_edge = g.rcv_ann_right_edge /\ IsPcb(f)
  BY DEF Same, PcbFields
<1>2. Sorted(f, p) /\ Windows(f)
  <2>1. Sorted(g, p) /\ Windows(g)
    BY Zenon DEF Takes, Taker
  <2>2. Windows(f)
    BY <1>1, <2>1 DEF Windows
  <2> QED BY <1>1, <2>1, <2>2, Zenon DEF Sorted
<1>3. Taker(f, p) /\ (GotFin(f) <=> GotFin(g))
  BY <1>1, <1>2, TakerFields, Zenon DEF Takes
<1>4. Same(e, f, RcvFields \cup {"flags"})
  BY DEF Takes, Same, RcvFields, PcbFields
<1>5. Listening(g) <=> Listening(e)
  BY DEF Takes, Same, RcvFields, PcbFields, Listening
<1>6. f.st = e.st \/ (e.st = "ESTABLISHED" /\ f.st = "CLOSE_WAIT" /\ GotFin(f))
  BY <1>1, <1>3, Zenon DEF Takes
<1>7. MayGetFin(e, f)
  BY <1>1, Zenon DEF Takes, MayGetFin
<1> QED BY <1>3, <1>4, <1>5, <1>6, <1>7, Zenon DEF InOrder

LEMMA InSequenceTakes ==
  ASSUME NEW p, NEW e, Taker(e, p), NEW s \in Waiting(p), s.seq = e.rcv_nxt
  PROVE  InOrder(e, InSequence(e, s), p)
<1>1. PICK t : t = IF TcpLen(s) > e.rcv_wnd
                   THEN [CutAt(s, Edge(e)) EXCEPT !.fin = FALSE] ELSE s
  OBVIOUS
<1>2. t \in Waiting(p) /\ t.seq = e.rcv_nxt
  <2>1. Edge(e) \in Int
    BY DEF Taker, Windows, Edge
  <2> QED BY <1>1, <2>1, CutAtKeeps, Zenon
<1>3. PICK c : c = Cover(t, e.ooseq)
  OBVIOUS
<1>4. Covering(c, t, p)
  BY <1>2, <1>3, CoverKeeps, Zenon DEF Taker, Stream, Sorted
<1>5. PICK d : d = Deliver(e, c[1])
  OBVIOUS
<1>6. Takes(e, d, p) /\ d.st = e.st
  <2>1. PICK x \in Waiting(p) : x = c[1]
    BY <1>4, Zenon DEF Covering
  <2>2. x.seq = e.rcv_nxt
    BY <1>2, <1>4, <2>1, Zenon DEF Covering
  <2>3. Takes(e, Deliver(e, x), p) /\ Deliver(e, x).st = e.st
    BY <2>1, <2>2, DeliverTakes, Zenon
  <2> QED BY <1>5, <2>1, <2>3, Zenon
<1>7. PICK g : g = [d EXCEPT !.ooseq = c[2]]
  OBVIOUS
<1>8. Same(d, g, {"ooseq"}) /\ g.ooseq = c[2]
  BY <1>6, <1>7 DEF Takes, Taker, IsPcb, PcbFields, Same
<1>9. /\ g.got = d.got /\ g.recv_data = d.recv_data /\ g.eof = d.eof
      /\ g.rcv_nxt = d.rcv_nxt /\ g.recv_flags = d.recv_flags /\ g.st = d.st
      /\ g.rcv_wnd = d.rcv_wnd /\ g.rcv_ann_wnd = d.rcv_ann_wnd
      /\ g.rcv_ann_right_edge = d.rcv_ann_right_edge /\ IsPcb(g)
  BY <1>8 DEF Same, PcbFields
<1>10. Takes(e, g, p)
  <2>1. Windows(g)
    <3>1. Windows(d)
      BY <1>6, Zenon DEF Takes, Taker
    <3> QED BY <1>9, <3>1 DEF Windows
  <2>2. Sorted(g, p)
    BY <1>4, <1>8, Zenon DEF Sorted, Covering
  <2>3. Taker(g, p) /\ (GotFin(g) <=> GotFin(d))
    BY <1>6, <1>9, <2>1, <2>2, TakerFields, Zenon DEF Takes
  <2>4. Same(e, g, RcvFields)
    BY <1>6, <1>8 DEF Takes, Same, RcvFields, PcbFields
  <2>5. MayGetFin(e, g)
    BY <1>6, <1>9, Zenon DEF Takes, MayGetFin
  <2> QED BY <1>6, <1>9, <2>3, <2>4, <2>5, Zenon DEF Takes
<1>11. PICK r : r = Drain(g)
  OBVIOUS
<1>12. Takes(e, r, p)
  <2>1. Takes(g, r, p)
    BY <1>10, <1>11, DrainTakes, Zenon DEF Takes
  <2> QED BY <1>10, <2>1, TakesTwice, Zenon
<1>13. InSequence(e, s) = Ack(r)
  BY <1>1, <1>3, <1>5, <1>7, <1>11, Zenon DEF InSequence
<1>14. Same(r, Ack(r), {"flags"}) /\ (Listening(Ack(r)) <=> Listening(r))
  BY <1>12, AckSame, Zenon DEF Takes, Taker
<1> QED BY <1>12, <1>13, <1>14, TakesFlags, Zenon

\* From e to f the data of the segment m is taken as far as it is new and in
\* the window; nothing else happens to the connection.
Receives(e, f, m, o, p, k) ==
  /\ Taker(f, p) /\ Numbers(f, o, Reach(f, p)) /\ Queues(f, o, k)
  /\ f.written = e.written /\ f.got = e.got /\ f.eof = e.eof /\ f.err = e.err
  /\ f.snd_lbb = e.snd_lbb /\ (Listening(f) <=> Listening(e)) /\ MayGetFin(e, f)
  /\ Queued(f) = Queued(e)
  /\ f.st = e.st \/ (e.st = "ESTABLISHED" /\ f.st = "CLOSE_WAIT" /\ GotFin(f))
  /\ GotFin(f) => f.unsent = e.unsent /\ TcpLen(m) # 0

LEMMA QuietReceives ==
  ASSUME NEW o, NEW p, NEW k \in Nat, NEW e, Sound(e, o, k), Taker(e, p), k = Reach(e, p),
         ~GotFin(e), NEW m, NEW g, Sound(g, o, k), Quiet(e, g),
         NEW f, Same(g, f, {"ooseq"}), Sorted(f, p)
  PROVE  Receives(e, f, m, o, p, k)
<1>1. /\ f.st = g.st /\ f.written = g.written /\ f.got = g.got /\ f.eof = g.eof
      /\ f.err = g.err /\ f.flags = g.flags /\ f.snd_lbb = g.snd_lbb
      /\ f.unsent = g.unsent /\ f.unacked = g.unacked /\ IsPcb(f)
  BY DEF Same, PcbFields
<1>2. /\ f.rcv_nxt = g.rcv_nxt /\ f.rcv_wnd = g.rcv_wnd /\ f.rcv_ann_wnd = g.rcv_ann_wnd
      /\ f.rcv_ann_right_edge = g.rcv_ann_right_edge /\ f.drv = g.drv /\ f.out = g.out
      /\ f.recv_flags = g.recv_flags /\ f.recv_data = g.recv_data
  BY DEF Same, PcbFields
<1>3. SameCore(e, g) /\ SameRcv(e, g) /\ g.snd_lbb = e.snd_lbb /\ Queued(g) = Queued(e)
  BY Zenon DEF Quiet
<1>4. /\ f.written = e.written /\ f.got = e.got /\ f.eof = e.eof /\ f.err = e.err
      /\ f.snd_lbb = e.snd_lbb /\ (Listening(f) <=> Listening(e)) /\ f.st = e.st
  BY <1>1, <1>3, Zenon DEF SameCore, Listening
<1>5. f.rcv_nxt = e.rcv_nxt /\ f.recv_flags = e.recv_flags /\ f.recv_data = e.recv_data
  BY <1>2, <1>3, Zenon DEF SameRcv
<1>6. Queued(f) = Queued(e)
  BY <1>1, <1>3, Zenon DEF Queued
<1>7. Numbers(f, o, k)
  BY NumbersStay DEF Sound
<1>8. Queues(f, o, k)
  BY <1>1, <1>2, Zenon DEF Sound, Queues
<1>9. Windows(f)
  BY <1>7 DEF Numbers, Windows
<1>10. Taker(f, p) /\ ~GotFin(f)
  BY <1>1, <1>4, <1>5, <1>9, TakerFields, Zenon
<1>11. Reach(f, p) = k /\ MayGetFin(e, f)
  BY <1>4, <1>5, Zenon DEF Reach, Taken, MayGetFin
<1> QED BY <1>4, <1>6, <1>7, <1>8, <1>10, <1>11, Zenon DEF Receives

LEMMA InOrderReceives ==
  ASSUME NEW o, NEW p, NEW k \in Nat, NEW e, Sound(e, o, k), NEW m, TcpLen(m) # 0,
         NEW f, InOrder(e, f, p)
  PROVE  Receives(e, f, m, o, p, k)
<1>1. /\ f.written = e.written /\ f.got = e.got /\ f.eof = e.eof
      /\ f.err = e.err /\ f.snd_lbb = e.snd_lbb
      /\ f.unsent = e.unsent /\ f.unacked = e.unacked /\ IsPcb(f)
  BY DEF InOrder, Same, RcvFields, PcbFields
<1>2. /\ f.rcv_ann_right_edge = e.rcv_ann_right_edge /\ f.drv = e.drv /\ f.out = e.out
      /\ f.snd_nxt = e.snd_nxt /\ f.lastack = e.lastack /\ f.holded = e.holded
      /\ f.dupacks = e.dupacks
  BY DEF InOrder, Same, RcvFields, PcbFields
<1>3. Queues(f, o, k)
  BY <1>1, <1>2, Zenon DEF Sound, Queues
<1>4. Queued(f) = Queued(e)
  BY <1>1, Zenon DEF Queued
<1>5. /\ f.rcv_nxt \in Nat /\ f.rcv_nxt <= Reach(f, p) /\ Windows(f)
  <2>1. Taker(f, p)
    BY Zenon DEF InOrder
  <2> QED BY <2>1, PlacedReach, Zenon DEF Taker
<1>6. Numbers(f, o, Reach(f, p))
  <2>1. /\ e.snd_nxt \in Nat /\ e.lastack \in Nat /\ e.snd_lbb \in Nat /\ o.written \in Nat
        /\ e.lastack <= e.snd_nxt /\ e.snd_nxt <= o.written + 2 /\ e.holded \in Nat
        /\ e.dupacks \in Nat
    BY DEF Sound, Numbers
  <2> QED BY <1>1, <1>2, <1>5, <2>1 DEF Numbers, Windows
<1> QED BY <1>1, <1>3, <1>4, <1>6, Zenon DEF Receives, InOrder

LEMMA ReceiveDataKeeps ==
  ASSUME NEW o, NEW p, NEW k \in Nat, NEW e, Sound(e, o, k), Taker(e, p), k = Reach(e, p),
         ~GotFin(e), NEW m \in Datagram, Genuine(m, p)
  PROVE  Receives(e, ReceiveData(e, m), m, o, p, k)
<1>1. PICK x \in Nat : x = TcpLen(m)
  <2>1. Len(m.data) \in Nat
    BY DEF Datagram
  <2>2. PICK l \in Nat : l = Len(m.data)
    BY <2>1
  <2>3. TcpLen(m) = l \/ TcpLen(m) = l + 1
    BY <2>2, TcpLenIs, Zenon
  <2> QED BY <2>2, <2>3
<1>2. PICK s : s = Trimmed(e, m)
  OBVIOUS
<1> DEFINE old == s.seq < e.rcv_nxt
           in == SeqBetween(s.seq, e.rcv_nxt, Edge(e) - 1)
           there == SeqBetween(m.seq, e.rcv_nxt, Edge(e) - 1)
           next == s.seq = e.rcv_nxt
<1>6. PICK f : f = IF old THEN AckNow(e) ELSE e
  OBVIOUS
<1>7. PICK a, b, c, d : /\ a = IF there THEN e ELSE AckNow(e)
                        /\ b = SendEmptyAck(f)
                        /\ c = InSequence(f, s)
                        /\ d = [SendEmptyAck(f) EXCEPT !.ooseq = InsertOoseq(e, s)]
  OBVIOUS
<1>9. ReceiveData(e, m) = CASE x = 0 -> a
                            [] x > 0 /\ ~in -> b
                            [] x > 0 /\ in /\ next -> c
                            [] x > 0 /\ in /\ ~next -> d
  <2>1. ReceiveData(e, m) =
          CASE TcpLen(m) = 0 -> IF there THEN e ELSE AckNow(e)
            [] TcpLen(m) > 0 /\ ~in -> SendEmptyAck(f)
            [] TcpLen(m) > 0 /\ in /\ next -> InSequence(f, s)
            [] TcpLen(m) > 0 /\ in /\ ~next ->
                 [SendEmptyAck(f) EXCEPT !.ooseq = InsertOoseq(e, s)]
    BY <1>2, <1>6, Zenon DEF ReceiveData
  <2> HIDE DEF in, next, old, there
  <2>2. ReceiveData(e, m) = CASE TcpLen(m) = 0 -> a
                              [] TcpLen(m) > 0 /\ ~in -> b
                              [] TcpLen(m) > 0 /\ in /\ next -> c
                              [] TcpLen(m) > 0 /\ in /\ ~next -> d
    BY <1>7, <2>1, Zenon
  <2> QED BY <1>1, <2>2, Zenon
<1>10. Sound(AckNow(e), o, k) /\ Quiet(e, AckNow(e)) /\ Quiet(e, e)
  BY FlagsKeep DEF Quiet, SameCore, SameRcv
<1>11. Sound(f, o, k) /\ Quiet(e, f)
  BY <1>6, <1>10, Zenon
<1>12. ASSUME NEW g, Sound(g, o, k), Quiet(e, g) PROVE Receives(e, g, m, o, p, k)
  <2>1. Same(g, g, {"ooseq"})
    BY <1>12 DEF Same, Sound
  <2>2. g.ooseq = e.ooseq
    BY <1>12 DEF Quiet, SameRcv
  <2>3. Sorted(g, p)
    BY <2>2, Zenon DEF Taker, Sorted
  <2> QED BY <1>12, <2>1, <2>3, QuietReceives, Zenon
<1>13. Receives(e, a, m, o, p, k)
  BY <1>7, <1>10, <1>12, Zenon
<1>14. Sound(b, o, k) /\ Quiet(e, b)
  <2>1. Sound(b, o, k) /\ Quiet(f, b)
    BY <1>7, <1>11, SendEmptyAckKeeps
  <2> QED BY <1>11, <2>1, QuietTwice, Zenon
<1>15. Receives(e, b, m, o, p, k)
  BY <1>12, <1>14, Zenon
<1>16. ASSUME x > 0, in PROVE s \in Waiting(p) /\ ~old
  <2>1. s.seq >= e.rcv_nxt /\ e.rcv_nxt \in Nat /\ e.rcv_nxt >= 1
    BY <1>16, PlacedReach, Zenon DEF SeqBetween
  <2>2. CASE m.syn
    <3>1. m.seq = 0 /\ m.data = <<>> /\ ~m.fin
      BY <2>2, Zenon DEF Genuine
    <3>2. TcpLen(m) = 1
      <4>1. Len(m.data) = 0
        BY <3>1
      <4>2. TcpLen(m) = Len(m.data) + 1
        BY <2>2, <4>1, TcpLenIs
      <4> QED BY <4>1, <4>2
    <3>3. ~SeqBetween(e.rcv_nxt - m.seq, 1, TcpLen(m) - 1)
      <4>1. PICK y \in Nat : y = e.rcv_nxt - m.seq
        BY <2>1, <3>1
      <4>2. ~(1 <= y /\ y <= 1 - 1)
        OBVIOUS
      <4> QED BY <3>2, <4>1, <4>2, Zenon DEF SeqBetween
    <3>4. s.seq = 0
      BY <1>2, <3>1, <3>3 DEF Trimmed, Seg
    <3> QED BY <2>1, <3>4
  <2>3. CASE ~m.syn
    <3>1. s \in Waiting(p)
      <4>1. TcpLen(m) # 0
        BY <1>1, <1>16
      <4> QED BY <1>2, <2>1, <2>3, <4>1, TrimmedKeeps, Zenon
    <3>2. s.seq \in Nat
      BY <3>1 DEF Waiting, Segment
    <3> QED BY <2>1, <3>1, <3>2
  <2> QED BY <2>2, <2>3
<1>17. ASSUME x > 0, in PROVE f = e
  BY <1>6, <1>16, <1>17, Zenon
<1>18. ASSUME x > 0, in, next PROVE Receives(e, c, m, o, p, k)
  <2>1. InOrder(e, InSequence(e, s), p)
    BY <1>16, <1>18, InSequenceTakes, Zenon
  <2>2. TcpLen(m) # 0
    BY <1>1, <1>18
  <2>3. InOrder(e, c, p)
    BY <1>7, <1>17, <1>18, <2>1, Zenon
  <2> QED BY <2>2, <2>3, InOrderReceives, Zenon
<1>19. ASSUME x > 0, in PROVE Receives(e, d, m, o, p, k)
  <2>1. PICK q : q = InsertOoseq(e, s)
    OBVIOUS
  <2>2. Closed(q, p)
    <3>1. Edge(e) \in Int
      BY DEF Taker, Windows, Edge
    <3> QED BY <1>16, <1>19, <2>1, <3>1, InsertOoseqKeeps, Zenon DEF Taker, Stream
  <2>3. d = [b EXCEPT !.ooseq = q]
    BY <1>7, <2>1, Zenon
  <2>4. Same(b, d, {"ooseq"}) /\ d.ooseq = q
    BY <1>14, <2>3 DEF Sound, IsPcb, PcbFields, Same
  <2>5. Sorted(d, p)
    BY <2>2, <2>4, Zenon DEF Closed, Sorted
  <2> QED BY <1>14, <2>4, <2>5, QuietReceives, Zenon
<1> HIDE DEF in, next, old, there
<1> QED
  <2>1. CASE x = 0
    BY <1>9, <1>13, <2>1
  <2>2. CASE x > 0 /\ ~in
    BY <1>9, <1>15, <2>2
  <2>3. CASE x > 0 /\ in /\ next
    BY <1>9, <1>18, <2>3
  <2>4. CASE x > 0 /\ in /\ ~next
    BY <1>9, <1>19, <2>4
  <2> QED BY <2>1, <2>2, <2>3, <2>4

\* From e to f what the peer acknowledged, up to c, leaves the queues, and what
\* it sent is taken.
Received(e, f, o, p, k, c) ==
  /\ Taker(f, p) /\ Numbers(f, o, Reach(f, p)) /\ Queues(f, o, k)
  /\ f.written = e.written /\ f.got = e.got /\ f.eof = e.eof /\ f.err = e.err
  /\ f.snd_lbb = e.snd_lbb /\ (Listening(f) <=> Listening(e)) /\ MayGetFin(e, f)
  /\ Queued(f) \subseteq Queued(e)
  /\ \A s \in Queued(e) \ Queued(f) : End(s) <= c
  /\ GotFin(f) => EndsAlike(f.unsent, e.unsent)

LEMMA TcpReceiveKeeps ==
  ASSUME NEW o, NEW p, NEW k \in Nat, NEW e, Sound(e, o, k), Taker(e, p), k = Reach(e, p),
         ~GotFin(e), NEW c \in Nat, NEW m \in Datagram, Genuine(m, p), m.ack => m.ackno <= c
  PROVE  LET f == TcpReceive(e, m) IN
         /\ Received(e, f, o, p, k, c)
         /\ f.st = e.st \/ (e.st = "ESTABLISHED" /\ f.st = "CLOSE_WAIT" /\ GotFin(f))
<1>1. PICK g : g = ReceiveAck(e, m)
  OBVIOUS
<1>2. PICK f : f = ReceiveData(g, m)
  OBVIOUS
<1>3. TcpReceive(e, m) = f
  BY <1>1, <1>2, Zenon DEF TcpReceive
<1>4. m.ackno \in Nat
  BY DEF Datagram
<1>5. Acked(e, g, m.ackno, o, k)
  BY <1>1, <1>4, ReceiveAckKeeps, Zenon
<1>6. Sound(g, o, k) /\ SameCore(e, g) /\ SameRcv(e, g) /\ g.snd_lbb = e.snd_lbb
  BY <1>5, Zenon DEF Acked
<1>7. Taker(g, p) /\ ~GotFin(g) /\ Reach(g, p) = k
  <2>1. /\ g.got = e.got /\ g.recv_data = e.recv_data /\ g.eof = e.eof /\ g.ooseq = e.ooseq
        /\ g.rcv_nxt = e.rcv_nxt /\ g.recv_flags = e.recv_flags
    BY <1>6, Zenon DEF SameCore, SameRcv
  <2>2. IsPcb(g) /\ Windows(g)
    BY <1>6 DEF Sound, Numbers, Windows
  <2>3. Sorted(g, p)
    BY <2>1, Zenon DEF Taker, Sorted
  <2>4. Reach(g, p) = Reach(e, p)
    BY <2>1, Zenon DEF Reach, Taken
  <2> QED BY <2>1, <2>2, <2>3, <2>4, TakerFields, Zenon
<1>8. Receives(g, f, m, o, p, k)
  BY <1>2, <1>6, <1>7, ReceiveDataKeeps, Zenon
<1>9. /\ f.written = e.written /\ f.got = e.got /\ f.eof = e.eof /\ f.err = e.err
      /\ f.snd_lbb = e.snd_lbb /\ (Listening(f) <=> Listening(e))
      /\ f.st = e.st \/ (e.st = "ESTABLISHED" /\ f.st = "CLOSE_WAIT" /\ GotFin(f))
  <2>1. /\ g.written = e.written /\ g.got = e.got /\ g.eof = e.eof /\ g.err = e.err
        /\ g.st = e.st /\ (Listening(g) <=> Listening(e))
    BY <1>6, Zenon DEF SameCore
  <2>2. /\ f.written = g.written /\ f.got = g.got /\ f.eof = g.eof /\ f.err = g.err
        /\ f.snd_lbb = g.snd_lbb /\ (Listening(f) <=> Listening(g))
        /\ f.st = g.st \/ (g.st = "ESTABLISHED" /\ f.st = "CLOSE_WAIT" /\ GotFin(f))
    BY <1>8, Zenon DEF Receives
  <2> QED BY <1>6, <2>1, <2>2, Zenon
<1>10. Queued(f) = Queued(g)
  BY <1>8, Zenon DEF Receives
<1>11. Queued(f) \subseteq Queued(e) /\ \A s \in Queued(e) \ Queued(f) : End(s) <= c
  <2>1. CASE m.ack
    <3>1. \A s \in Queued(e) \ Queued(f) : s \in Segs(o) /\ End(s) <= m.ackno
      <4>1. \A s \in Queued(e) \ Queued(f) : End(s) <= m.ackno
        BY <1>5, <1>10, Zenon DEF Acked
      <4>2. e.unsent \in Seq(Segs(o)) /\ e.unacked \in Seq(Segs(o))
        BY Zenon DEF Sound, Queues
      <4>3. Queued(e) \subseteq Segs(o)
        BY <4>2, RangeOfSeq, Zenon DEF Queued
      <4> QED BY <4>1, <4>3
    <3>2. o.written \in Nat
      BY DEF Sound, Numbers
    <3>3. \A s \in Queued(e) \ Queued(f) : End(s) \in Nat
      BY <3>1, <3>2, EndBound, Zenon
    <3>4. \A x \in Nat : x <= m.ackno => x <= c
      BY <1>4, <2>1
    <3>5. Queued(f) \subseteq Queued(e)
      BY <1>5, <1>10, Zenon DEF Acked
    <3> QED BY <3>1, <3>3, <3>4, <3>5, Zenon
  <2>2. CASE ~m.ack
    <3>1. g = e
      BY <1>1, <2>2, Zenon DEF ReceiveAck
    <3> QED BY <1>10, <3>1, Zenon
  <2> QED BY <2>1, <2>2
<1>12. GotFin(f) => EndsAlike(f.unsent, e.unsent)
  <2>1. SUFFICES ASSUME GotFin(f) PROVE EndsAlike(f.unsent, e.unsent)
    OBVIOUS
  <2>2. f.unsent = g.unsent /\ TcpLen(m) # 0
    BY <1>8, <2>1, Zenon DEF Receives
  <2>3. PICK q : q = ReceiveAck(e, m).unsent
    OBVIOUS
  <2>4. EndsAlike(q, e.unsent)
    BY <1>4, <2>2, <2>3, UnsentEndStays, Zenon
  <2> QED BY <1>1, <2>2, <2>3, <2>4, Zenon
<1>13. Taker(f, p) /\ Numbers(f, o, Reach(f, p)) /\ Queues(f, o, k)
  BY <1>8, Zenon DEF Receives
<1>14. MayGetFin(e, f)
  <2>1. MayGetFin(g, f) /\ g.recv_flags = e.recv_flags
    BY <1>6, <1>8, Zenon DEF Receives, SameRcv
  <2> QED BY <2>1, Zenon DEF MayGetFin
<1> QED BY <1>3, <1>9, <1>11, <1>12, <1>13, <1>14, Zenon DEF Received

-----------------------------------------------------------------------------
(* The SYN of an active connection waits for its answer.                   *)

\* tcp_output takes nothing from unacked, and sends what fits.
LEMMA OutputSends ==
  ASSUME NEW o, NEW k \in Nat, NEW e, Sound(e, o, k)
  PROVE  LET wnd == IF e.cwnd < e.snd_wnd THEN e.cwnd ELSE e.snd_wnd
             f == Output(e)
         IN  /\ f.snd_wnd = e.snd_wnd
             /\ e.unacked # <<>> => f.unacked # <<>>
             /\ e.unsent # <<>> /\ Fits(e, Head(e.unsent), wnd) /\ ~Held(e, Head(e.unsent))
                  => f.unacked # <<>>
<1> DEFINE wnd == IF e.cwnd < e.snd_wnd THEN e.cwnd ELSE e.snd_wnd
           go == {i \in DOMAIN e.unsent : Fits(e, e.unsent[i], wnd) /\ ~Held(e, e.unsent[i])}
           acks == "ACK_NOW" \in e.flags /\ (e.unsent = <<>> \/ ~Fits(e, Head(e.unsent), wnd))
           sends == e.unsent # <<>> /\ Fits(e, Head(e.unsent), wnd) /\ ~Held(e, Head(e.unsent))
<1>1. e.unsent \in Seq(Segs(o)) /\ e.unacked \in Seq(Segs(o))
  BY DEF Sound, Queues
<1>2. PICK ready : ready = Lead(e.unsent, go)
  OBVIOUS
<1>3. ready \in 0 .. Len(e.unsent) /\ (ready < Len(e.unsent) => ready + 1 \notin go)
  <2> HIDE DEF go
  <2> QED BY <1>1, <1>2, LeadCounts
<1>4. PICK head : head = SubSeq(e.unsent, 1, ready)
  OBVIOUS
<1>5. PICK rest : rest = SubSeq(e.unsent, ready + 1, Len(e.unsent))
  OBVIOUS
<1>6. head \in Seq(Segs(o)) /\ Len(head) = ready
  BY <1>1, <1>3, <1>4, CutInTwo
<1>7. PICK sent : sent = SendAll(e, head)
  OBVIOUS
<1>8. Transmits(e, sent, Range(head), o, k)
  <2>1. head \in Seq(Segs(o))
    BY <1>6
  <2> QED BY <1>7, <2>1, SendAllKeeps
<1>9. PICK per : per = (sent.persist \/ WindowTooSmall(e, rest))
  OBVIOUS
<1>10. PICK f : f = [sent EXCEPT !.unsent = rest, !.persist = per]
  OBVIOUS
<1>11. CASE acks
  <2>1. Output(e) = SendEmptyAck(e)
    BY <1>11, Zenon DEF Output
  <2>2. SendEmptyAck(e).snd_wnd = e.snd_wnd /\ SendEmptyAck(e).unacked = e.unacked
    BY DEF SendEmptyAck, NoAckDue, Announced, Send, Sound, IsPcb, PcbFields
  <2>3. ~sends
    BY <1>11, Zenon
  <2> QED BY <2>1, <2>2, <2>3, Zenon
<1>12. CASE ~acks
  <2>1. Output(e) = f
    BY <1>2, <1>4, <1>5, <1>7, <1>9, <1>10, <1>12, Zenon DEF Output
  <2> Sound(sent, o, k)
    BY <1>8 DEF Transmits
  <2>2. f.unacked = sent.unacked /\ f.snd_wnd = sent.snd_wnd
    BY <1>10 DEF Sound, IsPcb, PcbFields
  <2>3. sent.snd_wnd = e.snd_wnd /\ Range(sent.unacked) = Range(e.unacked) \cup Range(head)
    BY <1>8 DEF Transmits
  <2>4. ASSUME NEW q \in Seq(Segs(o)), q # <<>>, Range(q) \subseteq Range(sent.unacked)
        PROVE  f.unacked # <<>>
    <3>1. Head(q) \in Range(q)
      BY <2>4, HeadAndTail
    <3>2. Range(<<>>) = {}
      BY DEF Range
    <3> QED BY <2>2, <2>4, <3>1, <3>2
  <2>5. e.unacked # <<>> => f.unacked # <<>>
    BY <1>1, <2>3, <2>4
  <2>6. sends => f.unacked # <<>>
    <3>1. SUFFICES ASSUME sends PROVE f.unacked # <<>>
      OBVIOUS
    <3>2. PICK l \in Nat : l = Len(e.unsent) /\ l > 0 /\ 1 \in DOMAIN e.unsent
      BY <1>1, <3>1, LenProperties, EmptySeq
    <3>3. Head(e.unsent) = e.unsent[1]
      BY <1>1, <3>1
    <3>4. 1 \in go
      BY <3>1, <3>2, <3>3, Zenon
    <3>5. ready # 0
      <4> HIDE DEF go
      <4> QED BY <1>3, <3>2, <3>4
    <3>6. head # <<>>
      BY <1>6, <3>5
    <3> QED BY <1>6, <2>3, <2>4, <3>6
  <2> QED BY <2>1, <2>2, <2>3, <2>5, <2>6, Zenon
<1> QED BY <1>11, <1>12

\* The pcb of an active connection that has no answer yet.
SynWaits(e) ==
  /\ e.unacked # <<>> /\ e.lastack = 0 /\ e.snd_wnd = TcpWnd
  /\ \A s \in Queued(e) : s.syn

LEMMA RtoSends ==
  ASSUME NEW o, NEW k \in Nat, NEW e, Sound(e, o, k), SynWaits(e), e.cwnd = Mss
  PROVE  RexmitRto(e).unacked # <<>> /\ RexmitRto(e).snd_wnd = e.snd_wnd
<1> DEFINE held == {i \in DOMAIN e.unacked : Held(e, e.unacked[i])}
<1>1. e.unsent \in Seq(Segs(o)) /\ e.unacked \in Seq(Segs(o))
  BY DEF Sound, Queues
<1>2. PICK I, J : I = held /\ J = DOMAIN e.unacked \ held
  OBVIOUS
<1>3. I \cap DOMAIN e.unacked = I /\ J \cap DOMAIN e.unacked = J /\ I \cup J = DOMAIN e.unacked
  BY <1>2
<1>4. PICK stay, again : stay = Picked(e.unacked, I) /\ again = Picked(e.unacked, J)
  OBVIOUS
<1>5. stay \in Seq(Segs(o)) /\ Range(stay) = {e.unacked[i] : i \in I \cap DOMAIN e.unacked}
  BY <1>1, <1>4, PickedKeeps, Zenon
<1>6. again \in Seq(Segs(o)) /\ Range(again) = {e.unacked[i] : i \in J \cap DOMAIN e.unacked}
  BY <1>1, <1>4, PickedKeeps, Zenon
<1>7. Range(e.unacked) = {e.unacked[i] : i \in DOMAIN e.unacked}
  BY DEF Range
<1>8. Range(e.unacked) = Range(stay) \cup Range(again)
  BY <1>3, <1>5, <1>6, <1>7
<1>9. PICK q : q = again \o e.unsent
  OBVIOUS
<1>10. q \in Seq(Segs(o))
  BY <1>1, <1>6, <1>9, ConcatProperties
<1>11. Range(q) = Range(again) \cup Range(e.unsent)
  BY <1>1, <1>6, <1>9, RangeConcatenation
<1>12. PICK n : n = Again(e.nrtx)
  OBVIOUS
<1>13. PICK f : f = [e EXCEPT !.unacked = stay, !.unsent = q, !.nrtx = n]
  OBVIOUS
<1>14. RexmitRto(e) = Output(f)
  BY <1>2, <1>4, <1>9, <1>12, <1>13, Zenon DEF RexmitRto
<1>15. f.unacked = stay /\ f.unsent = q /\ Same(e, f, {"unsent", "unacked", "nrtx"})
  BY <1>13 DEF Sound, IsPcb, PcbFields, Same
<1>16. f.lastack = 0 /\ f.snd_wnd = TcpWnd /\ f.cwnd = Mss /\ f.drv = e.drv
  BY <1>15 DEF Same, PcbFields, SynWaits
<1>17. Sound(f, o, k)
  <2>1. Numbers(f, o, k)
    BY <1>15, NumbersStay DEF Sound
  <2>2. Queues(f, o, k)
    BY <1>5, <1>10, <1>15 DEF Same, PcbFields, Sound, Queues
  <2> QED BY <1>15, <2>1, <2>2 DEF Same, Sound
<1>18. f.snd_wnd = e.snd_wnd
  BY <1>15 DEF Same, PcbFields
<1> DEFINE wnd == IF f.cwnd < f.snd_wnd THEN f.cwnd ELSE f.snd_wnd
<1>19. /\ Output(f).snd_wnd = f.snd_wnd
       /\ f.unacked # <<>> => Output(f).unacked # <<>>
       /\ q # <<>> /\ Fits(f, Head(q), wnd) /\ ~Held(f, Head(q)) => Output(f).unacked # <<>>
  BY <1>15, <1>17, OutputSends, Zenon
<1>20. CASE stay # <<>>
  BY <1>14, <1>15, <1>18, <1>19, <1>20, Zenon
<1>21. CASE stay = <<>>
  <2>1. Head(e.unacked) \in Range(e.unacked)
    BY <1>1, HeadAndTail DEF SynWaits
  <2>2. Range(stay) = {}
    BY <1>21 DEF Range
  <2>3. again # <<>>
    <3>1. Range(<<>>) = {}
      BY DEF Range
    <3> QED BY <1>8, <2>1, <2>2, <3>1
  <2>4. PICK s : s = Head(again)
    OBVIOUS
  <2>5. s \in Range(again) /\ s \in Segs(o)
    BY <1>6, <2>3, <2>4, HeadAndTail
  <2>6. q # <<>> /\ Head(q) = s
    <3>1. PICK x, y \in Seq(Segs(o)) : x = again /\ y = e.unsent
      BY <1>1, <1>6
    <3>2. /\ x \o y \in Seq(Segs(o)) /\ Len(x \o y) = Len(x) + Len(y)
          /\ \A i \in 1 .. Len(x) + Len(y) :
               (x \o y)[i] = IF i <= Len(x) THEN x[i] ELSE y[i - Len(x)]
      BY ConcatProperties
    <3>3. Len(x) \in Nat /\ Len(x) > 0 /\ Len(y) \in Nat
      BY <2>3, <3>1, LenProperties, EmptySeq
    <3>4. q[1] = x[1] /\ Len(q) > 0
      BY <1>9, <3>1, <3>2, <3>3
    <3>5. q # <<>>
      BY <3>4
    <3>6. Head(q) = q[1] /\ Head(x) = x[1]
      BY <1>10, <2>3, <3>1, <3>5
    <3> QED BY <2>4, <3>1, <3>4, <3>5, <3>6
  <2>7. s.seq = 0 /\ s.data = <<>>
    <3>1. s \in Queued(e)
      BY <1>8, <2>5 DEF Queued
    <3>2. s.syn /\ Genuine(s, o)
      BY <2>5, <3>1 DEF SynWaits, Segs
    <3> QED BY <3>2, Zenon DEF Genuine
  <2>8. Fits(f, s, wnd)
    <3>1. Need(f, s) = 0
      BY <1>16, <2>7 DEF Need
    <3>2. wnd \in Nat
      BY <1>16, TcpAssumption
    <3> HIDE DEF wnd
    <3> QED BY <3>1, <3>2 DEF Fits, SeqBetween
  <2>9. ~Held(f, s)
    <3>1. PICK i \in J : s = e.unacked[i]
      BY <1>3, <1>6, <2>5
    <3>2. ~Held(e, e.unacked[i])
      BY <1>2, <3>1
    <3> QED BY <1>16, <3>1, <3>2, Zenon DEF Held
  <2> QED BY <1>14, <1>18, <1>19, <2>6, <2>8, <2>9, Zenon
<1> QED BY <1>20, <1>21

-----------------------------------------------------------------------------
(* A connection: one end e whose peer is p.                                *)

\* The states in which e knows where the stream of p is, those after espconn
\* has closed, and those before and after a connection.
Linked == {"SYN_RCVD", "ESTABLISHED", "CLOSE_WAIT", "FIN_WAIT_1", "FIN_WAIT_2", "CLOSING",
           "LAST_ACK"}
Shuts == {"FIN_WAIT_1", "FIN_WAIT_2", "CLOSING", "LAST_ACK", "TIME_WAIT"}
Living(e) == e.st \notin {"CLOSED", "LISTEN", "GONE", "TIME_WAIT"}

\* How far e is with what it sends.
Sender(e) ==
  /\ e.st \in States
  /\ e.st \in {"CLOSED", "LISTEN"} =>
       /\ e.unsent = <<>> /\ e.unacked = <<>> /\ e.drv = <<>>
       /\ e.snd_lbb = 0 /\ e.snd_nxt = 0 /\ e.lastack = 0 /\ e.written = 0 /\ e.cwnd = 1
  /\ e.st \in {"SYN_SENT", "SYN_RCVD"} =>
       e.written = 0 /\ e.snd_lbb = 1 /\ \A s \in Queued(e) : s.syn
  /\ e.st = "SYN_SENT" => SynWaits(e) /\ e.snd_nxt >= 1
  /\ e.st \in {"ESTABLISHED", "CLOSE_WAIT"} => e.snd_lbb = e.written + 1
  /\ Over(e) /\ e.st # "GONE" => e.snd_lbb >= e.written + 1
  /\ e.st = "GONE" => e.snd_nxt = 0

\* A byte that e was given and that is not with the application of p is in one
\* of its queues.
AllCovered(e, p) == \A i \in 1 .. e.written : i > Len(p.got) => Covers(e, i)

Good(e, p) ==
  /\ Sound(e, e, Reach(e, p)) /\ Stream(e, p) /\ Sorted(e, p) /\ Sender(e)
  /\ Listening(e) <=> e.st \notin Shuts
  /\ e.st = "CLOSE_WAIT" => HasAll(e, p)
  /\ e.recv_data = <<>> /\ e.recv_flags = {}
  /\ e.st \in Linked => Placed(e, p)
  /\ e.st \in {"CLOSED", "LISTEN", "SYN_SENT"} => e.got = <<>>
  /\ Living(e) => AllCovered(e, p)

\* A step of e, as its peer sees it, and one in which its application does not
\* write.
Steps(e, f, p) == Good(f, p) /\ Grows(e, f) /\ Len(e.got) <= Len(f.got)
Moves(e, f, p) == Steps(e, f, p) /\ f.written = e.written

LEMMA ReachIs ==
  ASSUME NEW e, NEW p, Stream(e, p)
  PROVE  Reach(e, p) \in Nat /\ Reach(e, p) >= 1 /\ Taken(e) \in Nat /\ p.written \in Nat
<1>1. PICK w \in Nat : w = p.written
  BY DEF Stream
<1>2. PICK n \in Nat : n = Taken(e)
  <2>1. e.got \in Seq(Nat) /\ e.recv_data \in Seq(Nat)
    BY DEF Stream
  <2>2. Len(e.got) \in Nat /\ Len(e.recv_data) \in Nat
    BY <2>1, LenProperties
  <2>3. PICK g \in Nat : g = Len(e.got)
    BY <2>2
  <2>4. PICK r \in Nat : r = Len(e.recv_data)
    BY <2>2
  <2>5. Taken(e) = g + r
    BY <2>3, <2>4, Zenon DEF Taken
  <2> QED BY <2>5
<1>3. PICK b \in BOOLEAN : b = (Over(p) /\ n = w)
  OBVIOUS
<1>4. Reach(e, p) = IF b THEN w + 2 ELSE n + 1
  BY <1>1, <1>2, <1>3, Zenon DEF Reach
<1> QED BY <1>1, <1>2, <1>4

LEMMA GrowsItself ==
  ASSUME NEW e, NEW f, e.written \in Nat, f.written = e.written, Over(e) => Over(f)
  PROVE  Grows(e, f)
  BY DEF Grows

\* A step that leaves the connection, what is queued and what was received.
LEMMA StillGood ==
  ASSUME NEW e, NEW p, Good(e, p), NEW f, Sound(f, e, Reach(e, p)), SameCore(e, f),
         f.rcv_nxt = e.rcv_nxt, f.recv_flags = {}, f.recv_data = <<>>, Sorted(f, p),
         Queued(f) = Queued(e), Sender(f)
  PROVE  Moves(e, f, p)
<1>1. PICK k \in Nat : k = Reach(e, p)
  BY ReachIs, Zenon DEF Good
<1>2. /\ f.st = e.st /\ f.written = e.written /\ f.got = e.got /\ f.eof = e.eof
      /\ (Listening(f) <=> Listening(e))
      /\ f.recv_data = e.recv_data /\ f.recv_flags = e.recv_flags
  BY Zenon DEF SameCore, Good
<1>3. Grows(e, f)
  <2>1. e.written \in Nat
    BY DEF Good, Sound, Numbers
  <2> QED BY <1>2, <2>1, GrowsItself, Zenon DEF Over
<1>4. k <= k
  OBVIOUS
<1>5. Sound(f, f, k)
  <2>1. Sound(f, e, k)
    BY <1>1, Zenon
  <2> QED BY <1>1, <1>3, <1>4, <2>1, SoundGrows, Zenon
<1>6. Reach(f, p) = k
  <2>1. Taken(f) = Taken(e)
    BY <1>2, Zenon DEF Taken
  <2>2. Reach(f, p) = Reach(e, p)
    BY <2>1, Zenon DEF Reach
  <2> QED BY <1>1, <2>2
<1>7. Stream(f, p)
  BY <1>2, Zenon DEF Good, Stream, Taken
<1>8. f.st \in Linked => Placed(f, p)
  <2>1. Placed(e, p) => Placed(f, p)
    <3>1. Taken(f) = Taken(e) /\ (GotFin(f) <=> GotFin(e))
      BY <1>2, Zenon DEF Taken, GotFin
    <3>2. AllTaken(f, p) <=> AllTaken(e, p)
      BY <3>1, Zenon DEF AllTaken, HasAll
    <3> QED BY <3>1, <3>2, Zenon DEF Placed
  <2> QED BY <1>2, <2>1, Zenon DEF Good
<1>9. Living(f) => AllCovered(f, p)
  BY <1>2, Zenon DEF Good, Living, AllCovered, Covers
<1>10. Good(f, p)
  <2>1. f.st = "CLOSE_WAIT" => HasAll(f, p)
    BY <1>2, Zenon DEF Good, HasAll, Taken
  <2> QED BY <1>2, <1>5, <1>6, <1>7, <1>8, <1>9, <2>1, Zenon DEF Good
<1>11. Len(e.got) <= Len(f.got)
  <2>1. Len(e.got) \in Nat
    BY LenProperties DEF Good, Stream
  <2> QED BY <1>2, <2>1
<1> QED BY <1>2, <1>3, <1>10, <1>11, Zenon DEF Moves, Steps

\* Segments are sent, or sent again.
LEMMA CalmMoves ==
  ASSUME NEW e, NEW p, Good(e, p), e.st \notin {"CLOSED", "LISTEN", "GONE"},
         NEW f, Calm(e, f, e, Reach(e, p)),
         e.st = "SYN_SENT" => f.unacked # <<>> /\ f.snd_wnd = e.snd_wnd
  PROVE  Moves(e, f, p)
<1>1. /\ SameCore(e, f) /\ f.rcv_nxt = e.rcv_nxt /\ f.recv_flags = {} /\ f.recv_data = <<>>
      /\ f.ooseq = e.ooseq /\ Queued(f) = Queued(e) /\ f.snd_lbb = e.snd_lbb
      /\ f.lastack = e.lastack /\ Sound(f, e, Reach(e, p)) /\ f.snd_nxt >= e.snd_nxt
  BY Zenon DEF Good, Calm, Quiet, SameRcv
<1>2. Sorted(f, p)
  BY <1>1, Zenon DEF Good, Sorted
<1>3. f.st = e.st /\ f.written = e.written
  BY <1>1, Zenon DEF SameCore
<1>4. e.st = "SYN_SENT" => f.snd_nxt >= 1
  <2>1. e.snd_nxt \in Nat /\ f.snd_nxt \in Nat
    BY <1>1 DEF Good, Sound, Numbers
  <2>2. e.st = "SYN_SENT" => e.snd_nxt >= 1
    BY Zenon DEF Good, Sender
  <2> QED BY <1>1, <2>1, <2>2
<1>5. e.st = "SYN_SENT" => SynWaits(f)
  BY <1>1, Zenon DEF Good, Sender, SynWaits
<1>6. Over(f) <=> Over(e)
  BY <1>3, Zenon DEF Over
<1>7. Sender(f)
  BY <1>1, <1>3, <1>4, <1>5, <1>6, Zenon DEF Good, Sender
<1> QED BY <1>1, <1>2, <1>7, StillGood, Zenon

\* What the driver, the window and the callbacks are does not matter to what
\* e sends.
LEMMA SenderStays ==
  ASSUME NEW e, Sender(e), NEW f,
         Same(e, f, {"drv", "out", "hold", "holded", "ooseq", "rcv_wnd", "rcv_ann_wnd",
                     "rcv_ann_right_edge", "flags", "eof", "got", "recv_data", "recv_flags"}),
         e.st \in {"CLOSED", "LISTEN"} => f.drv = e.drv
  PROVE  Sender(f)
<1>1. /\ f.st = e.st /\ f.unsent = e.unsent /\ f.unacked = e.unacked /\ f.snd_lbb = e.snd_lbb
      /\ f.snd_nxt = e.snd_nxt /\ f.lastack = e.lastack /\ f.written = e.written
      /\ f.cwnd = e.cwnd /\ f.snd_wnd = e.snd_wnd
  BY DEF Same, PcbFields
<1>2. Queued(f) = Queued(e) /\ (Over(f) <=> Over(e))
  BY <1>1, Zenon DEF Queued, Over
<1>3. SynWaits(e) => SynWaits(f)
  BY <1>1, <1>2, Zenon DEF SynWaits
<1> QED BY <1>1, <1>2, <1>3, Zenon DEF Sender

\* Poll.
LEMMA PollMoves ==
  ASSUME NEW e, NEW p, Good(e, p), e.st \notin {"CLOSED", "LISTEN", "GONE"}
  PROVE  Moves(e, Output(e), p)
<1>1. PICK k \in Nat : k = Reach(e, p)
  BY ReachIs, Zenon DEF Good
<1>2. Sound(e, e, k)
  BY <1>1, Zenon DEF Good
<1>3. Calm(e, Output(e), e, k)
  BY <1>2, OutputKeeps, Zenon
<1>4. /\ Output(e).snd_wnd = e.snd_wnd
      /\ e.unacked # <<>> => Output(e).unacked # <<>>
  BY <1>2, OutputSends, Zenon
<1>5. e.st = "SYN_SENT" => e.unacked # <<>>
  BY Zenon DEF Good, Sender, SynWaits
<1> QED BY <1>1, <1>3, <1>4, <1>5, CalmMoves, Zenon

\* Flags that espconn does not see.
LEMMA FlagsMove ==
  ASSUME NEW e, NEW p, Good(e, p), NEW f, Same(e, f, {"flags"}), Listening(f) <=> Listening(e)
  PROVE  Good(f, p) /\ SameCore(e, f) /\ Grows(e, f) /\ Sound(f, e, Reach(e, p))
<1>1. /\ f.st = e.st /\ f.written = e.written /\ f.got = e.got /\ f.eof = e.eof
      /\ f.err = e.err /\ f.recv_data = e.recv_data /\ f.recv_flags = e.recv_flags
      /\ f.rcv_nxt = e.rcv_nxt /\ f.ooseq = e.ooseq /\ IsPcb(f)
  BY DEF Same, PcbFields
<1>2. f.unsent = e.unsent /\ f.unacked = e.unacked /\ f.drv = e.drv /\ f.out = e.out
  BY DEF Same, PcbFields
<1>3. SameCore(e, f) /\ Queued(f) = Queued(e) /\ Sorted(f, p)
  BY <1>1, <1>2, Zenon DEF SameCore, Queued, Good, Sorted
<1>4. Sender(f)
  <2>1. Same(e, f, {"drv", "out", "hold", "holded", "ooseq", "rcv_wnd", "rcv_ann_wnd",
                    "rcv_ann_right_edge", "flags", "eof", "got", "recv_data", "recv_flags"})
    BY DEF Same
  <2> QED BY <1>2, <2>1, SenderStays, Zenon DEF Good
<1>5. Sound(f, e, Reach(e, p))
  <2>1. Numbers(f, e, Reach(e, p))
    <3>1. Numbers(e, e, Reach(e, p))
      BY Zenon DEF Good, Sound
    <3> QED BY <3>1, NumbersStay
  <2>2. Queues(f, e, Reach(e, p))
    BY <1>2, Zenon DEF Good, Sound, Queues
  <2> QED BY <1>1, <2>1, <2>2, Zenon DEF Sound
<1>6. f.recv_flags = {} /\ f.recv_data = <<>>
  BY <1>1, Zenon DEF Good
<1>7. Moves(e, f, p)
  BY <1>1, <1>3, <1>4, <1>5, <1>6, StillGood, Zenon
<1> QED BY <1>3, <1>5, <1>7, Zenon DEF Moves, Steps

LEMMA StepsMoves ==
  ASSUME NEW e, NEW f, NEW g, NEW p, Stream(e, p), Steps(e, f, p), Moves(f, g, p)
  PROVE  Steps(e, g, p)
<1>1. PICK l \in Nat : l = Len(e.got)
  BY LenProperties DEF Stream
<1>2. PICK m \in Nat : m = Len(f.got)
  BY LenProperties DEF Moves, Steps, Good, Stream
<1>3. PICK n \in Nat : n = Len(g.got)
  BY LenProperties DEF Moves, Steps, Good, Stream
<1>4. l <= n
  BY <1>1, <1>2, <1>3 DEF Moves, Steps
<1>5. Grows(e, g)
  BY DEF Moves, Steps, Grows
<1> QED BY <1>1, <1>3, <1>4, <1>5 DEF Moves, Steps

LEMMA MovesTwice ==
  ASSUME NEW e, NEW f, NEW g, NEW p, Stream(e, p), Moves(e, f, p), Moves(f, g, p)
  PROVE  Moves(e, g, p)
<1>1. Steps(e, g, p)
  BY StepsMoves DEF Moves
<1> QED BY <1>1 DEF Moves

\* A step that only sets flags.
LEMMA FlagsStep ==
  ASSUME NEW e, NEW p, Good(e, p), NEW f, Same(e, f, {"flags"}), Listening(f) <=> Listening(e)
  PROVE  Moves(e, f, p)
<1>1. Good(f, p) /\ SameCore(e, f) /\ Grows(e, f)
  BY FlagsMove, Zenon
<1>2. PICK l \in Nat : l = Len(e.got)
  BY LenProperties DEF Good, Stream
<1>3. l <= l
  OBVIOUS
<1> QED BY <1>1, <1>2, <1>3, Zenon DEF Moves, Steps, SameCore

\* DelayedAck.
LEMMA DelayedAckMoves ==
  ASSUME NEW e, NEW p, Good(e, p), Living(e)
  PROVE  Moves(e, NoAckDue(Output(AckNow(e))), p)
<1>1. PICK f, g : f = AckNow(e) /\ g = Output(f)
  OBVIOUS
<1>2. IsPcb(e) /\ Stream(e, p)
  BY Zenon DEF Good, Sound
<1>3. Same(e, f, {"flags"}) /\ (Listening(f) <=> Listening(e))
  BY <1>1, <1>2, AckSame, Zenon
<1>4. Moves(e, f, p)
  BY <1>3, FlagsStep, Zenon
<1>5. f.st \notin {"CLOSED", "LISTEN", "GONE"}
  BY <1>3 DEF Same, PcbFields, Living
<1>6. Moves(f, g, p)
  BY <1>1, <1>4, <1>5, PollMoves, Zenon DEF Moves, Steps
<1>7. IsPcb(g)
  BY <1>6, Zenon DEF Moves, Steps, Good, Sound
<1>8. Same(g, NoAckDue(g), {"flags"}) /\ (Listening(NoAckDue(g)) <=> Listening(g))
  BY <1>7 DEF IsPcb, PcbFields, Same, NoAckDue, Listening
<1>9. Moves(g, NoAckDue(g), p)
  BY <1>6, <1>8, FlagsStep, Zenon DEF Moves, Steps
<1>10. Moves(e, g, p)
  BY <1>2, <1>4, <1>6, MovesTwice, Zenon
<1>11. Moves(e, NoAckDue(g), p)
  BY <1>2, <1>9, <1>10, MovesTwice, Zenon
<1> QED BY <1>1, <1>11, Zenon

\* A step on the window, the flags, the driver or ooseq.
Aside == {"flags", "rcv_wnd", "rcv_ann_wnd", "hold", "holded", "ooseq", "drv", "out"}

LEMMA AsideMoves ==
  ASSUME NEW e, NEW p, Good(e, p), NEW f, Same(e, f, Aside), Listening(f) <=> Listening(e),
         Windows(f), f.holded \in Nat, Sorted(f, p),
         f.drv \in Seq(Sent(e, Reach(e, p))), f.out \in Seq(Sent(e, Reach(e, p))),
         e.st \in {"CLOSED", "LISTEN"} => f.drv = e.drv
  PROVE  Moves(e, f, p)
<1>1. /\ f.st = e.st /\ f.written = e.written /\ f.got = e.got /\ f.eof = e.eof
      /\ f.err = e.err /\ f.recv_data = e.recv_data /\ f.recv_flags = e.recv_flags
      /\ f.rcv_nxt = e.rcv_nxt /\ IsPcb(f)
  BY DEF Same, PcbFields, Aside
<1>2. /\ f.unsent = e.unsent /\ f.unacked = e.unacked /\ f.snd_nxt = e.snd_nxt
      /\ f.lastack = e.lastack /\ f.snd_lbb = e.snd_lbb /\ f.dupacks = e.dupacks
  BY DEF Same, PcbFields, Aside
<1>3. SameCore(e, f) /\ Queued(f) = Queued(e)
  BY <1>1, <1>2, Zenon DEF SameCore, Queued
<1>4. Sender(f)
  <2>1. Same(e, f, {"drv", "out", "hold", "holded", "ooseq", "rcv_wnd", "rcv_ann_wnd",
                    "rcv_ann_right_edge", "flags", "eof", "got", "recv_data", "recv_flags"})
    BY DEF Same, Aside
  <2> QED BY <2>1, SenderStays, Zenon DEF Good
<1>5. Sound(f, e, Reach(e, p))
  <2>1. Numbers(e, e, Reach(e, p)) /\ Queues(e, e, Reach(e, p))
    BY Zenon DEF Good, Sound
  <2>2. PICK k : k = Reach(e, p)
    OBVIOUS
  <2>3. Numbers(f, e, k)
    BY <1>1, <1>2, <2>1, <2>2 DEF Numbers, Windows
  <2>4. Queues(f, e, k)
    BY <1>2, <2>1, <2>2, Zenon DEF Queues
  <2> QED BY <1>1, <2>2, <2>3, <2>4, Zenon DEF Sound
<1>6. f.recv_flags = {} /\ f.recv_data = <<>>
  BY <1>1, Zenon DEF Good
<1> QED BY <1>1, <1>3, <1>4, <1>5, <1>6, StillGood, Zenon

\* tcp_recved.
LEMMA RecvedKeeps ==
  ASSUME NEW e, IsPcb(e), Windows(e), NEW n \in Nat
  PROVE  LET f == Recved(e, n) IN
         /\ Same(e, f, {"rcv_wnd", "rcv_ann_wnd", "flags"}) /\ Windows(f)
         /\ Listening(f) <=> Listening(e)
<1>1. PICK w : w = Min({U16(e.rcv_wnd + n), TcpWnd})
  OBVIOUS
<1>2. w \in Nat /\ w < 65536
  <2>1. e.rcv_wnd + n \in Int
    BY DEF Windows
  <2>2. PICK x \in Nat : x = U16(e.rcv_wnd + n) /\ x < 65536
    BY <2>1, U16Is
  <2>3. TcpWnd \in Nat /\ TcpWnd < 65536
    BY TcpAssumption
  <2>4. x \in Int /\ TcpWnd \in Int
    BY <2>3
  <2>5. Min({x, TcpWnd}) = IF x <= TcpWnd THEN x ELSE TcpWnd
    BY <2>4, MinOfTwo
  <2> QED BY <1>1, <2>2, <2>3, <2>5
<1>3. PICK f : f = [e EXCEPT !.rcv_wnd = w]
  OBVIOUS
<1>4. f.rcv_wnd = w /\ Same(e, f, {"rcv_wnd"})
  BY <1>3 DEF IsPcb, PcbFields, Same
<1>5. IsPcb(f) /\ Windows(f)
  BY <1>2, <1>4 DEF Same, PcbFields, Windows
<1>6. PICK u : u = UpdateAnnWnd(f)
  OBVIOUS
<1>7. Windows(u) /\ Same(f, u, {"rcv_ann_wnd"})
  BY <1>5, <1>6, UpdateAnnWndKeeps
<1>8. Recved(e, n) = IF Moved(f) /\ Edge(f) - f.rcv_ann_right_edge >= TcpWnd \div 4
                     THEN AckNow(u) ELSE u
  BY <1>1, <1>3, <1>6, Zenon DEF Recved
<1>9. Recved(e, n) = AckNow(u) \/ Recved(e, n) = u
  BY <1>8, Zenon
<1>10. Same(e, u, {"rcv_wnd", "rcv_ann_wnd", "flags"}) /\ IsPcb(u) /\ (Listening(u) <=> Listening(e))
  BY <1>4, <1>7 DEF Same, PcbFields, Listening
<1>11. PICK a : a = AckNow(u)
  OBVIOUS
<1>12. Same(u, a, {"flags"}) /\ (Listening(a) <=> Listening(u))
  BY <1>10, <1>11, AckSame, Zenon
<1>13. Same(e, a, {"rcv_wnd", "rcv_ann_wnd", "flags"})
  BY <1>10, <1>12 DEF Same
<1>14. Windows(a)
  BY <1>7, <1>12 DEF Same, PcbFields, Windows
<1> QED BY <1>7, <1>9, <1>10, <1>11, <1>12, <1>13, <1>14, Zenon

\* What Good says of the fields that a step aside leaves.
LEMMA GoodParts ==
  ASSUME NEW e, NEW p, Good(e, p)
  PROVE  /\ IsPcb(e) /\ Windows(e) /\ e.holded \in Nat /\ e.written \in Nat
         /\ e.drv \in Seq(Sent(e, Reach(e, p))) /\ e.out \in Seq(Sent(e, Reach(e, p)))
         /\ Reach(e, p) \in Nat
<1>1. IsPcb(e) /\ Windows(e) /\ e.holded \in Nat /\ e.written \in Nat
  BY DEF Good, Sound, Numbers, Windows
<1>2. e.drv \in Seq(Sent(e, Reach(e, p))) /\ e.out \in Seq(Sent(e, Reach(e, p)))
  BY Zenon DEF Good, Sound, Queues
<1>3. Reach(e, p) \in Nat
  BY ReachIs, Zenon DEF Good
<1> QED BY <1>1, <1>2, <1>3

\* The retransmission timer.
LEMMA RtoMoves ==
  ASSUME NEW e, NEW p, Good(e, p), Living(e)
  PROVE  Moves(e, RexmitRto([e EXCEPT !.cwnd = Mss]), p)
<1>1. PICK k \in Nat : k = Reach(e, p)
  BY GoodParts
<1>2. Sound(e, e, k)
  BY <1>1, Zenon DEF Good
<1>3. PICK w : w = Mss
  OBVIOUS
<1>4. PICK f : f = [e EXCEPT !.cwnd = w]
  OBVIOUS
<1>5. f.cwnd = w /\ Same(e, f, {"cwnd"})
  BY <1>2, <1>4 DEF Sound, IsPcb, PcbFields, Same
<1>6. Calm(e, f, e, k)
  <2>1. Same(e, f, {"timing", "persist", "nrtx", "dupacks", "cwnd", "snd_wnd", "snd_wl1",
                    "snd_wl2", "flags"})
    BY <1>5 DEF Same
  <2>2. f.flags = e.flags /\ f.dupacks = e.dupacks
    BY <1>5 DEF Same, PcbFields
  <2>3. f.dupacks \in Nat
    BY <1>2, <2>2 DEF Sound, Numbers
  <2> QED BY <1>2, <2>1, <2>2, <2>3, CountersAreCalm
<1>7. Sound(f, e, k) /\ e.snd_nxt \in Nat
  BY <1>2, <1>6 DEF Calm, Sound, Numbers
<1>8. PICK g : g = RexmitRto(f)
  OBVIOUS
<1>9. Calm(f, g, e, k)
  BY <1>7, <1>8, RexmitRtoKeeps, Zenon
<1>10. Calm(e, g, e, k)
  BY <1>6, <1>7, <1>9, CalmTwice
<1>11. e.st = "SYN_SENT" => g.unacked # <<>> /\ g.snd_wnd = e.snd_wnd
  <2>1. SUFFICES ASSUME e.st = "SYN_SENT" PROVE g.unacked # <<>> /\ g.snd_wnd = e.snd_wnd
    OBVIOUS
  <2>2. SynWaits(e)
    BY <2>1, Zenon DEF Good, Sender
  <2>3. f.unacked = e.unacked /\ f.unsent = e.unsent /\ f.lastack = e.lastack /\ f.snd_wnd = e.snd_wnd
    BY <1>5 DEF Same, PcbFields
  <2>4. SynWaits(f)
    BY <2>2, <2>3, Zenon DEF SynWaits, Queued
  <2>5. RexmitRto(f).unacked # <<>> /\ RexmitRto(f).snd_wnd = f.snd_wnd
    BY <1>3, <1>5, <1>7, <2>4, RtoSends, Zenon
  <2> QED BY <1>8, <2>3, <2>5, Zenon
<1>12. Moves(e, g, p)
  BY <1>1, <1>10, <1>11, CalmMoves, Zenon DEF Living
<1> QED BY <1>3, <1>4, <1>8, <1>12, Zenon

\* The persist timer.
LEMMA PersistMoves ==
  ASSUME NEW e, NEW p, Good(e, p), Living(e)
  PROVE  Moves(e, ZeroWindowProbe(e), p)
<1>1. PICK k \in Nat : k = Reach(e, p)
  BY GoodParts
<1>2. Sound(e, e, k)
  BY <1>1, Zenon DEF Good
<1>3. PICK f : f = ZeroWindowProbe(e)
  OBVIOUS
<1>4. Calm(e, f, e, k)
  BY <1>2, <1>3, ProbeKeeps, Zenon
<1>5. f.unacked = e.unacked /\ f.snd_wnd = e.snd_wnd
  <2>1. PICK m : f = e \/ f = Announced(Send(e, m))
    BY <1>3, Zenon DEF ZeroWindowProbe
  <2>2. Announced(Send(e, m)).unacked = e.unacked /\ Announced(Send(e, m)).snd_wnd = e.snd_wnd
    BY <1>2 DEF Announced, Send, Sound, IsPcb, PcbFields
  <2> QED BY <2>1, <2>2, Zenon
<1>6. e.st = "SYN_SENT" => f.unacked # <<>>
  BY <1>5, Zenon DEF Good, Sender, SynWaits
<1>7. Moves(e, f, p)
  BY <1>1, <1>4, <1>5, <1>6, CalmMoves, Zenon DEF Living
<1> QED BY <1>3, <1>7, Zenon

\* The timeout of ooseq.
LEMMA OoseqMoves ==
  ASSUME NEW e, NEW p, Good(e, p)
  PROVE  Moves(e, [e EXCEPT !.ooseq = <<>>], p)
<1>1. PICK f : f = [e EXCEPT !.ooseq = <<>>]
  OBVIOUS
<1>2. f.ooseq = <<>> /\ Same(e, f, {"ooseq"})
  BY <1>1, GoodParts DEF IsPcb, PcbFields, Same
<1>3. Same(e, f, Aside) /\ (Listening(f) <=> Listening(e))
  BY <1>2 DEF Same, PcbFields, Listening, Aside
<1>4. f.drv = e.drv /\ f.out = e.out /\ f.holded = e.holded
  BY <1>2 DEF Same, PcbFields
<1>5. Windows(f)
  <2>1. Windows(e)
    BY GoodParts
  <2> QED BY <1>2, <2>1 DEF Same, PcbFields, Windows
<1>6. Sorted(f, p)
  <2>1. <<>> \in Seq(Waiting(p)) /\ 1 .. Len(<<>>) - 1 = {}
    OBVIOUS
  <2> QED BY <1>2, <2>1, Zenon DEF Sorted, FinLast
<1>7. Moves(e, f, p)
  BY <1>3, <1>4, <1>5, <1>6, GoodParts, AsideMoves, Zenon
<1> QED BY <1>1, <1>7, Zenon

\* espconn_recv_hold.
LEMMA HoldMoves ==
  ASSUME NEW e, NEW p, Good(e, p)
  PROVE  Moves(e, [e EXCEPT !.hold = TRUE, !.holded = 0], p)
<1>1. PICK f : f = [e EXCEPT !.hold = TRUE, !.holded = 0]
  OBVIOUS
<1>2. f.holded = 0 /\ Same(e, f, {"hold", "holded"})
  BY <1>1, GoodParts DEF IsPcb, PcbFields, Same
<1>3. Same(e, f, Aside) /\ (Listening(f) <=> Listening(e))
  BY <1>2 DEF Same, PcbFields, Listening, Aside
<1>4. f.drv = e.drv /\ f.out = e.out /\ f.ooseq = e.ooseq /\ f.holded \in Nat
  BY <1>2 DEF Same, PcbFields
<1>5. Windows(f)
  <2>1. Windows(e)
    BY GoodParts
  <2> QED BY <1>2, <2>1 DEF Same, PcbFields, Windows
<1>6. Sorted(f, p)
  BY <1>4, Zenon DEF Good, Sorted
<1>7. Moves(e, f, p)
  BY <1>3, <1>4, <1>5, <1>6, GoodParts, AsideMoves, Zenon
<1> QED BY <1>1, <1>7, Zenon

\* espconn_recv_unhold, up to its tcp_output.
LEMMA UnholdMoves ==
  ASSUME NEW e, NEW p, Good(e, p)
  PROVE  Moves(e, Recved([e EXCEPT !.hold = FALSE, !.holded = 0], e.holded), p)
<1>1. PICK f : f = [e EXCEPT !.hold = FALSE, !.holded = 0]
  OBVIOUS
<1>2. f.holded = 0 /\ Same(e, f, {"hold", "holded"})
  BY <1>1, GoodParts DEF IsPcb, PcbFields, Same
<1>3. Windows(f) /\ IsPcb(f)
  <2>1. Windows(e)
    BY GoodParts
  <2> QED BY <1>2, <2>1 DEF Same, PcbFields, Windows
<1>4. PICK g : g = Recved(f, e.holded)
  OBVIOUS
<1>5. /\ Same(f, g, {"rcv_wnd", "rcv_ann_wnd", "flags"}) /\ Windows(g)
      /\ Listening(g) <=> Listening(f)
  BY <1>3, <1>4, GoodParts, RecvedKeeps, Zenon
<1>6. Same(e, g, Aside) /\ (Listening(g) <=> Listening(e))
  BY <1>2, <1>5 DEF Same, PcbFields, Listening, Aside
<1>7. g.drv = e.drv /\ g.out = e.out /\ g.ooseq = e.ooseq /\ g.holded \in Nat
  BY <1>2, <1>5 DEF Same, PcbFields
<1>8. Sorted(g, p)
  BY <1>7, Zenon DEF Good, Sorted
<1>9. Moves(e, g, p)
  BY <1>5, <1>6, <1>7, <1>8, GoodParts, AsideMoves, Zenon
<1> QED BY <1>1, <1>4, <1>9, Zenon

\* The driver lets a segment go.
LEMMA DriverMoves ==
  ASSUME NEW e, NEW p, Good(e, p), e.drv # <<>>
  PROVE  Moves(e, [Send(e, Head(e.drv)) EXCEPT !.drv = Tail(@)], p)
<1>1. PICK k \in Nat : k = Reach(e, p)
  BY GoodParts
<1>2. PICK A : A = Sent(e, k)
  OBVIOUS
<1>3. e.drv \in Seq(A) /\ e.out \in Seq(A)
  BY <1>1, <1>2, GoodParts
<1>4. PICK m, r : m = Head(e.drv) /\ r = Tail(e.drv)
  OBVIOUS
<1>5. m \in A /\ r \in Seq(A)
  BY <1>3, <1>4, HeadAndTail
<1>6. PICK q : q = Append(e.out, m)
  OBVIOUS
<1>7. q \in Seq(A)
  BY <1>3, <1>5, <1>6, AppendKeeps
<1>8. PICK g : g = Send(e, m)
  OBVIOUS
<1>9. Same(e, g, {"out"}) /\ g.out = q /\ g.drv = e.drv
  BY <1>6, <1>8, GoodParts DEF Send, IsPcb, PcbFields, Same
<1>10. PICK f : f = [g EXCEPT !.drv = r]
  OBVIOUS
<1>11. [Send(e, Head(e.drv)) EXCEPT !.drv = Tail(@)] = f
  BY <1>4, <1>8, <1>9, <1>10, Zenon
<1>12. Same(e, f, {"drv", "out"}) /\ f.drv = r /\ f.out = q
  BY <1>9, <1>10 DEF Same, IsPcb, PcbFields
<1>13. Same(e, f, Aside) /\ (Listening(f) <=> Listening(e))
  BY <1>12 DEF Same, PcbFields, Listening, Aside
<1>14. f.ooseq = e.ooseq /\ f.holded = e.holded
  BY <1>12 DEF Same, PcbFields
<1>15. Windows(f)
  <2>1. Windows(e)
    BY GoodParts
  <2> QED BY <1>12, <2>1 DEF Same, PcbFields, Windows
<1>16. Sorted(f, p)
  BY <1>14, Zenon DEF Good, Sorted
<1>17. e.st \notin {"CLOSED", "LISTEN"}
  BY Zenon DEF Good, Sender
<1>18. f.drv \in Seq(Sent(e, Reach(e, p))) /\ f.out \in Seq(Sent(e, Reach(e, p)))
  BY <1>1, <1>2, <1>5, <1>7, <1>12, Zenon
<1>19. f.holded \in Nat
  BY <1>14, GoodParts, Zenon
<1>20. Moves(e, f, p)
  BY <1>13, <1>15, <1>16, <1>17, <1>18, <1>19, AsideMoves, Zenon
<1> QED BY <1>11, <1>20, Zenon

\* The pcb is freed.
IsGone(g, f) ==
  /\ IsPcb(g) /\ g.st = "GONE" /\ g.written = f.written /\ g.got = f.got /\ g.eof = f.eof
  /\ g.out = f.out /\ g.drv = f.drv /\ g.recv_data = <<>> /\ g.recv_flags = {}
  /\ g.unsent = <<>> /\ g.unacked = <<>> /\ g.ooseq = <<>> /\ g.flags = {}
  /\ g.snd_nxt = 0 /\ g.lastack = 0 /\ g.snd_lbb = 0 /\ g.rcv_nxt = 0
  /\ g.rcv_wnd = TcpWnd /\ g.rcv_ann_wnd = TcpWnd /\ g.rcv_ann_right_edge = 0
  /\ g.holded = 0 /\ g.dupacks = 0

LEMMA GoneIs ==
  ASSUME NEW f, NEW err
  PROVE  IsGone(Gone(f, err), f) /\ Gone(f, err).err = err
  BY ZenonT(30) DEF Gone, Alloc, IsPcb, PcbFields, IsGone

LEMMA GoneMoves ==
  ASSUME NEW e, NEW p, Good(e, p), NEW f, NEW err,
         f.written = e.written, f.got = e.got, f.eof = e.eof,
         f.drv \in Seq(Sent(e, Reach(e, p))), f.out \in Seq(Sent(e, Reach(e, p)))
  PROVE  Moves(e, Gone(f, err), p)
<1>1. PICK k \in Nat : k = Reach(e, p)
  BY GoodParts
<1>2. PICK g : g = Gone(f, err)
  OBVIOUS
<1>3. /\ IsPcb(g) /\ g.st = "GONE" /\ g.written = e.written /\ g.got = e.got /\ g.eof = e.eof
      /\ g.out = f.out /\ g.drv = f.drv /\ g.recv_data = <<>> /\ g.recv_flags = {}
      /\ g.unsent = <<>> /\ g.unacked = <<>> /\ g.ooseq = <<>> /\ g.flags = {}
  <2>1. IsGone(g, f)
    BY <1>2, GoneIs, Zenon
  <2> QED BY <2>1, Zenon DEF IsGone
<1>4. /\ g.snd_nxt = 0 /\ g.lastack = 0 /\ g.snd_lbb = 0 /\ g.rcv_nxt = 0
      /\ g.rcv_wnd = TcpWnd /\ g.rcv_ann_wnd = TcpWnd /\ g.rcv_ann_right_edge = 0
      /\ g.holded = 0 /\ g.dupacks = 0
  <2>1. IsGone(g, f)
    BY <1>2, GoneIs, Zenon
  <2> QED BY <2>1, Zenon DEF IsGone
<1>5. PICK w \in Nat : w = e.written
  BY GoodParts
<1>6. Numbers(g, g, k)
  <2>1. g.written = w
    BY <1>3, <1>5
  <2> QED BY <1>4, <2>1, TcpAssumption DEF Numbers
<1>7. Over(g)
  BY <1>3 DEF Over
<1>8. Grows(e, g)
  BY <1>3, <1>5, <1>7, GrowsItself, Zenon
<1>9. Queues(g, g, k)
  <2>1. k <= k
    OBVIOUS
  <2>2. Sent(e, k) \subseteq Sent(g, k)
    BY <1>8, <2>1, SentGrow, Zenon
  <2>3. f.drv \in Seq(Sent(e, k)) /\ f.out \in Seq(Sent(e, k))
    BY <1>1, Zenon
  <2>4. f.drv \in Seq(Sent(g, k)) /\ f.out \in Seq(Sent(g, k))
    BY <2>2, <2>3, SeqGrow, Zenon
  <2>5. <<>> \in Seq(Segs(g))
    OBVIOUS
  <2> QED BY <1>3, <2>4, <2>5, Zenon DEF Queues
<1>10. Taken(g) = Taken(e)
  BY <1>3, Zenon DEF Taken, Good
<1>11. Reach(g, p) = k
  <2>1. Reach(g, p) = Reach(e, p)
    BY <1>10, Zenon DEF Reach
  <2> QED BY <1>1, <2>1
<1>12. Stream(g, p)
  <2>1. g.recv_data = e.recv_data
    BY <1>3, Zenon DEF Good
  <2> QED BY <1>3, <1>10, <2>1, Zenon DEF Good, Stream
<1>13. Sorted(g, p)
  <2>1. <<>> \in Seq(Waiting(p)) /\ 1 .. Len(<<>>) - 1 = {}
    OBVIOUS
  <2> QED BY <1>3, <2>1, Zenon DEF Sorted, FinLast
<1>14. Sender(g)
  BY <1>3, <1>4 DEF Sender, States
<1>15. Listening(g) /\ g.st \notin Shuts /\ g.st # "CLOSE_WAIT" /\ g.st \notin Linked
       /\ g.st \notin {"CLOSED", "LISTEN", "SYN_SENT"} /\ ~Living(g)
  BY <1>3 DEF Listening, Shuts, Linked, Living
<1>16. Sound(g, g, k)
  BY <1>3, <1>6, <1>9, Zenon DEF Sound
<1>17. Good(g, p)
  BY <1>3, <1>11, <1>12, <1>13, <1>14, <1>15, <1>16, Zenon DEF Good
<1>18. PICK l \in Nat : l = Len(e.got)
  BY LenProperties DEF Good, Stream
<1>19. l <= l
  OBVIOUS
<1> QED BY <1>2, <1>3, <1>8, <1>17, <1>18, <1>19, Zenon DEF Moves, Steps

\* What makes a pcb good whose numbers and whose stream are.
Settled(f, p) ==
  /\ Sorted(f, p) /\ Sender(f) /\ (Listening(f) <=> f.st \notin Shuts)
  /\ f.st = "CLOSE_WAIT" => HasAll(f, p)
  /\ f.recv_data = <<>> /\ f.recv_flags = {}
  /\ f.st \in Linked => Placed(f, p)
  /\ f.st \in {"CLOSED", "LISTEN", "SYN_SENT"} => f.got = <<>>
  /\ Living(f) => AllCovered(f, p)

LEMMA TurnsGood ==
  ASSUME NEW e, NEW p, NEW f, Sound(f, e, Reach(f, p)), Stream(f, p), Settled(f, p),
         e.written \in Nat, f.written = e.written, Over(e) => Over(f), Len(e.got) <= Len(f.got)
  PROVE  Moves(e, f, p)
<1>1. PICK k \in Nat : k = Reach(f, p)
  BY ReachIs, Zenon
<1>2. Grows(e, f)
  BY GrowsItself, Zenon
<1>3. k <= k
  OBVIOUS
<1>4. Sound(f, f, k)
  <2>1. Sound(f, e, k)
    BY <1>1, Zenon
  <2>2. k \in Nat
    BY <1>1
  <2> QED BY <1>2, <1>3, <2>1, <2>2, SoundGrows, Zenon
<1>5. Good(f, p)
  BY <1>1, <1>4, Zenon DEF Good, Settled
<1> QED BY <1>2, <1>5, Zenon DEF Moves, Steps

\* A queue with one segment.
LEMMA ConnectMoves ==
  ASSUME NEW e, NEW p, Good(e, p), e.st = "CLOSED"
  PROVE  Moves(e, Output(EnqueueFlags([e EXCEPT !.st = "SYN_SENT", !.snd_nxt = 1,
                                                !.snd_wnd = TcpWnd], TRUE, FALSE)), p)
<1>1. PICK k \in Nat : k = Reach(e, p)
  BY GoodParts
<1>2. /\ e.unsent = <<>> /\ e.unacked = <<>> /\ e.drv = <<>> /\ e.snd_lbb = 0 /\ e.lastack = 0
      /\ e.written = 0 /\ e.cwnd = 1 /\ e.got = <<>> /\ e.recv_data = <<>> /\ e.recv_flags = {}
  BY Zenon DEF Good, Sender
<1>3. PICK f : f = [e EXCEPT !.st = "SYN_SENT", !.snd_nxt = 1, !.snd_wnd = TcpWnd]
  OBVIOUS
<1>4. f.st = "SYN_SENT" /\ f.snd_nxt = 1 /\ f.snd_wnd = TcpWnd /\ Same(e, f, {"st", "snd_nxt", "snd_wnd"})
  BY <1>3, GoodParts DEF IsPcb, PcbFields, Same
<1>5. /\ f.unsent = <<>> /\ f.unacked = <<>> /\ f.drv = <<>> /\ f.snd_lbb = 0 /\ f.lastack = 0
      /\ f.written = 0 /\ f.cwnd = 1 /\ f.got = e.got /\ f.recv_data = e.recv_data
      /\ f.recv_flags = e.recv_flags /\ f.eof = e.eof /\ f.ooseq = e.ooseq
  BY <1>2, <1>4 DEF Same, PcbFields
<1>6. (Listening(f) <=> Listening(e)) /\ f.rcv_nxt = e.rcv_nxt
  BY <1>4 DEF Same, PcbFields, Listening
<1>7. Sound(f, e, k)
  <2>1. Numbers(e, e, k) /\ Queues(e, e, k)
    BY <1>1, Zenon DEF Good, Sound
  <2>2. Numbers(f, e, k)
    <3>1. /\ f.dupacks = e.dupacks /\ f.holded = e.holded
          /\ f.rcv_ann_right_edge = e.rcv_ann_right_edge
          /\ f.rcv_wnd = e.rcv_wnd /\ f.rcv_ann_wnd = e.rcv_ann_wnd
      BY <1>4 DEF Same, PcbFields
    <3> QED BY <1>2, <1>4, <1>5, <1>6, <2>1, <3>1 DEF Numbers
  <2>3. Queues(f, e, k)
    BY <1>4, <2>1 DEF Same, PcbFields, Queues
  <2> QED BY <1>4, <2>2, <2>3 DEF Same, Sound
<1>8. PICK yes, no \in BOOLEAN : yes = TRUE /\ no = FALSE
  OBVIOUS
<1>9. PICK g : g = EnqueueFlags(f, yes, no)
  OBVIOUS
<1>10. Grows(e, e)
  BY <1>2 DEF Grows
<1>11. /\ Enqueues(f, g, e, k) /\ g.snd_lbb = f.snd_lbb + 1
       /\ Queued(g) = Queued(f) \cup {Seg(f.snd_lbb, <<>>, yes, no)}
  <2>1. yes # no /\ f.snd_lbb = 0 /\ ~no
    BY <1>5, <1>8
  <2>2. /\ Enqueues(f, EnqueueFlags(f, yes, no), e, k)
        /\ EnqueueFlags(f, yes, no).snd_lbb = f.snd_lbb + 1
        /\ Queued(EnqueueFlags(f, yes, no)) = Queued(f) \cup {Seg(f.snd_lbb, <<>>, yes, no)}
    BY <1>7, <1>10, <2>1, EnqueueFlagsKeeps
  <2> QED BY <1>9, <2>2, Zenon
<1>12. PICK s : s = Seg(f.snd_lbb, <<>>, yes, no)
  OBVIOUS
<1>13. s.syn /\ s.seq = 0 /\ s.data = <<>>
  BY <1>5, <1>8, <1>12 DEF Seg
<1>14. g.unsent = <<s>> /\ Same(f, g, {"unsent", "snd_lbb"})
  <2>1. PICK q : q = <<s>>
    OBVIOUS
  <2>2. Append(f.unsent, s) = q
    BY <1>5, <2>1
  <2>3. PICK n : n = f.snd_lbb + 1
    OBVIOUS
  <2>4. g = [f EXCEPT !.unsent = q, !.snd_lbb = n]
    BY <1>9, <1>12, <2>2, <2>3, Zenon DEF EnqueueFlags
  <2> QED BY <1>7, <2>1, <2>4 DEF Sound, IsPcb, PcbFields, Same
<1>15. /\ g.unacked = <<>> /\ g.drv = <<>> /\ g.lastack = 0 /\ g.cwnd = 1 /\ g.snd_wnd = TcpWnd
       /\ g.snd_nxt = 1
  BY <1>4, <1>5, <1>14 DEF Same, PcbFields
<1>16. Sound(g, e, k) /\ SameCore(f, g) /\ SameRcv(f, g)
  BY <1>11, Zenon DEF Enqueues
<1>17. PICK h : h = Output(g)
  OBVIOUS
<1>18. Calm(g, h, e, k)
  BY <1>16, <1>17, OutputKeeps, Zenon
<1>19. h.snd_wnd = TcpWnd /\ h.unacked # <<>>
  <2> DEFINE wnd == IF g.cwnd < g.snd_wnd THEN g.cwnd ELSE g.snd_wnd
  <2>1. /\ h.snd_wnd = g.snd_wnd
        /\ g.unsent # <<>> /\ Fits(g, Head(g.unsent), wnd) /\ ~Held(g, Head(g.unsent))
             => h.unacked # <<>>
    BY <1>16, <1>17, OutputSends, Zenon
  <2>2. g.unsent # <<>> /\ Head(g.unsent) = s
    BY <1>14
  <2>3. Fits(g, s, wnd)
    <3>1. Need(g, s) = 0
      BY <1>13, <1>15 DEF Need
    <3>2. wnd \in Nat
      BY <1>15, TcpAssumption
    <3> HIDE DEF wnd
    <3> QED BY <3>1, <3>2 DEF Fits, SeqBetween
  <2>4. ~Held(g, s)
    BY <1>15 DEF Held
  <2> QED BY <1>15, <2>1, <2>2, <2>3, <2>4, Zenon
<1>20. /\ Sound(h, e, k) /\ SameCore(g, h) /\ SameRcv(g, h) /\ h.snd_lbb = 1
       /\ Queued(h) = {s} /\ h.lastack = 0
  <2>1. Queued(g) = {s}
    <3>1. Queued(f) = {}
      BY <1>5 DEF Queued, Range
    <3> QED BY <1>11, <1>12, <3>1
  <2>2. g.snd_lbb = 1
    BY <1>5, <1>11
  <2> QED BY <1>15, <1>18, <2>1, <2>2, Zenon DEF Calm, Quiet
<1>21. h.snd_nxt >= 1
  BY <1>15, <1>18 DEF Calm
<1>22. /\ h.st = "SYN_SENT" /\ h.written = 0 /\ h.got = <<>> /\ h.eof = e.eof
       /\ h.recv_data = <<>> /\ h.recv_flags = {} /\ h.ooseq = e.ooseq
       /\ (Listening(h) <=> Listening(e))
  BY <1>2, <1>4, <1>5, <1>6, <1>16, <1>20, Zenon DEF SameCore, SameRcv
<1>23. Stream(h, p) /\ Sorted(h, p)
  <2>1. h.got = e.got /\ h.recv_data = e.recv_data
    BY <1>2, <1>22
  <2>2. Taken(h) = Taken(e)
    BY <2>1, Zenon DEF Taken
  <2> QED BY <1>22, <2>1, <2>2, Zenon DEF Good, Stream, Sorted
<1>24. Reach(h, p) = k
  <2>1. Taken(h) = Taken(e)
    BY <1>2, <1>22, Zenon DEF Taken
  <2>2. Reach(h, p) = Reach(e, p)
    BY <2>1, Zenon DEF Reach
  <2> QED BY <1>1, <2>2
<1>25. Sender(h)
  <2>1. ~Over(h)
    BY <1>22 DEF Over
  <2>2. SynWaits(h)
    BY <1>13, <1>19, <1>20 DEF SynWaits
  <2>3. h.st \in States
    BY <1>22 DEF States
  <2> QED BY <1>13, <1>20, <1>21, <1>22, <2>1, <2>2, <2>3 DEF Sender
<1>26. Settled(h, p)
  <2>1. h.st \notin Shuts /\ h.st \notin Linked /\ e.st \notin Shuts
    BY <1>22 DEF Shuts, Linked
  <2>2. Listening(h)
    BY <1>22, <2>1, Zenon DEF Good
  <2>3. AllCovered(h, p)
    BY <1>22 DEF AllCovered
  <2> QED BY <1>22, <1>23, <1>25, <2>1, <2>2, <2>3 DEF Settled
<1>27. Moves(e, h, p)
  <2>1. Sound(h, e, Reach(h, p))
    BY <1>20, <1>24, Zenon
  <2>2. ~Over(e)
    BY DEF Over
  <2>3. Len(e.got) <= Len(h.got)
    BY <1>2, <1>22
  <2>4. e.written \in Nat /\ h.written = e.written
    BY <1>2, <1>22
  <2> QED BY <1>23, <1>26, <2>1, <2>2, <2>3, <2>4, TurnsGood, Zenon
<1> QED BY <1>3, <1>8, <1>9, <1>17, <1>27, Zenon

\* tcp_write with its tcp_output.
LEMMA WriteMoves ==
  ASSUME NEW e, NEW p, Good(e, p), e.st \in {"ESTABLISHED", "CLOSE_WAIT"},
         EndsTheStream(e), NEW n \in Nat
  PROVE  Steps(e, Output(TcpWrite(e, n)), p)
<1>1. PICK k \in Nat : k = Reach(e, p)
  BY GoodParts
<1>2. PICK f : f = TcpWrite(e, n)
  OBVIOUS
<1>3. Sound(e, e, k)
  BY <1>1, Zenon DEF Good
<1>4. ~Over(e) /\ e.snd_lbb = e.written + 1
  BY DEF Over, Good, Sender
<1>5. Writes(e, f, n, k)
  BY <1>2, <1>3, <1>4, TcpWriteKeeps, Zenon
<1>6. /\ Sound(f, f, k) /\ SameRcv(e, f) /\ f.written = e.written + n
      /\ f.snd_lbb = e.snd_lbb + n /\ f.st = e.st /\ f.got = e.got /\ f.eof = e.eof
      /\ (Listening(f) <=> Listening(e))
      /\ \A b : Covers(e, b) => Covers(f, b)
      /\ \A b \in e.written + 1 .. f.written : Covers(f, b)
  BY <1>5, Zenon DEF Writes
<1>7. PICK w \in Nat : w = e.written
  BY GoodParts
<1>8. f.written \in Nat /\ f.snd_lbb = f.written + 1 /\ w <= f.written
  BY <1>4, <1>6, <1>7
<1>9. ~Over(f)
  BY <1>6 DEF Over
<1>10. Grows(e, f)
  BY <1>4, <1>7, <1>8 DEF Grows
<1>11. /\ f.recv_data = e.recv_data /\ f.recv_flags = e.recv_flags /\ f.ooseq = e.ooseq
       /\ f.rcv_nxt = e.rcv_nxt
  BY <1>6, Zenon DEF SameRcv
<1>12. Taken(f) = Taken(e)
  BY <1>6, <1>11, Zenon DEF Taken
<1>13. Reach(f, p) = k
  <2>1. Reach(f, p) = Reach(e, p)
    BY <1>12, Zenon DEF Reach
  <2> QED BY <1>1, <2>1
<1>14. Stream(f, p) /\ Sorted(f, p)
  BY <1>6, <1>11, <1>12, Zenon DEF Good, Stream, Sorted
<1>15. Placed(f, p)
  <2>1. Placed(e, p)
    BY DEF Good, Linked
  <2>2. (GotFin(f) <=> GotFin(e)) /\ (AllTaken(f, p) <=> AllTaken(e, p))
    BY <1>11, <1>12, Zenon DEF GotFin, AllTaken, HasAll
  <2> QED BY <1>11, <1>12, <2>1, <2>2, Zenon DEF Placed
<1>16. AllCovered(f, p)
  <2>1. SUFFICES ASSUME NEW i \in 1 .. f.written, i > Len(p.got) PROVE Covers(f, i)
    BY DEF AllCovered
  <2>2. CASE i <= w
    <3>1. AllCovered(e, p)
      BY DEF Good, Living
    <3>2. i \in 1 .. e.written
      BY <1>7, <1>8, <2>2
    <3> QED BY <1>6, <2>1, <3>1, <3>2, Zenon DEF AllCovered
  <2>3. CASE ~(i <= w)
    <3>1. i \in e.written + 1 .. f.written
      BY <1>7, <1>8, <2>3
    <3> QED BY <1>6, <3>1, Zenon
  <2> QED BY <2>2, <2>3
<1>17. Sender(f)
  BY <1>6, <1>8, <1>9 DEF Sender, States
<1>18. Good(f, p)
  <2>1. f.recv_data = <<>> /\ f.recv_flags = {} /\ (Listening(f) <=> f.st \notin Shuts)
    BY <1>6, <1>11, Zenon DEF Good
  <2>2. f.st \notin {"CLOSED", "LISTEN", "SYN_SENT"}
    BY <1>6
  <2>3. f.st = "CLOSE_WAIT" => HasAll(f, p)
    BY <1>6, <1>12, Zenon DEF Good, HasAll
  <2> QED BY <1>6, <1>13, <1>14, <1>15, <1>16, <1>17, <2>1, <2>2, <2>3, Zenon DEF Good
<1>19. Steps(e, f, p)
  <2>1. Len(e.got) <= Len(f.got)
    <3>1. PICK l \in Nat : l = Len(e.got)
      BY LenProperties DEF Good, Stream
    <3> QED BY <1>6, <3>1
  <2> QED BY <1>10, <1>18, <2>1, Zenon DEF Moves, Steps
<1>20. Moves(f, Output(f), p)
  <2>1. f.st \notin {"CLOSED", "LISTEN", "GONE"}
    BY <1>6
  <2> QED BY <1>18, <2>1, PollMoves, Zenon
<1> QED BY <1>2, <1>19, <1>20, StepsMoves, Zenon DEF Good

\* tcp_pcb_purge and what follows it.
LEMMA TimeWaitKeeps ==
  ASSUME NEW o, NEW l, NEW k, NEW e, IsPcb(e), Numbers(e, o, l), Queues(e, o, k)
  PROVE  LET t == TimeWait(e) IN
         /\ Same(e, t, {"st", "unsent", "unacked", "ooseq", "timing"})
         /\ t.st = "TIME_WAIT" /\ t.unsent = <<>> /\ t.unacked = <<>> /\ t.ooseq = <<>>
         /\ Numbers(t, o, l) /\ Queues(t, o, k)
<1>1. PICK t : t = TimeWait(e)
  OBVIOUS
<1>2. /\ Same(e, t, {"st", "unsent", "unacked", "ooseq", "timing"})
      /\ t.st = "TIME_WAIT" /\ t.unsent = <<>> /\ t.unacked = <<>> /\ t.ooseq = <<>>
  BY <1>1 DEF TimeWait, Purge, IsPcb, PcbFields, Same
<1>3. Numbers(t, o, l)
  BY <1>2, NumbersStay
<1>4. Queues(t, o, k)
  <2>1. t.drv = e.drv /\ t.out = e.out
    BY <1>2 DEF Same, PcbFields
  <2>2. <<>> \in Seq(Segs(o))
    OBVIOUS
  <2> QED BY <1>2, <2>1, <2>2, Zenon DEF Queues
<1> QED BY <1>1, <1>2, <1>3, <1>4, Zenon

-----------------------------------------------------------------------------
(* Closing.                                                                *)

\* f is e with more of the stream, and its application has not closed.
Ready(e, f, p) ==
  /\ e.written \in Nat /\ ~Over(e) /\ f.written = e.written /\ Len(e.got) <= Len(f.got)
  /\ Sound(f, e, Reach(f, p)) /\ Stream(f, p) /\ Sorted(f, p)
  /\ f.snd_lbb = e.written + 1 /\ f.recv_data = <<>> /\ f.recv_flags = {}

\* tcp_close when the application has left data in the window.
LEMMA ResetCloses ==
  ASSUME NEW e, NEW p, NEW f, Ready(e, f, p), ~Listening(f)
  PROVE  Moves(e, TimeWait(Send(f, Reset(f.snd_nxt, f.rcv_nxt))), p)
<1>1. PICK k \in Nat : k = Reach(f, p)
  BY ReachIs, Zenon DEF Ready
<1>2. Sound(f, e, k)
  BY <1>1, Zenon DEF Ready
<1>3. PICK r : r = Reset(f.snd_nxt, f.rcv_nxt)
  OBVIOUS
<1>4. r \in Sent(e, k)
  <2>1. f.snd_nxt \in Nat /\ f.rcv_nxt \in Nat
    BY <1>2 DEF Sound, Numbers
  <2> QED BY <1>3, <2>1, ResetIsSent, Zenon
<1>5. PICK g : g = Send(f, r)
  OBVIOUS
<1>6. Sound(g, e, k) /\ Quiet(f, g)
  <2>1. k \in Nat
    BY <1>1
  <2> QED BY <1>2, <1>4, <1>5, <2>1, SendKeeps, Zenon
<1>7. /\ g.written = f.written /\ g.got = f.got /\ g.eof = f.eof
      /\ g.recv_data = f.recv_data /\ g.recv_flags = f.recv_flags /\ g.snd_lbb = f.snd_lbb
      /\ (Listening(g) <=> Listening(f))
  BY <1>6, Zenon DEF Quiet, SameCore, SameRcv
<1>8. PICK h : h = TimeWait(g)
  OBVIOUS
<1>9. /\ Same(g, h, {"st", "unsent", "unacked", "ooseq", "timing"})
      /\ h.st = "TIME_WAIT" /\ h.unsent = <<>> /\ h.unacked = <<>> /\ h.ooseq = <<>>
      /\ Numbers(h, e, k) /\ Queues(h, e, k)
  <2>1. IsPcb(g) /\ Numbers(g, e, k) /\ Queues(g, e, k)
    BY <1>6, Zenon DEF Sound
  <2> QED BY <1>8, <2>1, TimeWaitKeeps, Zenon
<1>10. /\ h.written = e.written /\ h.got = f.got /\ h.eof = f.eof
       /\ h.recv_data = <<>> /\ h.recv_flags = {} /\ h.snd_lbb = e.written + 1
       /\ h.flags = g.flags
  <2>1. /\ h.written = g.written /\ h.got = g.got /\ h.eof = g.eof /\ h.flags = g.flags
        /\ h.recv_data = g.recv_data /\ h.recv_flags = g.recv_flags /\ h.snd_lbb = g.snd_lbb
    BY <1>9 DEF Same, PcbFields
  <2> QED BY <1>7, <2>1, Zenon DEF Ready
<1>11. Taken(h) = Taken(f)
  BY <1>10, Zenon DEF Taken, Ready
<1>12. Reach(h, p) = k
  <2>1. Reach(h, p) = Reach(f, p)
    BY <1>11, Zenon DEF Reach
  <2> QED BY <1>1, <2>1
<1>13. Stream(h, p)
  BY <1>10, <1>11, Zenon DEF Ready, Stream
<1>14. Sorted(h, p)
  <2>1. <<>> \in Seq(Waiting(p)) /\ 1 .. Len(<<>>) - 1 = {}
    OBVIOUS
  <2> QED BY <1>9, <2>1, Zenon DEF Sorted, FinLast
<1>15. PICK w \in Nat : w = e.written
  BY Zenon DEF Ready
<1>16. Sender(h)
  <2>1. h.snd_lbb = w + 1 /\ h.written = w /\ h.st = "TIME_WAIT"
    BY <1>9, <1>10, <1>15
  <2> QED BY <2>1 DEF Sender, States, Over
<1>17. Settled(h, p)
  <2>1. ~Listening(h)
    BY <1>7, <1>10, Zenon DEF Listening
  <2>2. h.st \in Shuts /\ h.st # "CLOSE_WAIT" /\ h.st \notin Linked /\ ~Living(h)
        /\ h.st \notin {"CLOSED", "LISTEN", "SYN_SENT"}
    BY <1>9 DEF Shuts, Linked, Living
  <2> QED BY <1>10, <1>14, <1>16, <2>1, <2>2, Zenon DEF Settled
<1>18. Sound(h, e, Reach(h, p))
  BY <1>9, <1>12, Zenon DEF Sound, Same
<1>19. e.written \in Nat /\ h.written = e.written /\ ~Over(e) /\ Len(e.got) <= Len(h.got)
  BY <1>10, Zenon DEF Ready
<1>20. Moves(e, h, p)
  BY <1>13, <1>17, <1>18, <1>19, TurnsGood, Zenon
<1> QED BY <1>3, <1>5, <1>8, <1>20, Zenon

\* tcp_close with its tcp_send_fin.
LEMMA FinCloses ==
  ASSUME NEW e, NEW p, NEW f, Ready(e, f, p), ~Listening(f), Placed(f, p), EndsTheStream(f),
         AllCovered(f, p), NEW st \in {"FIN_WAIT_1", "LAST_ACK"}
  PROVE  Moves(e, [SendFin(f) EXCEPT !.st = st], p)
<1>1. PICK k \in Nat : k = Reach(f, p)
  BY ReachIs, Zenon DEF Ready
<1>2. Sound(f, e, k)
  BY <1>1, Zenon DEF Ready
<1>3. PICK w \in Nat : w = e.written
  BY Zenon DEF Ready
<1>4. PICK r : r = [f EXCEPT !.st = st]
  OBVIOUS
<1>5. r.st = st /\ r.written = f.written
  BY <1>2, <1>4 DEF Sound, IsPcb, PcbFields
<1>6. r.written = w /\ Over(r) /\ r.written = e.written
  <2>1. f.written = e.written
    BY Zenon DEF Ready
  <2>2. Over(r)
    BY <1>5 DEF Over
  <2> QED BY <1>3, <1>5, <2>1, <2>2
<1>7. Grows(e, r)
  <2>1. ~Over(e)
    BY Zenon DEF Ready
  <2> QED BY <1>3, <1>6, <2>1 DEF Grows
<1>8. PICK g : g = SendFin(f)
  OBVIOUS
<1>9. Enqueues(f, g, r, k) /\ g.snd_lbb >= r.written + 1
  <2>1. f.snd_lbb = e.written + 1
    BY Zenon DEF Ready
  <2>2. k \in Nat
    BY <1>1
  <2> QED BY <1>2, <1>6, <1>7, <1>8, <2>1, <2>2, SendFinKeeps, Zenon
<1>10. /\ Sound(g, r, k) /\ g.written = f.written /\ g.got = f.got /\ g.eof = f.eof
       /\ g.recv_data = f.recv_data /\ g.recv_flags = f.recv_flags /\ g.ooseq = f.ooseq
       /\ g.rcv_nxt = f.rcv_nxt
       /\ (Listening(g) <=> Listening(f)) /\ \A i : Covers(f, i) => Covers(g, i)
  BY <1>9, Zenon DEF Enqueues, SameCore, SameRcv
<1>11. PICK h : h = [g EXCEPT !.st = st]
  OBVIOUS
<1>12. h.st = st /\ Same(g, h, {"st"})
  BY <1>10, <1>11 DEF Sound, IsPcb, PcbFields, Same
<1>13. /\ h.written = g.written /\ h.got = g.got /\ h.eof = g.eof /\ h.flags = g.flags
       /\ h.recv_data = g.recv_data /\ h.recv_flags = g.recv_flags /\ h.ooseq = g.ooseq
       /\ h.rcv_nxt = g.rcv_nxt /\ h.snd_lbb = g.snd_lbb
  BY <1>12 DEF Same, PcbFields
<1>14. h.unsent = g.unsent /\ h.unacked = g.unacked /\ h.drv = g.drv /\ h.out = g.out
  BY <1>12 DEF Same, PcbFields
<1>15. Sound(h, r, k)
  <2>1. Numbers(h, r, k)
    <3>1. Numbers(g, r, k)
      BY <1>10, Zenon DEF Sound
    <3> QED BY <1>12, <3>1, NumbersStay
  <2>2. Queues(h, r, k)
    BY <1>10, <1>14, Zenon DEF Sound, Queues
  <2>3. IsPcb(h)
    BY <1>12, Zenon DEF Same
  <2> QED BY <2>1, <2>2, <2>3, Zenon DEF Sound
<1>16. h.written = w /\ Over(h)
  <2>1. h.written = f.written
    BY <1>10, <1>13
  <2>2. Over(h)
    BY <1>12 DEF Over
  <2> QED BY <1>5, <1>6, <2>1, <2>2
<1>17. Sound(h, h, k)
  <2>1. Grows(r, h)
    BY <1>3, <1>6, <1>16 DEF Grows
  <2>2. k <= k /\ k \in Nat
    BY <1>1
  <2> QED BY <1>15, <2>1, <2>2, SoundGrows, Zenon
<1>18. h.recv_data = <<>> /\ h.recv_flags = {} /\ h.got = f.got /\ h.eof = f.eof
       /\ h.ooseq = f.ooseq /\ h.rcv_nxt = f.rcv_nxt /\ f.recv_data = <<>> /\ f.recv_flags = {}
  BY <1>10, <1>13, Zenon DEF Ready
<1>19. Taken(h) = Taken(f)
  BY <1>18, Zenon DEF Taken
<1>20. Reach(h, p) = k
  <2>1. Reach(h, p) = Reach(f, p)
    BY <1>19, Zenon DEF Reach
  <2> QED BY <1>1, <2>1
<1>21. Stream(h, p) /\ Sorted(h, p)
  BY <1>18, <1>19, Zenon DEF Ready, Stream, Sorted
<1>22. Placed(h, p)
  <2>1. (GotFin(h) <=> GotFin(f)) /\ (AllTaken(h, p) <=> AllTaken(f, p))
    BY <1>18, <1>19, Zenon DEF GotFin, AllTaken, HasAll
  <2> QED BY <1>18, <1>19, <2>1, Zenon DEF Placed
<1>23. AllCovered(h, p)
  <2>1. Queued(h) = Queued(g)
    BY <1>14, Zenon DEF Queued
  <2>2. \A i : Covers(f, i) => Covers(h, i)
    BY <1>10, <2>1, Zenon DEF Covers
  <2>3. h.written = f.written
    BY <1>10, <1>13
  <2> QED BY <2>2, <2>3, Zenon DEF AllCovered
<1>24. Sender(h)
  <2>1. h.snd_lbb >= h.written + 1
    BY <1>6, <1>9, <1>13, <1>16
  <2>2. h.st \in {"FIN_WAIT_1", "LAST_ACK"}
    BY <1>12
  <2> QED BY <2>1, <2>2 DEF Sender, States
<1>25. ~Listening(h) /\ h.st \in Shuts /\ h.st # "CLOSE_WAIT"
       /\ h.st \notin {"CLOSED", "LISTEN", "SYN_SENT"}
  <2>1. ~Listening(h)
    BY <1>10, <1>13, Zenon DEF Listening
  <2> QED BY <1>12, <2>1 DEF Shuts
<1>26. Good(h, p)
  BY <1>17, <1>18, <1>20, <1>21, <1>22, <1>23, <1>24, <1>25, Zenon DEF Good
<1>27. Grows(e, h)
  BY <1>3, <1>16 DEF Grows, Ready
<1>28. Len(e.got) <= Len(h.got)
  BY <1>18, Zenon DEF Ready
<1> QED BY <1>3, <1>8, <1>11, <1>16, <1>26, <1>27, <1>28, Zenon DEF Moves, Steps

\* A tcp_close that cannot queue its FIN.
LEMMA CloseFailMoves ==
  ASSUME NEW e, NEW p, Good(e, p)
  PROVE  Moves(e, CloseFailed(e), p) /\ CloseFailed(e).st = e.st
<1>1. PICK f : f = CloseFailed(e)
  OBVIOUS
<1>2. IsPcb(e)
  BY GoodParts
<1>3. Same(e, f, {"flags"}) /\ f.st = e.st /\ (Listening(f) <=> Listening(e))
  BY <1>1, <1>2 DEF CloseFailed, IsPcb, PcbFields, Same, Listening
<1>4. Moves(e, f, p)
  BY <1>3, FlagsStep, Zenon
<1> QED BY <1>1, <1>3, <1>4, Zenon

\* One that can, with the callbacks espconn takes back, at the end of the peer's
\* stream or when the application disconnects.
LEMMA CloseDoneMoves ==
  ASSUME NEW e, NEW p, NEW f, Ready(e, f, p),
         f.st \in {"ESTABLISHED", "CLOSE_WAIT"} \/ (f.st = "SYN_SENT" /\ f.rcv_wnd # TcpWnd),
         f.st # "SYN_SENT" => Placed(f, p) /\ EndsTheStream(f) /\ AllCovered(f, p)
  PROVE  Moves(e, CloseDone(f), p) /\ CloseDone(f).st \notin {"CLOSED", "LISTEN", "GONE"}
<1>1. PICK k \in Nat : k = Reach(f, p)
  BY ReachIs, Zenon DEF Ready
<1>2. Sound(f, e, k)
  BY <1>1, Zenon DEF Ready
<1>3. PICK g : g = [f EXCEPT !.flags = @ \cup {"RXCLOSED", "UNREGISTERED"}]
  OBVIOUS
<1>4. Same(f, g, {"flags"}) /\ ~Listening(g)
  BY <1>2, <1>3 DEF Sound, IsPcb, PcbFields, Same, Listening
<1>5. /\ g.st = f.st /\ g.written = f.written /\ g.got = f.got /\ g.eof = f.eof
      /\ g.recv_data = f.recv_data /\ g.recv_flags = f.recv_flags /\ g.ooseq = f.ooseq
      /\ g.rcv_nxt = f.rcv_nxt /\ g.snd_lbb = f.snd_lbb /\ g.rcv_wnd = f.rcv_wnd
  BY <1>4 DEF Same, PcbFields
<1>6. g.unsent = f.unsent /\ g.unacked = f.unacked /\ g.drv = f.drv /\ g.out = f.out
  BY <1>4 DEF Same, PcbFields
<1>7. Sound(g, e, k)
  <2>1. Numbers(g, e, k)
    <3>1. Numbers(f, e, k)
      BY <1>2, Zenon DEF Sound
    <3> QED BY <1>4, <3>1, NumbersStay
  <2>2. Queues(g, e, k)
    BY <1>2, <1>6, Zenon DEF Sound, Queues
  <2> QED BY <1>4, <2>1, <2>2, Zenon DEF Sound, Same
<1>8. Taken(g) = Taken(f)
  BY <1>5, Zenon DEF Taken
<1>9. Reach(g, p) = k
  <2>1. Reach(g, p) = Reach(f, p)
    BY <1>8, Zenon DEF Reach
  <2> QED BY <1>1, <2>1
<1>10. Ready(e, g, p)
  <2>1. Stream(g, p) /\ Sorted(g, p)
    BY <1>5, <1>8, Zenon DEF Ready, Stream, Sorted
  <2>2. Sound(g, e, Reach(g, p))
    BY <1>7, <1>9, Zenon
  <2> QED BY <1>5, <2>1, <2>2, Zenon DEF Ready
<1>11. PICK h : h = CloseDone(f)
  OBVIOUS
<1>12. CASE g.rcv_wnd # TcpWnd
  <2>1. h = TimeWait(Send(g, Reset(g.snd_nxt, g.rcv_nxt)))
    BY <1>3, <1>11, <1>12 DEF CloseDone
  <2>2. Moves(e, h, p)
    BY <1>4, <1>10, <2>1, ResetCloses, Zenon
  <2>3. h.st \notin {"CLOSED", "LISTEN", "GONE"}
    <3>1. IsPcb(h)
      BY <2>2, Zenon DEF Moves, Steps, Good, Sound
    <3>2. PICK q : q = Purge(Send(g, Reset(g.snd_nxt, g.rcv_nxt)))
      OBVIOUS
    <3>3. h = [q EXCEPT !.st = "TIME_WAIT"]
      BY <2>1, <3>2, Zenon DEF TimeWait
    <3> QED BY <3>1, <3>3 DEF IsPcb, PcbFields
  <2> QED BY <1>11, <2>2, <2>3, Zenon
<1>13. CASE ~(g.rcv_wnd # TcpWnd)
  <2>1. PICK st \in {"FIN_WAIT_1", "LAST_ACK"} : h = [SendFin(g) EXCEPT !.st = st]
    <3>1. CASE g.st = "ESTABLISHED"
      <4>1. h = [SendFin(g) EXCEPT !.st = "FIN_WAIT_1"]
        BY <1>3, <1>11, <1>13, <3>1 DEF CloseDone
      <4> QED BY <4>1
    <3>2. CASE g.st = "CLOSE_WAIT"
      <4>1. h = [SendFin(g) EXCEPT !.st = "LAST_ACK"]
        BY <1>3, <1>11, <1>13, <3>2 DEF CloseDone
      <4> QED BY <4>1
    <3> QED BY <1>5, <1>13, <3>1, <3>2
  <2>2. Placed(f, p) /\ EndsTheStream(f) /\ AllCovered(f, p)
    BY <1>5, <1>13
  <2>3. Placed(g, p)
    <3>1. (GotFin(g) <=> GotFin(f)) /\ (AllTaken(g, p) <=> AllTaken(f, p))
      BY <1>5, <1>8, Zenon DEF GotFin, AllTaken, HasAll
    <3> QED BY <1>5, <1>8, <2>2, <3>1, Zenon DEF Placed
  <2>4. EndsTheStream(g)
    BY <1>5, <1>6, <2>2, Zenon DEF EndsTheStream
  <2>5. AllCovered(g, p)
    <3>1. Queued(g) = Queued(f)
      BY <1>6, Zenon DEF Queued
    <3>2. \A i : Covers(f, i) => Covers(g, i)
      BY <3>1, Zenon DEF Covers
    <3> QED BY <1>5, <2>2, <3>2, Zenon DEF AllCovered
  <2>6. Moves(e, h, p)
    BY <1>4, <1>10, <2>1, <2>3, <2>4, <2>5, FinCloses, Zenon
  <2>7. h.st \notin {"CLOSED", "LISTEN", "GONE"}
    <3>1. IsPcb(h)
      BY <2>6, Zenon DEF Moves, Steps, Good, Sound
    <3>2. PICK q : q = SendFin(g)
      OBVIOUS
    <3>3. h = [q EXCEPT !.st = st]
      BY <2>1, <3>2, Zenon
    <3> QED BY <3>1, <3>3 DEF IsPcb, PcbFields
  <2> QED BY <1>11, <2>6, <2>7, Zenon
<1> QED BY <1>12, <1>13

\* The close that answers the end of the peer's stream.
LEMMA CloseAtEofMoves ==
  ASSUME NEW e, NEW p, Good(e, p), e.st = "CLOSE_WAIT", EndsTheStream(e)
  PROVE  /\ Moves(e, CloseAtEof(e), p)
         /\ CloseAtEof(e).st \notin {"CLOSED", "LISTEN", "GONE"}
<1>1. CASE CloseFails(e)
  <2>1. CloseAtEof(e) = CloseFailed(e)
    BY <1>1 DEF CloseAtEof
  <2>2. Moves(e, CloseFailed(e), p) /\ CloseFailed(e).st = "CLOSE_WAIT"
    BY CloseFailMoves
  <2> QED BY <2>1, <2>2
<1>2. CASE ~CloseFails(e)
  <2>1. PICK f : f = [e EXCEPT !.eof = TRUE]
    OBVIOUS
  <2>2. CloseAtEof(e) = CloseDone(f)
    BY <1>2, <2>1 DEF CloseAtEof
  <2>3. IsPcb(e) /\ e.written \in Nat
    BY GoodParts
  <2>4. Same(e, f, {"eof"})
    BY <2>1, <2>3 DEF IsPcb, PcbFields, Same
  <2>5. /\ f.st = e.st /\ f.written = e.written /\ f.got = e.got
        /\ f.recv_data = e.recv_data /\ f.recv_flags = e.recv_flags /\ f.ooseq = e.ooseq
        /\ f.rcv_nxt = e.rcv_nxt /\ f.snd_lbb = e.snd_lbb
    BY <2>4 DEF Same, PcbFields
  <2>6. f.unsent = e.unsent /\ f.unacked = e.unacked /\ f.drv = e.drv /\ f.out = e.out
    BY <2>4 DEF Same, PcbFields
  <2>7. Taken(f) = Taken(e) /\ Taken(e) = Len(e.got)
    <3>1. e.recv_data = <<>>
      BY Zenon DEF Good
    <3>2. PICK l \in Nat : l = Len(e.got)
      BY LenProperties DEF Good, Stream
    <3> QED BY <2>5, <3>1, <3>2 DEF Taken
  <2>8. Reach(f, p) = Reach(e, p)
    BY <2>7, Zenon DEF Reach
  <2>9. Sound(f, e, Reach(f, p))
    <3>1. Numbers(e, e, Reach(e, p)) /\ Queues(e, e, Reach(e, p))
      BY Zenon DEF Good, Sound
    <3>2. Numbers(f, e, Reach(e, p))
      BY <2>4, <3>1, NumbersStay
    <3>3. Queues(f, e, Reach(e, p))
      BY <2>6, <3>1, Zenon DEF Queues
    <3> QED BY <2>4, <2>8, <3>2, <3>3, Zenon DEF Sound, Same
  <2>10. Stream(f, p) /\ Sorted(f, p)
    <3>1. Over(p) /\ Len(f.got) = p.written
      BY <2>5, <2>7, Zenon DEF Good, HasAll
    <3> QED BY <2>5, <2>7, <3>1, Zenon DEF Good, Stream, Sorted
  <2>11. ~Over(e) /\ e.snd_lbb = e.written + 1
    BY DEF Over, Good, Sender
  <2>12. Ready(e, f, p)
    <3>1. f.recv_data = <<>> /\ f.recv_flags = {}
      BY <2>5, Zenon DEF Good
    <3>2. Len(e.got) <= Len(f.got)
      BY <2>5, LenProperties DEF Good, Stream
    <3> QED BY <2>3, <2>5, <2>9, <2>10, <2>11, <3>1, <3>2, Zenon DEF Ready
  <2>13. Placed(f, p)
    <3>1. Placed(e, p)
      BY DEF Good, Linked
    <3>2. (GotFin(f) <=> GotFin(e)) /\ (AllTaken(f, p) <=> AllTaken(e, p))
      BY <2>5, <2>7, Zenon DEF GotFin, AllTaken, HasAll
    <3> QED BY <2>5, <2>7, <3>1, <3>2, Zenon DEF Placed
  <2>14. EndsTheStream(f)
    BY <2>5, <2>6, Zenon DEF EndsTheStream
  <2>15. AllCovered(f, p)
    <3>1. AllCovered(e, p)
      BY DEF Good, Living
    <3>2. \A i : Covers(e, i) => Covers(f, i)
      BY <2>6, Zenon DEF Covers, Queued
    <3> QED BY <2>5, <3>1, <3>2, Zenon DEF AllCovered
  <2>16. f.st \in {"ESTABLISHED", "CLOSE_WAIT"}
    BY <2>5
  <2> QED BY <2>2, <2>12, <2>13, <2>14, <2>15, <2>16, CloseDoneMoves, Zenon
<1> QED BY <1>1, <1>2

\* espconn_disconnect.
LEMMA DisconnectMoves ==
  ASSUME NEW e, NEW p, Good(e, p), e.st \in {"SYN_SENT", "ESTABLISHED", "CLOSE_WAIT"},
         e.st \in {"ESTABLISHED", "CLOSE_WAIT"} => EndsTheStream(e)
  PROVE  LET f == TcpClose(e)
         IN  Moves(e, IF f.st \in {"FIN_WAIT_1", "LAST_ACK"} THEN Output(f) ELSE f, p)
<1>1. PICK f : f = TcpClose(e)
  OBVIOUS
<1>2. Moves(e, f, p)
  <2>1. CASE CloseFails(e)
    BY <1>1, <2>1, CloseFailMoves DEF TcpClose
  <2>2. CASE ~CloseFails(e) /\ e.st = "SYN_SENT" /\ e.rcv_wnd = TcpWnd
    <3>1. PICK g : g = [e EXCEPT !.flags = @ \cup {"RXCLOSED", "UNREGISTERED"}]
      OBVIOUS
    <3>2. IsPcb(e)
      BY GoodParts
    <3>3. Same(e, g, {"flags"})
      BY <3>1, <3>2 DEF IsPcb, PcbFields, Same
    <3>4. /\ g.written = e.written /\ g.got = e.got /\ g.eof = e.eof
          /\ g.drv = e.drv /\ g.out = e.out /\ g.st = e.st /\ g.rcv_wnd = e.rcv_wnd
      BY <3>3 DEF Same, PcbFields
    <3>5. f = Gone(g, g.err)
      BY <1>1, <2>2, <3>1, <3>4 DEF TcpClose, CloseDone
    <3>6. e.drv \in Seq(Sent(e, Reach(e, p))) /\ e.out \in Seq(Sent(e, Reach(e, p)))
      BY GoodParts, Zenon
    <3> QED BY <3>4, <3>5, <3>6, GoneMoves, Zenon
  <2>3. CASE ~CloseFails(e) /\ ~(e.st = "SYN_SENT" /\ e.rcv_wnd = TcpWnd)
    <3>1. ~Over(e)
      BY DEF Over
    <3>2. e.snd_lbb = e.written + 1
      <4>1. e.st = "SYN_SENT" => e.snd_lbb = 1 /\ e.written = 0
        BY Zenon DEF Good, Sender
      <4>2. e.st \in {"ESTABLISHED", "CLOSE_WAIT"} => e.snd_lbb = e.written + 1
        BY Zenon DEF Good, Sender
      <4> QED BY <4>1, <4>2
    <3>3. Len(e.got) <= Len(e.got)
      <4>1. PICK l \in Nat : l = Len(e.got)
        BY LenProperties DEF Good, Stream
      <4> QED BY <4>1
    <3>4. e.written \in Nat
      BY GoodParts
    <3>5. Ready(e, e, p)
      BY <3>1, <3>2, <3>3, <3>4, Zenon DEF Ready, Good
    <3>6. e.st # "SYN_SENT" => Placed(e, p) /\ EndsTheStream(e) /\ AllCovered(e, p)
      BY DEF Good, Linked, Living
    <3>7. Moves(e, CloseDone(e), p)
      BY <2>3, <3>5, <3>6, CloseDoneMoves
    <3> QED BY <1>1, <2>3, <3>7 DEF TcpClose
  <2> QED BY <2>1, <2>2, <2>3
<1>3. CASE f.st \in {"FIN_WAIT_1", "LAST_ACK"}
  <2>1. Moves(f, Output(f), p)
    <3>1. Good(f, p)
      BY <1>2, Zenon DEF Moves, Steps
    <3> QED BY <1>3, <3>1, PollMoves
  <2>2. Moves(e, Output(f), p)
    BY <1>2, <2>1, MovesTwice, Zenon DEF Good
  <2> QED BY <1>1, <1>3, <2>2, Zenon
<1>4. CASE f.st \notin {"FIN_WAIT_1", "LAST_ACK"}
  BY <1>1, <1>2, <1>4, Zenon
<1> QED BY <1>3, <1>4

\* What the poll callback leaves of a connection.
LEMMA PolledMoves ==
  ASSUME NEW e, NEW p, Good(e, p), e.st \notin {"CLOSED", "LISTEN", "GONE"},
         e.st = "CLOSE_WAIT" => EndsTheStream(e)
  PROVE  Moves(e, Polled(e), p) /\ Polled(e).st \notin {"CLOSED", "LISTEN", "GONE"}
<1>1. CASE e.listens /\ e.st = "CLOSE_WAIT"
  <2>1. Polled(e) = CloseAtEof(e)
    BY <1>1 DEF Polled
  <2> QED BY <1>1, <2>1, CloseAtEofMoves
<1>2. CASE ~(e.listens /\ e.st = "CLOSE_WAIT")
  <2>1. Polled(e) = e
    BY <1>2 DEF Polled
  <2>2. Same(e, e, {"flags"})
    BY GoodParts DEF Same
  <2> QED BY <2>1, <2>2, FlagsStep
<1> QED BY <1>1, <1>2

-----------------------------------------------------------------------------
(* tcp_process: what a segment makes of a connection.                      *)

\* f is e after a segment, as far as the callbacks need it.
Handles(e, f, p) ==
  /\ Sound(f, e, Reach(f, p)) /\ Stream(f, p) /\ Sorted(f, p) /\ Sender(f)
  /\ e.written \in Nat /\ f.written = e.written /\ (Over(f) <=> Over(e))
  /\ Len(e.got) <= Len(f.got)
  /\ f.st \in Linked => Placed(f, p)
  /\ f.st = "SYN_SENT" => f.got = <<>> /\ f.recv_data = <<>>
  /\ Listening(f) <=> f.st \notin Shuts
  /\ Living(f) => AllCovered(f, p)
  /\ f.st \notin {"CLOSED", "LISTEN", "GONE"}
  /\ f.recv_flags \in {{}, {"GOT_FIN"}}
  /\ GotFin(f) /\ Listening(f) => f.st = "CLOSE_WAIT" /\ EndsTheStream(f)
  /\ f.st = "CLOSE_WAIT" => HasAll(f, p)
  /\ f.st = "SYN_RCVD" => e.st = "SYN_RCVD"

\* f has seen nothing of the callbacks yet, and sent only what e could.
Before(e, f, p) ==
  /\ f.written = e.written /\ f.got = e.got /\ f.eof = e.eof
  /\ IsPcb(f) /\ Queues(f, e, Reach(e, p)) /\ f.snd_nxt \in Nat /\ f.rcv_nxt \in Nat
Processed(e, f, p) == Before(e, f, p) /\ Handles(e, f, p)

\* The connection ends, by a reset or because it had been closed.
Ends(e, f, p) ==
  /\ Before(e, f, p)
  /\ \/ f.recv_flags = {"RESET"} /\ f.st = e.st /\ (Listening(f) <=> Listening(e))
     \/ "CLOSED" \in f.recv_flags /\ ~Listening(e)

LEMMA NoLonger ==
  ASSUME NEW e, NEW f, NEW p, Stream(e, p), f.got = e.got
  PROVE  Len(e.got) <= Len(f.got)
<1>1. PICK l \in Nat : l = Len(e.got)
  BY LenProperties DEF Stream
<1> QED BY <1>1

\* The segment only makes e send something.
LEMMA CalmProcessed ==
  ASSUME NEW e, NEW p, Good(e, p), Living(e), NEW f, Calm(e, f, e, Reach(e, p)),
         e.st = "SYN_SENT" => f.unacked # <<>> /\ f.snd_wnd = e.snd_wnd
  PROVE  Processed(e, f, p)
<1>1. PICK k \in Nat : k = Reach(e, p)
  BY GoodParts
<1>2. e.st \notin {"CLOSED", "LISTEN", "GONE", "TIME_WAIT"}
  BY DEF Living
<1>3. Good(f, p)
  <2>1. e.st \notin {"CLOSED", "LISTEN", "GONE"}
    BY <1>2
  <2> QED BY <2>1, CalmMoves, Zenon DEF Moves, Steps
<1>4. Sound(f, e, k) /\ SameCore(e, f)
  BY <1>1, Zenon DEF Calm, Quiet
<1>5. /\ f.st = e.st /\ f.written = e.written /\ f.got = e.got /\ f.eof = e.eof
      /\ f.recv_data = e.recv_data /\ f.recv_flags = {} /\ f.recv_data = <<>>
  BY <1>3, <1>4, Zenon DEF SameCore, Good
<1>6. Taken(f) = Taken(e)
  BY <1>5, Zenon DEF Taken
<1>7. Reach(f, p) = k
  <2>1. Reach(f, p) = Reach(e, p)
    BY <1>6, Zenon DEF Reach
  <2> QED BY <1>1, <2>1
<1>8. Before(e, f, p)
  <2>1. Queues(f, e, Reach(e, p)) /\ IsPcb(f)
    BY <1>1, <1>4, Zenon DEF Sound
  <2>2. f.snd_nxt \in Nat /\ f.rcv_nxt \in Nat
    BY <1>4 DEF Sound, Numbers
  <2> QED BY <1>5, <2>1, <2>2, Zenon DEF Before
<1>9. Handles(e, f, p)
  <2>1. Sound(f, e, Reach(f, p)) /\ Stream(f, p) /\ Sorted(f, p) /\ Sender(f)
    BY <1>3, <1>4, <1>7, Zenon DEF Good
  <2>2. e.written \in Nat
    BY GoodParts
  <2>3. Over(f) <=> Over(e)
    BY <1>5 DEF Over
  <2>4. Len(e.got) <= Len(f.got)
    BY <1>5, NoLonger, Zenon DEF Good
  <2>5. ~GotFin(f) /\ f.recv_flags \in {{}, {"GOT_FIN"}}
    BY <1>5 DEF GotFin
  <2>6. f.st \notin {"CLOSED", "LISTEN", "GONE"} /\ (f.st = "CLOSE_WAIT" => HasAll(f, p))
    BY <1>2, <1>3, <1>5 DEF Good
  <2> QED BY <1>3, <1>5, <2>1, <2>2, <2>3, <2>4, <2>5, <2>6, Zenon DEF Handles, Good
<1> QED BY <1>8, <1>9, Zenon DEF Processed

LEMMA CalmItself ==
  ASSUME NEW o, NEW k, NEW e, Sound(e, o, k)
  PROVE  Calm(e, e, o, k)
<1>1. e.snd_nxt \in Nat
  BY DEF Sound, Numbers
<1>2. e.snd_nxt >= e.snd_nxt
  BY <1>1
<1> QED BY <1>2 DEF Calm, Quiet, SameCore, SameRcv

\* A reset or an acknowledgement is sent.
LEMMA SendIsCalm ==
  ASSUME NEW o, NEW k \in Nat, NEW e, Sound(e, o, k), NEW r \in Sent(o, k)
  PROVE  Calm(e, Send(e, r), o, k) /\ Same(e, Send(e, r), {"out"})
<1>1. Sound(Send(e, r), o, k) /\ Quiet(e, Send(e, r))
  BY SendKeeps
<1>2. PICK f : f = Send(e, r)
  OBVIOUS
<1>3. Same(e, f, {"out"})
  BY <1>2 DEF Send, Sound, IsPcb, PcbFields, Same
<1>4. f.snd_nxt = e.snd_nxt /\ f.lastack = e.lastack
  BY <1>3 DEF Same, PcbFields
<1>5. e.snd_nxt \in Nat
  BY DEF Sound, Numbers
<1>6. f.snd_nxt >= e.snd_nxt
  BY <1>4, <1>5
<1>7. Calm(e, f, o, k)
  BY <1>1, <1>2, <1>4, <1>6, Zenon DEF Calm
<1> QED BY <1>2, <1>3, <1>7

\* SYN and FIN of a segment on the way count for its answer.
LEMMA AnswerIsSent ==
  ASSUME NEW o, NEW k, NEW m \in Datagram
  PROVE  Reset(m.ackno, End(m)) \in Sent(o, k) /\ Reset(m.ackno + 1, End(m)) \in Sent(o, k)
<1>1. m.ackno \in Nat /\ m.seq \in Nat /\ Len(m.data) \in Nat
  <2>1. m.ackno \in Nat /\ m.seq \in Nat /\ m.data \in Seq(Nat)
    BY DEF Datagram
  <2> QED BY <2>1, LenProperties
<1>2. TcpLen(m) \in Nat
  <2>1. TcpLen(m) = Len(m.data) \/ TcpLen(m) = Len(m.data) + 1
    BY <1>1, TcpLenIs, Zenon
  <2> QED BY <1>1, <2>1
<1>3. End(m) \in Nat /\ m.ackno + 1 \in Nat
  BY <1>1, <1>2 DEF End
<1> QED BY <1>1, <1>3, ResetIsSent, Zenon

\* A byte that was acknowledged is with the other application.
LEMMA StillCovered ==
  ASSUME NEW e, NEW p, Stream(p, e), p.recv_data = <<>>, AllCovered(e, p),
         e.unsent \in Seq(Segs(e)), e.unacked \in Seq(Segs(e)),
         NEW f, f.written = e.written, \A s \in Queued(e) \ Queued(f) : End(s) <= Reach(p, e)
  PROVE  AllCovered(f, p)
<1>1. PICK g \in Nat : g = Len(p.got)
  BY LenProperties DEF Stream
<1>2. PICK w \in Nat : w = e.written
  BY Zenon DEF Stream
<1>3. Taken(p) = g
  BY <1>1 DEF Taken
<1>4. SUFFICES ASSUME NEW i \in 1 .. f.written, i > Len(p.got), ~Covers(f, i) PROVE FALSE
  BY Zenon DEF AllCovered
<1>5. i \in Nat /\ i <= w /\ i > g
  BY <1>1, <1>2, <1>4
<1>6. Covers(e, i)
  BY <1>4, Zenon DEF AllCovered
<1>7. PICK s \in Queued(e) : Contains(s.data, i)
  BY <1>6, Zenon DEF Covers
<1>8. s \notin Queued(f)
  BY <1>4, <1>7, Zenon DEF Covers
<1>9. s \in Segs(e)
  BY <1>7 DEF Queued, Range
<1>10. PICK j \in 1 .. Len(s.data) : s.data[j] = i
  BY <1>7 DEF Contains
<1>11. s.data \in Seq(Nat) /\ s.seq \in Nat
  BY <1>9 DEF Segs, Segment
<1>12. PICK l \in Nat : l = Len(s.data)
  BY <1>11, LenProperties
<1>13. InStream(s, e)
  <2>1. s.data # <<>>
    BY <1>10, <1>11
  <2> QED BY <1>9, <2>1, Zenon DEF Segs, Genuine
<1>14. i = s.seq + j - 1
  BY <1>10, <1>11, <1>13 DEF InStream
<1>15. End(s) = s.seq + l \/ End(s) = s.seq + l + 1
  <2>1. TcpLen(s) = l \/ TcpLen(s) = l + 1
    BY <1>12, TcpLenIs, Zenon
  <2> QED BY <1>11, <2>1 DEF End
<1>16. End(s) <= Reach(p, e)
  BY <1>7, <1>8, Zenon
<1>17. Reach(p, e) = g + 1 \/ g = w
  BY <1>2, <1>3 DEF Reach
<1>18. j \in Nat /\ j <= l
  BY <1>10, <1>12
<1> QED BY <1>5, <1>11, <1>14, <1>15, <1>16, <1>17, <1>18, SMTT(30)

\* From e to f: a step of tcp_receive, whatever state it leads to.
Kept(e, f, p) ==
  /\ Sound(f, e, Reach(f, p)) /\ Before(e, f, p) /\ Taker(f, p) /\ AllCovered(f, p)
  /\ e.written \in Nat /\ f.snd_lbb = e.snd_lbb /\ Len(e.got) <= Len(f.got)
  /\ Listening(f) <=> Listening(e)
  /\ f.recv_flags \in {{}, {"GOT_FIN"}}
  /\ Queued(f) \subseteq Queued(e)
  /\ GotFin(f) => EndsAlike(f.unsent, e.unsent)
  /\ HasAll(e, p) => HasAll(f, p)

LEMMA ReachGrows ==
  ASSUME NEW e, NEW f, NEW p, Stream(e, p), Stream(f, p), Taken(e) <= Taken(f)
  PROVE  Reach(e, p) <= Reach(f, p)
<1>1. PICK w \in Nat : w = p.written
  BY Zenon DEF Stream
<1>2. PICK i \in Nat, j \in Nat : i = Taken(e) /\ j = Taken(f)
  BY ReachIs
<1>3. i <= j /\ j <= w
  BY <1>1, <1>2 DEF Stream
<1>4. Reach(e, p) = IF Over(p) /\ i = w THEN w + 2 ELSE i + 1
  BY <1>1, <1>2, Zenon DEF Reach
<1>5. Reach(f, p) = IF Over(p) /\ j = w THEN w + 2 ELSE j + 1
  BY <1>1, <1>2, Zenon DEF Reach
<1>6. PICK over \in BOOLEAN : over <=> Over(p)
  OBVIOUS
<1>7. Reach(e, p) = IF over /\ i = w THEN w + 2 ELSE i + 1
  BY <1>4, <1>6
<1>8. Reach(f, p) = IF over /\ j = w THEN w + 2 ELSE j + 1
  BY <1>5, <1>6
<1> QED BY <1>3, <1>7, <1>8

LEMMA ReceiveIsKept ==
  ASSUME NEW e, NEW p, Good(e, p), Good(p, e), e.st \in Linked, NEW g, Same(e, g, {"st"}),
         NEW m \in Sent(p, Reach(p, e)), ~m.rst
  PROVE  LET f == TcpReceive(g, m) IN
         /\ Kept(e, f, p)
         /\ f.st = g.st \/ (g.st = "ESTABLISHED" /\ f.st = "CLOSE_WAIT" /\ GotFin(f))
<1>1. PICK k \in Nat : k = Reach(e, p)
  BY GoodParts
<1>2. PICK c \in Nat : c = Reach(p, e)
  BY GoodParts
<1>3. /\ g.written = e.written /\ g.got = e.got /\ g.eof = e.eof /\ g.flags = e.flags
      /\ g.recv_data = e.recv_data /\ g.recv_flags = e.recv_flags /\ g.ooseq = e.ooseq
      /\ g.rcv_nxt = e.rcv_nxt /\ g.snd_lbb = e.snd_lbb
  BY DEF Same, PcbFields
<1>4. g.unsent = e.unsent /\ g.unacked = e.unacked /\ g.drv = e.drv /\ g.out = e.out
  BY DEF Same, PcbFields
<1>5. Sound(g, e, k)
  <2>1. Numbers(e, e, k) /\ Queues(e, e, k)
    BY <1>1, Zenon DEF Good, Sound
  <2>2. Numbers(g, e, k)
    BY <2>1, NumbersStay
  <2>3. Queues(g, e, k)
    BY <1>4, <2>1, Zenon DEF Queues
  <2> QED BY <2>2, <2>3, Zenon DEF Sound, Same
<1>6. Taken(g) = Taken(e)
  BY <1>3, Zenon DEF Taken
<1>7. Reach(g, p) = k
  <2>1. Reach(g, p) = Reach(e, p)
    BY <1>6, Zenon DEF Reach
  <2> QED BY <1>1, <2>1
<1>8. ~GotFin(e)
  <2>1. e.recv_flags = {}
    BY Zenon DEF Good
  <2> QED BY <2>1 DEF GotFin
<1>9. Taker(g, p) /\ ~GotFin(g)
  <2>1. IsPcb(g) /\ Windows(g)
    BY <1>5 DEF Sound, Numbers, Windows
  <2>2. Taker(e, p)
    <3>1. IsPcb(e) /\ Windows(e)
      BY GoodParts
    <3> QED BY <3>1, Zenon DEF Taker, Good
  <2>3. Sorted(g, p)
    BY <1>3, Zenon DEF Good, Sorted
  <2> QED BY <1>3, <1>8, <2>1, <2>2, <2>3, TakerFields, Zenon
<1>10. m \in Datagram /\ Genuine(m, p) /\ (m.ack => m.ackno <= c)
  BY <1>2, Zenon DEF Sent
<1>11. PICK f : f = TcpReceive(g, m)
  OBVIOUS
<1>12. /\ Received(g, f, e, p, k, c)
       /\ f.st = g.st \/ (g.st = "ESTABLISHED" /\ f.st = "CLOSE_WAIT" /\ GotFin(f))
  <2>1. k \in Nat /\ c \in Nat /\ k = Reach(g, p)
    BY <1>1, <1>2, <1>7
  <2> QED BY <1>5, <1>9, <1>10, <1>11, <2>1, TcpReceiveKeeps
<1>13. /\ Taker(f, p) /\ Numbers(f, e, Reach(f, p)) /\ Queues(f, e, k)
       /\ f.written = e.written /\ f.got = e.got /\ f.eof = e.eof
       /\ f.snd_lbb = e.snd_lbb /\ (Listening(f) <=> Listening(g)) /\ MayGetFin(g, f)
       /\ Queued(f) \subseteq Queued(g)
       /\ \A s \in Queued(g) \ Queued(f) : End(s) <= c
       /\ GotFin(f) => EndsAlike(f.unsent, g.unsent)
  BY <1>3, <1>12, Zenon DEF Received
<1>14. Queued(g) = Queued(e)
  BY <1>4, Zenon DEF Queued
<1>15. Listening(g) <=> Listening(e)
  BY <1>3, Zenon DEF Listening
<1>16. IsPcb(f) /\ Stream(f, p)
  BY <1>13, Zenon DEF Taker
<1>17. Before(e, f, p)
  <2>1. f.snd_nxt \in Nat /\ f.rcv_nxt \in Nat
    BY <1>13 DEF Numbers
  <2>2. Queues(f, e, Reach(e, p))
    BY <1>1, <1>13, Zenon
  <2> QED BY <1>13, <1>16, <2>1, <2>2, Zenon DEF Before
<1>18. Taken(e) <= Taken(f)
  <2>1. PICK l \in Nat : l = Len(e.got)
    BY LenProperties DEF Good, Stream
  <2>2. Taken(e) = l
    <3>1. e.recv_data = <<>>
      BY Zenon DEF Good
    <3> QED BY <2>1, <3>1 DEF Taken
  <2>3. PICK n \in Nat : n = Len(f.recv_data)
    BY <1>16, LenProperties DEF Stream
  <2>4. Taken(f) = l + n
    BY <1>13, <2>1, <2>3 DEF Taken
  <2> QED BY <2>2, <2>4
<1>19. Sound(f, e, Reach(f, p))
  <2>1. PICK r \in Nat : r = Reach(f, p)
    BY <1>16, ReachIs
  <2>2. k <= r
    <3>1. Stream(e, p)
      BY Zenon DEF Good
    <3>2. Reach(e, p) <= Reach(f, p)
      BY <1>16, <1>18, <3>1, ReachGrows, Zenon
    <3> QED BY <1>1, <2>1, <3>2
  <2>3. Grows(e, e)
    <3>1. e.written \in Nat
      BY GoodParts
    <3> QED BY <3>1, GrowsItself
  <2>4. Sent(e, k) \subseteq Sent(e, r)
    BY <2>2, <2>3, SentGrow, Zenon
  <2>5. Queues(f, e, r)
    <3>1. f.drv \in Seq(Sent(e, k)) /\ f.out \in Seq(Sent(e, k))
      BY <1>13, Zenon DEF Queues
    <3>2. f.drv \in Seq(Sent(e, r)) /\ f.out \in Seq(Sent(e, r))
      BY <2>4, <3>1, SeqGrow, Zenon
    <3> QED BY <1>13, <3>2, Zenon DEF Queues
  <2> QED BY <1>13, <1>16, <2>1, <2>5, Zenon DEF Sound
<1>20. AllCovered(f, p)
  <2>1. Stream(p, e) /\ p.recv_data = <<>>
    BY Zenon DEF Good
  <2>2. AllCovered(e, p)
    <3>1. Living(e)
      BY DEF Living, Linked
    <3> QED BY <3>1, Zenon DEF Good
  <2>3. e.unsent \in Seq(Segs(e)) /\ e.unacked \in Seq(Segs(e))
    BY Zenon DEF Good, Sound, Queues
  <2>4. \A s \in Queued(e) \ Queued(f) : End(s) <= Reach(p, e)
    BY <1>2, <1>13, <1>14, Zenon
  <2>5. f.written = e.written
    BY <1>13, Zenon
  <2> QED BY <2>1, <2>2, <2>3, <2>4, <2>5, StillCovered
<1>21. f.recv_flags \in {{}, {"GOT_FIN"}}
  <2>1. g.recv_flags = {}
    BY <1>3, Zenon DEF Good
  <2> QED BY <1>13, <2>1 DEF MayGetFin
<1>22. Len(e.got) <= Len(f.got)
  BY <1>13, NoLonger, Zenon DEF Good
<1>23. e.written \in Nat
  BY GoodParts
<1>24. GotFin(f) => EndsAlike(f.unsent, e.unsent)
  BY <1>4, <1>13, Zenon
<1>25. Queued(f) \subseteq Queued(e) /\ (Listening(f) <=> Listening(e))
  BY <1>13, <1>14, <1>15, Zenon
<1>26. HasAll(e, p) => HasAll(f, p)
  <2>1. PICK i \in Nat, j \in Nat, w \in Nat : i = Taken(e) /\ j = Taken(f) /\ w = p.written
    BY <1>16, ReachIs DEF Good
  <2>2. i <= j /\ j <= w
    BY <1>16, <1>18, <2>1 DEF Stream
  <2>3. i = w => j = w
    BY <2>2
  <2> QED BY <2>1, <2>3, Zenon DEF HasAll
<1>27. Kept(e, f, p)
  BY <1>13, <1>17, <1>19, <1>20, <1>21, <1>22, <1>23, <1>24, <1>25, <1>26, Zenon DEF Kept
<1> QED BY <1>11, <1>12, <1>27, Zenon

\* The state, the flags and cwnd are set afterwards.
LEMMA KeptOn ==
  ASSUME NEW e, NEW f, NEW p, Kept(e, f, p), NEW h, Same(f, h, {"st", "flags", "cwnd"}),
         Listening(h) <=> Listening(f)
  PROVE  Kept(e, h, p) /\ (GotFin(h) <=> GotFin(f)) /\ h.snd_lbb = f.snd_lbb
<1>1. /\ h.written = f.written /\ h.got = f.got /\ h.eof = f.eof
      /\ h.recv_data = f.recv_data /\ h.recv_flags = f.recv_flags /\ h.ooseq = f.ooseq
      /\ h.rcv_nxt = f.rcv_nxt /\ h.snd_lbb = f.snd_lbb /\ h.snd_nxt = f.snd_nxt
  BY DEF Same, PcbFields
<1>2. h.unsent = f.unsent /\ h.unacked = f.unacked /\ h.drv = f.drv /\ h.out = f.out
  BY DEF Same, PcbFields
<1>3. PICK k \in Nat : k = Reach(f, p)
  BY ReachIs DEF Kept, Taker
<1>4. Sound(f, e, k)
  BY <1>3, Zenon DEF Kept
<1>5. Sound(h, e, k)
  <2>1. Numbers(f, e, k) /\ Queues(f, e, k)
    BY <1>4, Zenon DEF Sound
  <2>2. Numbers(h, e, k)
    BY <2>1, NumbersStay
  <2>3. Queues(h, e, k)
    BY <1>2, <2>1, Zenon DEF Queues
  <2> QED BY <2>2, <2>3, Zenon DEF Sound, Same
<1>6. Taken(h) = Taken(f)
  BY <1>1, Zenon DEF Taken
<1>7. Reach(h, p) = k
  <2>1. Reach(h, p) = Reach(f, p)
    BY <1>6, Zenon DEF Reach
  <2> QED BY <1>3, <2>1
<1>8. Taker(h, p)
  <2>1. IsPcb(h) /\ Windows(h)
    BY <1>5 DEF Sound, Numbers, Windows
  <2>2. Taker(f, p)
    BY Zenon DEF Kept
  <2>3. Sorted(h, p)
    BY <1>1, <2>2, Zenon DEF Taker, Sorted
  <2> QED BY <1>1, <2>1, <2>2, <2>3, TakerFields, Zenon
<1>9. Before(e, h, p)
  <2>1. Before(e, f, p)
    BY Zenon DEF Kept
  <2>2. Queues(h, e, Reach(e, p))
    BY <1>2, <2>1, Zenon DEF Before, Queues
  <2> QED BY <1>1, <1>8, <2>1, <2>2, Zenon DEF Before, Taker
<1>10. Queued(h) = Queued(f)
  BY <1>2, Zenon DEF Queued
<1>11. AllCovered(h, p)
  <2>1. \A i : Covers(f, i) => Covers(h, i)
    BY <1>10, Zenon DEF Covers
  <2> QED BY <1>1, <2>1, Zenon DEF Kept, AllCovered
<1>12. GotFin(h) <=> GotFin(f)
  BY <1>1, Zenon DEF GotFin
<1>13. Sound(h, e, Reach(h, p))
  BY <1>5, <1>7, Zenon
<1>14. h.snd_lbb = e.snd_lbb /\ Len(e.got) <= Len(h.got) /\ h.recv_flags \in {{}, {"GOT_FIN"}}
       /\ Queued(h) \subseteq Queued(e) /\ (Listening(h) <=> Listening(e)) /\ e.written \in Nat
  BY <1>1, <1>10, Zenon DEF Kept
<1>15. GotFin(h) => EndsAlike(h.unsent, e.unsent)
  BY <1>2, <1>12, Zenon DEF Kept
<1>16. HasAll(e, p) => HasAll(h, p)
  BY <1>6, Zenon DEF Kept, HasAll
<1> QED BY <1>1, <1>8, <1>9, <1>11, <1>12, <1>13, <1>14, <1>15, <1>16, Zenon DEF Kept

\* Where the queues of a pcb end when the peer's FIN is taken.
LEMMA FinAtTheEnd ==
  ASSUME NEW e, NEW f, NEW p, Kept(e, f, p), EndsTheStream(e), GotFin(f)
  PROVE  EndsTheStream(f)
<1>1. f.snd_lbb = e.snd_lbb /\ EndsAlike(f.unsent, e.unsent)
  BY Zenon DEF Kept
<1>2. CASE f.unsent = <<>>
  BY <1>2, Zenon DEF EndsTheStream
<1>3. CASE e.unsent # <<>> /\ Last(f.unsent) = Last(e.unsent)
  BY <1>1, <1>3, Zenon DEF EndsTheStream
<1> QED BY <1>1, <1>2, <1>3, Zenon DEF EndsAlike

\* A step of tcp_receive to a state of a connection.
LEMMA KeptProcessed ==
  ASSUME NEW e, NEW f, NEW p, Good(e, p), Kept(e, f, p), f.st \in Linked, e.st \in Linked,
         Over(e) <=> Over(f), f.st = "SYN_RCVD" => e.st = "SYN_RCVD",
         f.st \in {"ESTABLISHED", "SYN_RCVD"} => ~GotFin(f),
         f.st = "CLOSE_WAIT" => (GotFin(f) \/ HasAll(e, p)) /\ EndsTheStream(e)
  PROVE  Processed(e, f, p)
<1>1. f.written = e.written /\ f.snd_lbb = e.snd_lbb /\ e.written \in Nat
  BY Zenon DEF Kept, Before
<1>2. PICK w \in Nat : w = e.written
  BY <1>1
<1>3. Sender(f)
  <2>1. Over(e) => e.snd_lbb >= w + 1
    <3>1. e.st # "GONE"
      BY DEF Linked
    <3> QED BY <1>2, <3>1, Zenon DEF Good, Sender
  <2>2. CASE f.st = "SYN_RCVD"
    <3>1. e.written = 0 /\ e.snd_lbb = 1 /\ \A s \in Queued(e) : s.syn
      BY <2>2, Zenon DEF Good, Sender
    <3>2. Queued(f) \subseteq Queued(e)
      BY Zenon DEF Kept
    <3>3. ~Over(f)
      BY <2>2 DEF Over
    <3> QED BY <1>1, <2>2, <3>1, <3>2, <3>3 DEF Sender, States
  <2>3. CASE f.st \in {"ESTABLISHED", "CLOSE_WAIT"}
    <3>1. ~Over(f)
      BY <2>3 DEF Over
    <3>2. e.st \in {"SYN_RCVD", "ESTABLISHED", "CLOSE_WAIT"}
      <4>1. ~Over(e)
        BY <3>1
      <4> QED BY <4>1 DEF Over, Linked
    <3>3. e.st = "SYN_RCVD" => e.snd_lbb = 1 /\ e.written = 0
      BY Zenon DEF Good, Sender
    <3>4. e.st \in {"ESTABLISHED", "CLOSE_WAIT"} => e.snd_lbb = e.written + 1
      BY Zenon DEF Good, Sender
    <3>5. f.snd_lbb = f.written + 1
      BY <1>1, <3>2, <3>3, <3>4
    <3> QED BY <2>3, <3>1, <3>5 DEF Sender, States
  <2>4. CASE f.st \notin {"SYN_RCVD", "ESTABLISHED", "CLOSE_WAIT"}
    <3>1. Over(f)
      BY <2>4 DEF Over, Linked
    <3>2. f.snd_lbb >= f.written + 1
      BY <1>1, <1>2, <2>1, <3>1
    <3>3. f.st \in {"FIN_WAIT_1", "FIN_WAIT_2", "CLOSING", "LAST_ACK"}
      BY <2>4 DEF Linked
    <3> QED BY <3>2, <3>3 DEF Sender, States
  <2> QED BY <2>2, <2>3, <2>4
<1>4. Listening(f) <=> f.st \notin Shuts
  <2>1. (f.st \in Shuts <=> Over(f)) /\ (e.st \in Shuts <=> Over(e))
    BY DEF Shuts, Over, Linked
  <2>2. (Listening(f) <=> Listening(e)) /\ (Listening(e) <=> e.st \notin Shuts)
    BY Zenon DEF Kept, Good
  <2> QED BY <2>1, <2>2
<1>5. GotFin(f) /\ Listening(f) => f.st = "CLOSE_WAIT" /\ EndsTheStream(f)
  <2>1. SUFFICES ASSUME GotFin(f), Listening(f) PROVE f.st = "CLOSE_WAIT" /\ EndsTheStream(f)
    OBVIOUS
  <2>2. f.st = "CLOSE_WAIT"
    BY <1>4, <2>1 DEF Linked, Shuts
  <2> QED BY <2>1, <2>2, FinAtTheEnd
<1>6. /\ f.st # "SYN_SENT" /\ f.st \notin {"CLOSED", "LISTEN", "GONE"} /\ Placed(f, p)
  BY DEF Linked, Kept, Taker
<1>7. Handles(e, f, p)
  <2>1. Sound(f, e, Reach(f, p)) /\ Stream(f, p) /\ Sorted(f, p) /\ AllCovered(f, p)
        /\ Len(e.got) <= Len(f.got) /\ f.recv_flags \in {{}, {"GOT_FIN"}}
    BY Zenon DEF Kept, Taker
  <2>2. f.st = "CLOSE_WAIT" => HasAll(f, p)
    <3>1. GotFin(f) => HasAll(f, p)
      BY <1>6, Zenon DEF Placed, AllTaken
    <3> QED BY <3>1, Zenon DEF Kept
  <2> QED BY <1>1, <1>3, <1>4, <1>5, <1>6, <2>1, <2>2, Zenon DEF Handles
<1> QED BY <1>7, Zenon DEF Processed, Kept

\* A step of tcp_receive that ends the connection in order.
LEMMA KeptTimeWait ==
  ASSUME NEW e, NEW f, NEW p, Good(e, p), Kept(e, f, p), e.st \in Linked, Over(e)
  PROVE  Processed(e, TimeWait(f), p)
<1>1. PICK t : t = TimeWait(f)
  OBVIOUS
<1>2. PICK k \in Nat : k = Reach(f, p)
  BY ReachIs DEF Kept, Taker
<1>3. PICK l \in Nat : l = Reach(e, p)
  BY GoodParts
<1>4. IsPcb(f) /\ Numbers(f, e, k) /\ Queues(f, e, k) /\ Queues(f, e, l)
  BY <1>2, <1>3, Zenon DEF Kept, Before, Sound
<1>5. /\ Same(f, t, {"st", "unsent", "unacked", "ooseq", "timing"})
      /\ t.st = "TIME_WAIT" /\ t.unsent = <<>> /\ t.unacked = <<>> /\ t.ooseq = <<>>
      /\ Numbers(t, e, k) /\ Queues(t, e, k)
  BY <1>1, <1>4, TimeWaitKeeps, Zenon
<1>6. Queues(t, e, l)
  BY <1>1, <1>4, TimeWaitKeeps, Zenon
<1>7. /\ t.written = f.written /\ t.got = f.got /\ t.eof = f.eof /\ t.flags = f.flags
      /\ t.recv_data = f.recv_data /\ t.recv_flags = f.recv_flags /\ t.rcv_nxt = f.rcv_nxt
      /\ t.snd_lbb = f.snd_lbb /\ t.snd_nxt = f.snd_nxt
  BY <1>5 DEF Same, PcbFields
<1>8. Taken(t) = Taken(f)
  BY <1>7, Zenon DEF Taken
<1>9. Reach(t, p) = k
  <2>1. Reach(t, p) = Reach(f, p)
    BY <1>8, Zenon DEF Reach
  <2> QED BY <1>2, <2>1
<1>10. Stream(t, p)
  BY <1>7, <1>8, Zenon DEF Kept, Taker, Stream
<1>11. Sorted(t, p)
  <2>1. <<>> \in Seq(Waiting(p)) /\ 1 .. Len(<<>>) - 1 = {}
    OBVIOUS
  <2> QED BY <1>5, <2>1, Zenon DEF Sorted, FinLast
<1>12. f.written = e.written /\ f.snd_lbb = e.snd_lbb /\ e.written \in Nat
  BY Zenon DEF Kept, Before
<1>13. Sender(t)
  <2>1. e.st # "GONE"
    BY DEF Linked
  <2>2. t.snd_lbb >= t.written + 1
    BY <1>7, <1>12, <2>1, Zenon DEF Good, Sender
  <2> QED BY <1>5, <2>2 DEF Sender, States
<1>14. ~Listening(t)
  <2>1. e.st \in Shuts
    BY DEF Over, Linked, Shuts
  <2>2. ~Listening(f)
    BY <2>1, Zenon DEF Kept, Good
  <2> QED BY <1>7, <2>2, Zenon DEF Listening
<1>15. /\ t.st \in Shuts /\ t.st \notin Linked /\ ~Living(t) /\ Over(t)
       /\ t.st \notin {"CLOSED", "LISTEN", "GONE"} /\ t.st # "SYN_SENT" /\ t.st # "CLOSE_WAIT"
       /\ t.st # "SYN_RCVD"
  BY <1>5 DEF Shuts, Linked, Living, Over
<1>16. IsPcb(t)
  BY <1>5, Zenon DEF Same
<1>17. Sound(t, e, Reach(t, p))
  BY <1>5, <1>9, <1>16, Zenon DEF Sound
<1>18. Len(e.got) <= Len(t.got) /\ t.recv_flags \in {{}, {"GOT_FIN"}}
  BY <1>7, Zenon DEF Kept
<1>19. t.written = e.written
  BY <1>7, <1>12
<1>20. Handles(e, t, p)
  BY <1>10, <1>11, <1>12, <1>13, <1>14, <1>15, <1>17, <1>18, <1>19, Zenon DEF Handles
<1>21. Before(e, t, p)
  BY <1>3, <1>6, <1>7, <1>16, Zenon DEF Before, Kept
<1> QED BY <1>1, <1>20, <1>21, Zenon DEF Processed

\* What tcp_process does to the state after tcp_receive.
LEMMA StateSet ==
  ASSUME NEW f, IsPcb(f), NEW x, NEW h,
         h = [f EXCEPT !.st = x] \/ h = [AckNow(f) EXCEPT !.st = x]
  PROVE  Same(f, h, {"st", "flags", "cwnd"}) /\ h.st = x /\ (Listening(h) <=> Listening(f))
<1>1. CASE h = [f EXCEPT !.st = x]
  BY <1>1 DEF IsPcb, PcbFields, Same, Listening
<1>2. CASE h = [AckNow(f) EXCEPT !.st = x]
  BY <1>2 DEF IsPcb, PcbFields, Same, Listening, AckNow
<1> QED BY <1>1, <1>2

LEMMA AckNowSets ==
  ASSUME NEW f, IsPcb(f)
  PROVE  /\ Same(f, AckNow(f), {"st", "flags", "cwnd"}) /\ AckNow(f).st = f.st
         /\ Listening(AckNow(f)) <=> Listening(f)
  BY DEF IsPcb, PcbFields, Same, Listening, AckNow

\* tcp_process in the states of a connection.
LEMMA ConnectedKeeps ==
  ASSUME NEW e, NEW p, Good(e, p), Good(p, e), e.st \in Linked \ {"SYN_RCVD"},
         e.st \in {"ESTABLISHED", "CLOSE_WAIT"} => EndsTheStream(e),
         NEW m \in Sent(p, Reach(p, e)), ~m.rst
  PROVE  Processed(e, Connected(e, m), p) \/ Ends(e, Connected(e, m), p)
<1>1. PICK f : f = TcpReceive(e, m)
  OBVIOUS
<1>2. PICK h : h = Connected(e, m)
  OBVIOUS
<1>3. PICK acked \in BOOLEAN : acked <=> m.ack /\ m.ackno = f.snd_nxt
  OBVIOUS
<1>4. /\ Kept(e, f, p)
      /\ f.st = e.st \/ (e.st = "ESTABLISHED" /\ f.st = "CLOSE_WAIT" /\ GotFin(f))
  <2>1. IsPcb(e)
    BY GoodParts
  <2>2. Same(e, e, {"st"})
    BY <2>1 DEF Same
  <2>3. e.st \in Linked
    OBVIOUS
  <2> QED BY <1>1, <2>2, <2>3, ReceiveIsKept
<1>5. IsPcb(f)
  BY <1>4, Zenon DEF Kept, Before
<1>6. e.st \in {"ESTABLISHED", "CLOSE_WAIT", "FIN_WAIT_1", "FIN_WAIT_2", "CLOSING", "LAST_ACK"}
  BY DEF Linked
<1>7. e.st \in Linked
  OBVIOUS
<1>8. ASSUME NEW g, Same(f, g, {"st", "flags", "cwnd"}), Listening(g) <=> Listening(f)
      PROVE  Kept(e, g, p) /\ (GotFin(g) <=> GotFin(f))
  BY <1>4, <1>8, KeptOn, Zenon
<1>9. ASSUME NEW g, Kept(e, g, p), Over(e), g.st \in {"FIN_WAIT_1", "FIN_WAIT_2", "CLOSING", "LAST_ACK"}
      PROVE  Processed(e, g, p)
  <2>1. Over(g) /\ g.st \in Linked /\ g.st \notin {"SYN_RCVD", "ESTABLISHED", "CLOSE_WAIT"}
    BY <1>9 DEF Over, Linked
  <2> QED BY <1>7, <1>9, <2>1, KeptProcessed, Zenon
<1>10. CASE e.st \in {"ESTABLISHED", "CLOSE_WAIT"}
  <2>1. h = PassiveClose(f)
    BY <1>1, <1>2, <1>10 DEF Connected
  <2>2. CASE GotFin(f)
    <3>1. h = [AckNow(f) EXCEPT !.st = "CLOSE_WAIT"]
      BY <2>1, <2>2, Zenon DEF PassiveClose
    <3>2. Same(f, h, {"st", "flags", "cwnd"}) /\ h.st = "CLOSE_WAIT" /\ (Listening(h) <=> Listening(f))
      BY <1>5, <3>1, StateSet
    <3>3. Kept(e, h, p) /\ GotFin(h)
      BY <1>8, <2>2, <3>2, Zenon
    <3>4. h.st \in Linked /\ ~Over(e) /\ ~Over(h)
      BY <1>10, <3>2 DEF Linked, Over
    <3>5. h.st # "SYN_RCVD" /\ h.st \notin {"ESTABLISHED", "SYN_RCVD"} /\ EndsTheStream(e)
      BY <1>10, <3>2
    <3>6. Processed(e, h, p)
      BY <1>7, <3>3, <3>4, <3>5, KeptProcessed, Zenon
    <3> QED BY <1>2, <3>6
  <2>3. CASE ~GotFin(f)
    <3>1. h = f /\ f.st = e.st
      BY <1>4, <1>10, <2>1, <2>3 DEF PassiveClose
    <3>2. f.st \in Linked /\ ~Over(e) /\ ~Over(f) /\ f.st # "SYN_RCVD" /\ EndsTheStream(e)
      BY <1>10, <3>1 DEF Linked, Over
    <3>3. f.st = "CLOSE_WAIT" => HasAll(e, p)
      BY <3>1, Zenon DEF Good
    <3>4. Processed(e, f, p)
      BY <1>4, <1>7, <2>3, <3>2, <3>3, KeptProcessed, Zenon
    <3> QED BY <1>2, <3>1, <3>4
  <2> QED BY <2>2, <2>3
<1>11. CASE e.st = "FIN_WAIT_1"
  <2>1. Over(e) /\ f.st = "FIN_WAIT_1"
    BY <1>4, <1>11 DEF Over
  <2>2. h = IF ~GotFin(f) THEN [f EXCEPT !.st = IF acked THEN "FIN_WAIT_2" ELSE @]
            ELSE IF acked THEN TimeWait(AckNow(f)) ELSE [AckNow(f) EXCEPT !.st = "CLOSING"]
    BY <1>1, <1>2, <1>3, <1>11 DEF Connected
  <2>3. CASE ~GotFin(f)
    <3>1. PICK x \in {"FIN_WAIT_1", "FIN_WAIT_2"} : h = [f EXCEPT !.st = x]
      BY <2>1, <2>2, <2>3
    <3>2. Same(f, h, {"st", "flags", "cwnd"}) /\ h.st = x /\ (Listening(h) <=> Listening(f))
      BY <1>5, <3>1, StateSet
    <3>3. Kept(e, h, p)
      BY <1>8, <3>2, Zenon
    <3>4. h.st \in {"FIN_WAIT_1", "FIN_WAIT_2", "CLOSING", "LAST_ACK"}
      BY <3>2
    <3> QED BY <1>2, <1>9, <2>1, <3>3, <3>4
  <2>4. CASE GotFin(f) /\ acked
    <3>1. h = TimeWait(AckNow(f))
      BY <2>2, <2>4
    <3>2. Kept(e, AckNow(f), p)
      BY <1>5, <1>8, AckNowSets, Zenon
    <3> QED BY <1>2, <1>7, <2>1, <3>1, <3>2, KeptTimeWait, Zenon
  <2>5. CASE GotFin(f) /\ ~acked
    <3>1. h = [AckNow(f) EXCEPT !.st = "CLOSING"]
      BY <2>2, <2>5
    <3>2. Same(f, h, {"st", "flags", "cwnd"}) /\ h.st = "CLOSING" /\ (Listening(h) <=> Listening(f))
      BY <1>5, <3>1, StateSet
    <3>3. Kept(e, h, p)
      BY <1>8, <3>2, Zenon
    <3>4. h.st \in {"FIN_WAIT_1", "FIN_WAIT_2", "CLOSING", "LAST_ACK"}
      BY <3>2
    <3> QED BY <1>2, <1>9, <2>1, <3>3, <3>4
  <2> QED BY <2>3, <2>4, <2>5
<1>12. CASE e.st = "FIN_WAIT_2"
  <2>1. Over(e) /\ f.st = "FIN_WAIT_2"
    BY <1>4, <1>12 DEF Over
  <2>2. h = IF GotFin(f) THEN TimeWait(AckNow(f)) ELSE f
    BY <1>1, <1>2, <1>12 DEF Connected
  <2>3. CASE GotFin(f)
    <3>1. Kept(e, AckNow(f), p)
      BY <1>5, <1>8, AckNowSets, Zenon
    <3> QED BY <1>2, <1>7, <2>1, <2>2, <2>3, <3>1, KeptTimeWait, Zenon
  <2>4. CASE ~GotFin(f)
    <3>1. h = f /\ f.st \in {"FIN_WAIT_1", "FIN_WAIT_2", "CLOSING", "LAST_ACK"}
      BY <2>1, <2>2, <2>4
    <3> QED BY <1>2, <1>4, <1>9, <2>1, <3>1, Zenon
  <2> QED BY <2>3, <2>4
<1>13. CASE e.st = "CLOSING"
  <2>1. Over(e) /\ f.st = "CLOSING"
    BY <1>4, <1>13 DEF Over
  <2>2. h = IF acked THEN TimeWait(f) ELSE f
    BY <1>1, <1>2, <1>3, <1>13 DEF Connected
  <2>3. CASE acked
    BY <1>2, <1>4, <1>7, <2>1, <2>2, <2>3, KeptTimeWait, Zenon
  <2>4. CASE ~acked
    <3>1. h = f /\ f.st \in {"FIN_WAIT_1", "FIN_WAIT_2", "CLOSING", "LAST_ACK"}
      BY <2>1, <2>2, <2>4
    <3> QED BY <1>2, <1>4, <1>9, <2>1, <3>1, Zenon
  <2> QED BY <2>3, <2>4
<1>14. CASE e.st = "LAST_ACK"
  <2>1. Over(e) /\ f.st = "LAST_ACK"
    BY <1>4, <1>14 DEF Over
  <2>2. h = IF acked THEN [f EXCEPT !.recv_flags = @ \cup {"CLOSED"}] ELSE f
    BY <1>1, <1>2, <1>3, <1>14 DEF Connected
  <2>3. CASE acked
    <3>1. h = [f EXCEPT !.recv_flags = @ \cup {"CLOSED"}]
      BY <2>2, <2>3
    <3>2. Same(f, h, {"recv_flags"}) /\ "CLOSED" \in h.recv_flags
      BY <1>5, <3>1 DEF IsPcb, PcbFields, Same
    <3>3. /\ h.written = f.written /\ h.got = f.got /\ h.eof = f.eof /\ h.unsent = f.unsent
          /\ h.unacked = f.unacked /\ h.drv = f.drv /\ h.out = f.out /\ h.snd_nxt = f.snd_nxt
          /\ h.rcv_nxt = f.rcv_nxt
      BY <3>2 DEF Same, PcbFields
    <3>4. Before(e, f, p)
      BY <1>4, Zenon DEF Kept
    <3>5. Queues(h, e, Reach(e, p))
      BY <3>3, <3>4, Zenon DEF Before, Queues
    <3>6. Before(e, h, p)
      BY <3>2, <3>3, <3>4, <3>5, Zenon DEF Before, Same
    <3>7. ~Listening(e)
      BY <1>14 DEF Good, Shuts
    <3> QED BY <1>2, <3>2, <3>6, <3>7, Zenon DEF Ends
  <2>4. CASE ~acked
    <3>1. h = f /\ f.st \in {"FIN_WAIT_1", "FIN_WAIT_2", "CLOSING", "LAST_ACK"}
      BY <2>1, <2>2, <2>4
    <3> QED BY <1>2, <1>4, <1>9, <2>1, <3>1, Zenon
  <2> QED BY <2>3, <2>4
<1> QED BY <1>6, <1>10, <1>11, <1>12, <1>13, <1>14

\* The answer to the SYN of an active connection.
LEMMA SynSentKeeps ==
  ASSUME NEW e, NEW p, Good(e, p), e.st = "SYN_SENT", NEW m \in Sent(p, Reach(p, e)), ~m.rst
  PROVE  Processed(e, SynSent(e, m), p)
<1>1. PICK k \in Nat : k = Reach(e, p)
  BY GoodParts
<1>2. Sound(e, e, k)
  BY <1>1, Zenon DEF Good
<1>3. Living(e)
  BY DEF Living
<1>4. m \in Datagram /\ Genuine(m, p)
  BY Zenon DEF Sent
<1>5. /\ e.written = 0 /\ e.snd_lbb = 1 /\ e.unacked # <<>> /\ e.snd_nxt >= 1
      /\ e.got = <<>> /\ e.recv_data = <<>> /\ e.recv_flags = {}
      /\ \A s \in Queued(e) : s.syn
  BY Zenon DEF Good, Sender, SynWaits
<1>6. PICK h : h = SynSent(e, m)
  OBVIOUS
<1>7. CASE m.ack /\ m.syn /\ m.ackno = Head(e.unacked).seq + 1
  <2>1. PICK s : s = Head(e.unacked)
    OBVIOUS
  <2>2. PICK rest : rest = Tail(e.unacked)
    OBVIOUS
  <2>3. /\ s \in Segs(e) /\ rest \in Seq(Segs(e))
        /\ Range(e.unacked) = {s} \cup Range(rest)
    <3>1. e.unacked \in Seq(Segs(e))
      BY <1>2, Zenon DEF Sound, Queues
    <3> QED BY <1>5, <2>1, <2>2, <3>1, HeadAndTail, Zenon
  <2>4. s.seq = 0 /\ m.ackno = 1 /\ m.seq = 0
    <3>1. s.syn
      BY <1>5, <2>3 DEF Queued
    <3>2. s.seq = 0
      BY <2>3, <3>1, Zenon DEF Segs, Genuine
    <3>3. m.seq = 0
      BY <1>4, <1>7, Zenon DEF Genuine
    <3> QED BY <1>7, <2>1, <3>2, <3>3
  <2>5. PICK cwnd : cwnd = IF e.cwnd = 1 THEN 2 * Mss ELSE Mss
    OBVIOUS
  <2>6. PICK timing : timing = (Len(e.unacked) > 1)
    OBVIOUS
  <2>7. PICK wl1 : wl1 = m.seq - 1
    OBVIOUS
  <2>8. PICK g : g = [e EXCEPT !.rcv_nxt = 1, !.rcv_ann_right_edge = 1,
                               !.lastack = 1, !.snd_wnd = m.wnd, !.snd_wl1 = wl1,
                               !.st = "ESTABLISHED", !.cwnd = cwnd,
                               !.unacked = rest, !.timing = timing, !.nrtx = 0]
    OBVIOUS
  <2>9. h = AckNow(g)
    <3>1. m.seq + 1 = 1
      BY <2>4
    <3>2. h = AckNow([e EXCEPT
                 !.rcv_nxt = m.seq + 1, !.rcv_ann_right_edge = m.seq + 1,
                 !.lastack = m.ackno, !.snd_wnd = m.wnd, !.snd_wl1 = m.seq - 1,
                 !.st = "ESTABLISHED", !.cwnd = IF @ = 1 THEN 2 * Mss ELSE Mss,
                 !.unacked = Tail(@), !.timing = Len(e.unacked) > 1, !.nrtx = 0])
      BY <1>6, <1>7 DEF SynSent
    <3> QED BY <2>2, <2>4, <2>5, <2>6, <2>7, <2>8, <3>1, <3>2
  <2>10. Same(e, h, {"rcv_nxt", "rcv_ann_right_edge", "lastack", "snd_wnd", "snd_wl1", "st",
                     "cwnd", "unacked", "timing", "nrtx", "flags"})
    BY <1>2, <2>8, <2>9 DEF AckNow, Sound, IsPcb, PcbFields, Same
  <2>11. /\ h.rcv_nxt = 1 /\ h.rcv_ann_right_edge = 1 /\ h.lastack = 1
         /\ h.st = "ESTABLISHED" /\ h.unacked = rest /\ (Listening(h) <=> Listening(e))
    BY <1>2, <2>8, <2>9 DEF AckNow, Sound, IsPcb, PcbFields, Listening
  <2>12. /\ h.written = e.written /\ h.got = e.got /\ h.eof = e.eof
         /\ h.recv_data = e.recv_data /\ h.recv_flags = e.recv_flags /\ h.ooseq = e.ooseq
         /\ h.snd_lbb = e.snd_lbb /\ h.snd_nxt = e.snd_nxt
    BY <2>10 DEF Same, PcbFields
  <2>13. /\ h.unsent = e.unsent /\ h.drv = e.drv /\ h.out = e.out /\ h.holded = e.holded
         /\ h.dupacks = e.dupacks /\ h.rcv_wnd = e.rcv_wnd /\ h.rcv_ann_wnd = e.rcv_ann_wnd
    BY <2>10 DEF Same, PcbFields
  <2>14. 1 <= k
    <3>1. Stream(e, p)
      BY Zenon DEF Good
    <3> QED BY <1>1, <3>1, ReachIs
  <2>15. Numbers(h, e, k)
    <3>1. Numbers(e, e, k)
      BY <1>2, Zenon DEF Sound
    <3> QED BY <1>5, <2>11, <2>12, <2>13, <2>14, <3>1 DEF Numbers
  <2>16. Queues(h, e, k)
    BY <1>2, <2>3, <2>11, <2>13, Zenon DEF Sound, Queues
  <2>17. IsPcb(h)
    BY <2>10, Zenon DEF Same
  <2>18. Taken(h) = Taken(e) /\ Taken(h) = 0
    BY <1>5, <2>12 DEF Taken
  <2>19. Reach(h, p) = k
    <3>1. Reach(h, p) = Reach(e, p)
      BY <2>18, Zenon DEF Reach
    <3> QED BY <1>1, <3>1
  <2>20. Stream(h, p) /\ Sorted(h, p)
    BY <2>12, <2>18, Zenon DEF Good, Stream, Sorted
  <2>21. ~GotFin(h) /\ h.recv_flags = {}
    BY <1>5, <2>12 DEF GotFin
  <2>22. Placed(h, p)
    <3>1. h.rcv_nxt = Taken(h) + 1
      BY <2>11, <2>18
    <3> QED BY <2>21, <3>1, Zenon DEF Placed
  <2>23. h.written = 0 /\ h.snd_lbb = h.written + 1
    BY <1>5, <2>12
  <2>24. Sender(h) /\ ~Over(h) /\ ~Over(e)
    BY <2>11, <2>23 DEF Sender, States, Over
  <2>25. AllCovered(h, p)
    BY <2>23 DEF AllCovered
  <2>26. /\ h.st \notin Shuts /\ h.st \notin {"CLOSED", "LISTEN", "GONE"}
         /\ h.st # "SYN_SENT" /\ h.st # "CLOSE_WAIT" /\ h.st # "SYN_RCVD"
    BY <2>11 DEF Shuts
  <2>27. Listening(h)
    <3>1. e.st \notin Shuts
      BY DEF Shuts
    <3> QED BY <2>11, <3>1, Zenon DEF Good
  <2>28. Len(e.got) <= Len(h.got)
    BY <2>12, NoLonger, Zenon DEF Good
  <2>29. e.written \in Nat /\ h.written = e.written
    BY <1>5, <2>12
  <2>30. Sound(h, e, Reach(h, p)) /\ h.recv_flags \in {{}, {"GOT_FIN"}}
    BY <2>15, <2>16, <2>17, <2>19, <2>21, Zenon DEF Sound
  <2>31. Handles(e, h, p)
    BY <2>20, <2>21, <2>22, <2>24, <2>25, <2>26, <2>27, <2>28, <2>29, <2>30, Zenon DEF Handles
  <2>32. Before(e, h, p)
    <3>1. h.snd_nxt \in Nat /\ h.rcv_nxt \in Nat
      BY <2>15 DEF Numbers
    <3> QED BY <1>1, <2>12, <2>16, <2>17, <3>1, Zenon DEF Before
  <2> QED BY <1>6, <2>31, <2>32, Zenon DEF Processed
<1>8. CASE m.ack /\ ~(m.syn /\ m.ackno = Head(e.unacked).seq + 1)
  <2>1. h = Answer(e, m)
    BY <1>6, <1>8 DEF SynSent
  <2>2. PICK r \in Sent(e, k) : h = Send(e, r)
    <3>1. Reset(m.ackno, End(m)) \in Sent(e, k)
      BY <1>4, AnswerIsSent, Zenon
    <3> QED BY <2>1, <3>1, Zenon DEF Answer
  <2>3. Calm(e, h, e, k) /\ Same(e, h, {"out"})
    BY <1>1, <1>2, <2>2, SendIsCalm
  <2>4. h.unacked # <<>> /\ h.snd_wnd = e.snd_wnd
    BY <1>5, <2>3 DEF Same, PcbFields
  <2>5. Calm(e, h, e, Reach(e, p))
    BY <1>1, <2>3, Zenon
  <2> QED BY <1>3, <1>6, <2>4, <2>5, CalmProcessed, Zenon
<1>9. CASE ~m.ack
  <2>1. h = e
    BY <1>6, <1>9 DEF SynSent
  <2>2. Calm(e, e, e, Reach(e, p))
    BY <1>1, <1>2, CalmItself, Zenon
  <2> QED BY <1>3, <1>5, <1>6, <2>1, <2>2, CalmProcessed, Zenon
<1> QED BY <1>7, <1>8, <1>9

\* Before the handshake is over only SYNs wait.
LEMMA SynsEnd ==
  ASSUME NEW e, NEW p, Good(e, p), e.st = "SYN_RCVD"
  PROVE  EndsTheStream(e)
<1>1. \A s \in Queued(e) : s.syn
  BY Zenon DEF Good, Sender
<1>2. e.unsent \in Seq(Segs(e))
  BY Zenon DEF Good, Sound, Queues
<1>3. e.unsent # <<>> => Last(e.unsent) \in Range(e.unsent)
  <2>1. e.unsent # <<>> => Last(e.unsent) \in Segs(e)
    BY <1>2 DEF Last
  <2> QED BY <1>2, <2>1, LastReplaced, Zenon
<1> QED BY <1>1, <1>3, Zenon DEF EndsTheStream, Queued

\* The end of the handshake for the passive side.
LEMMA SynRcvdKeeps ==
  ASSUME NEW e, NEW p, Good(e, p), Good(p, e), e.st = "SYN_RCVD",
         NEW m \in Sent(p, Reach(p, e)), ~m.rst
  PROVE  Processed(e, SynRcvd(e, m), p)
<1>1. PICK k \in Nat : k = Reach(e, p)
  BY GoodParts
<1>2. Sound(e, e, k)
  BY <1>1, Zenon DEF Good
<1>3. Living(e) /\ e.st \in Linked /\ e.st # "SYN_SENT"
  BY DEF Living, Linked
<1>4. m \in Datagram
  BY Zenon DEF Sent
<1>5. PICK h : h = SynRcvd(e, m)
  OBVIOUS
<1>6. PICK good \in BOOLEAN : good <=> SeqBetween(m.ackno, e.lastack + 1, e.snd_nxt)
  BY DEF SeqBetween
<1>7. CASE m.ack /\ good
  <2>1. PICK g : g = [e EXCEPT !.st = "ESTABLISHED"]
    OBVIOUS
  <2>2. Same(e, g, {"st"}) /\ g.st = "ESTABLISHED"
    BY <1>2, <2>1 DEF Sound, IsPcb, PcbFields, Same
  <2>3. PICK f : f = TcpReceive(g, m)
    OBVIOUS
  <2>4. Kept(e, f, p) /\ (f.st = "ESTABLISHED" \/ (f.st = "CLOSE_WAIT" /\ GotFin(f)))
    BY <1>3, <2>2, <2>3, ReceiveIsKept
  <2>5. PICK cwnd : cwnd = IF e.cwnd = 1 THEN 2 * Mss ELSE Mss
    OBVIOUS
  <2>6. PICK i : i = [f EXCEPT !.cwnd = cwnd]
    OBVIOUS
  <2>7. h = PassiveClose(i)
    BY <1>5, <1>6, <1>7, <2>1, <2>3, <2>5, <2>6 DEF SynRcvd
  <2>8. IsPcb(f)
    BY <2>4, Zenon DEF Kept, Before
  <2>9. Same(f, i, {"st", "flags", "cwnd"}) /\ i.st = f.st /\ (Listening(i) <=> Listening(f))
    BY <2>6, <2>8 DEF IsPcb, PcbFields, Same, Listening
  <2>10. Kept(e, i, p) /\ (GotFin(i) <=> GotFin(f))
    BY <2>4, <2>9, KeptOn, Zenon
  <2>11. EndsTheStream(e)
    BY SynsEnd
  <2>12. CASE GotFin(i)
    <3>1. h = [AckNow(i) EXCEPT !.st = "CLOSE_WAIT"]
      BY <2>7, <2>12, Zenon DEF PassiveClose
    <3>2. IsPcb(i)
      BY <2>10, Zenon DEF Kept, Before
    <3>3. Same(i, h, {"st", "flags", "cwnd"}) /\ h.st = "CLOSE_WAIT" /\ (Listening(h) <=> Listening(i))
      BY <3>1, <3>2, StateSet
    <3>4. Kept(e, h, p) /\ GotFin(h)
      BY <2>10, <2>12, <3>3, KeptOn, Zenon
    <3>5. h.st \in Linked /\ ~Over(e) /\ ~Over(h)
      BY <3>3 DEF Linked, Over
    <3>6. h.st # "SYN_RCVD" /\ h.st \notin {"ESTABLISHED", "SYN_RCVD"}
      BY <3>3
    <3>7. Processed(e, h, p)
      BY <1>3, <2>11, <3>4, <3>5, <3>6, KeptProcessed, Zenon
    <3> QED BY <1>5, <3>7
  <2>13. CASE ~GotFin(i)
    <3>1. h = i /\ i.st = "ESTABLISHED"
      BY <2>4, <2>7, <2>9, <2>10, <2>13 DEF PassiveClose
    <3>2. i.st \in Linked /\ ~Over(e) /\ ~Over(i) /\ i.st # "SYN_RCVD" /\ i.st # "CLOSE_WAIT"
      BY <3>1 DEF Linked, Over
    <3>3. Processed(e, i, p)
      BY <1>3, <2>10, <2>13, <3>2, KeptProcessed, Zenon
    <3> QED BY <1>5, <3>1, <3>3
  <2> QED BY <2>12, <2>13
<1>8. CASE m.ack /\ ~good
  <2>1. h = Answer(e, m)
    BY <1>5, <1>6, <1>8 DEF SynRcvd
  <2>2. PICK r \in Sent(e, k) : h = Send(e, r)
    <3>1. Reset(m.ackno, End(m)) \in Sent(e, k)
      BY <1>4, AnswerIsSent, Zenon
    <3> QED BY <2>1, <3>1, Zenon DEF Answer
  <2>3. Calm(e, h, e, k)
    BY <1>1, <1>2, <2>2, SendIsCalm
  <2>4. Calm(e, h, e, Reach(e, p))
    BY <1>1, <2>3, Zenon
  <2> QED BY <1>3, <1>5, <2>4, CalmProcessed, Zenon
<1>9. CASE ~m.ack
  <2>1. h = Rexmit(e) \/ h = e
    BY <1>5, <1>9 DEF SynRcvd
  <2>2. Calm(e, h, e, k)
    <3>1. Calm(e, e, e, k)
      BY <1>2, CalmItself, Zenon
    <3>2. Calm(e, Rexmit(e), e, k)
      <4>1. k \in Nat
        BY <1>1
      <4> QED BY <1>2, <4>1, RexmitKeeps, Zenon
    <3> QED BY <2>1, <3>1, <3>2, Zenon
  <2>3. Calm(e, h, e, Reach(e, p))
    BY <1>1, <2>2, Zenon
  <2> QED BY <1>3, <1>5, <2>3, CalmProcessed, Zenon
<1> QED BY <1>7, <1>8, <1>9

\* tcp_process.
LEMMA ProcessKeeps ==
  ASSUME NEW e, NEW p, Good(e, p), Good(p, e), Living(e),
         e.st \in {"ESTABLISHED", "CLOSE_WAIT"} => EndsTheStream(e), NEW m \in Sent(p, Reach(p, e))
  PROVE  Processed(e, TcpProcess(e, m), p) \/ Ends(e, TcpProcess(e, m), p)
<1>1. PICK k \in Nat : k = Reach(e, p)
  BY GoodParts
<1>2. Sound(e, e, k)
  BY <1>1, Zenon DEF Good
<1>3. PICK h : h = TcpProcess(e, m)
  OBVIOUS
<1>4. ASSUME h = e \/ h = AckNow(e) PROVE Processed(e, h, p)
  <2>1. Calm(e, h, e, k) /\ h.unacked = e.unacked /\ h.snd_wnd = e.snd_wnd
    <3>1. CASE h = e
      BY <1>2, <3>1, CalmItself, Zenon
    <3>2. CASE h = AckNow(e)
      <4>1. IsPcb(e) /\ e.dupacks \in Nat
        BY <1>2 DEF Sound, Numbers
      <4>2. Same(e, h, {"flags"}) /\ (Listening(h) <=> Listening(e))
        BY <3>2, <4>1, AckSame, Zenon
      <4>3. h.unacked = e.unacked /\ h.snd_wnd = e.snd_wnd /\ h.dupacks = e.dupacks
        BY <4>2 DEF Same, PcbFields
      <4>4. Same(e, h, {"timing", "persist", "nrtx", "dupacks", "cwnd", "snd_wnd", "snd_wl1",
                        "snd_wl2", "flags"})
        BY <4>2 DEF Same
      <4>5. "UNREGISTERED" \in h.flags <=> "UNREGISTERED" \in e.flags
        BY <4>2, Zenon DEF Listening
      <4>6. Calm(e, h, e, k)
        BY <1>1, <1>2, <4>1, <4>3, <4>4, <4>5, CountersAreCalm
      <4> QED BY <4>3, <4>6
    <3> QED BY <1>4, <3>1, <3>2
  <2>2. e.st = "SYN_SENT" => e.unacked # <<>>
    BY Zenon DEF Good, Sender, SynWaits
  <2>3. Calm(e, h, e, Reach(e, p))
    BY <1>1, <2>1, Zenon
  <2> QED BY <2>1, <2>2, <2>3, CalmProcessed, Zenon
<1>5. CASE m.rst
  <2>1. h = [e EXCEPT !.recv_flags = {"RESET"}] \/ h = e
    BY <1>3, <1>5 DEF TcpProcess
  <2>2. CASE h = [e EXCEPT !.recv_flags = {"RESET"}]
    <3>1. Same(e, h, {"recv_flags"}) /\ h.recv_flags = {"RESET"}
      BY <1>2, <2>2 DEF Sound, IsPcb, PcbFields, Same
    <3>2. /\ h.written = e.written /\ h.got = e.got /\ h.eof = e.eof /\ h.unsent = e.unsent
          /\ h.unacked = e.unacked /\ h.drv = e.drv /\ h.out = e.out /\ h.snd_nxt = e.snd_nxt
          /\ h.rcv_nxt = e.rcv_nxt /\ h.st = e.st /\ h.flags = e.flags
      BY <3>1 DEF Same, PcbFields
    <3>3. Queues(h, e, Reach(e, p))
      BY <3>2, Zenon DEF Good, Sound, Queues
    <3>4. h.snd_nxt \in Nat /\ h.rcv_nxt \in Nat
      BY <1>2, <3>2 DEF Sound, Numbers
    <3>5. Before(e, h, p)
      BY <3>1, <3>2, <3>3, <3>4, Zenon DEF Before, Same
    <3>6. Listening(h) <=> Listening(e)
      BY <3>2, Zenon DEF Listening
    <3> QED BY <1>3, <3>1, <3>2, <3>5, <3>6, Zenon DEF Ends
  <2> QED BY <1>3, <1>4, <2>1, <2>2
<1>6. CASE ~m.rst
  <2>1. CASE e.st = "SYN_SENT"
    <3>1. h = SynSent(e, m)
      BY <1>3, <1>6, <2>1 DEF TcpProcess
    <3> QED BY <1>3, <1>6, <2>1, <3>1, SynSentKeeps
  <2>2. CASE e.st = "SYN_RCVD"
    <3>1. h = SynRcvd(e, m)
      BY <1>3, <1>6, <2>2 DEF TcpProcess
    <3> QED BY <1>3, <1>6, <2>2, <3>1, SynRcvdKeeps
  <2>3. CASE e.st \notin {"SYN_SENT", "SYN_RCVD"} /\ m.syn
    <3>1. h = AckNow(e)
      BY <1>3, <1>6, <2>3 DEF TcpProcess
    <3> QED BY <1>3, <1>4, <3>1
  <2>4. CASE e.st \notin {"SYN_SENT", "SYN_RCVD"} /\ ~m.syn
    <3>1. h = Connected(e, m)
      BY <1>3, <1>6, <2>4 DEF TcpProcess
    <3>2. e.st \in Linked \ {"SYN_RCVD"}
      <4>1. e.st \in States
        BY Zenon DEF Good, Sender
      <4> QED BY <2>4, <4>1 DEF States, Linked, Living
    <3> QED BY <1>3, <1>6, <3>1, <3>2, ConnectedKeeps, Zenon
  <2> QED BY <2>1, <2>2, <2>3, <2>4
<1> QED BY <1>5, <1>6

-----------------------------------------------------------------------------
(* The callbacks at the end of tcp_input.                                  *)

\* From f to g what was received is handed on.
HandsOn(f, g) ==
  /\ Same(f, g, {"got", "recv_data", "holded", "rcv_wnd", "rcv_ann_wnd", "flags"})
  /\ g.got = f.got \o f.recv_data /\ g.recv_data = <<>> /\ Windows(g) /\ g.holded \in Nat
  /\ Listening(g) <=> Listening(f)

LEMMA EventRecvHands ==
  ASSUME NEW f, IsPcb(f), Windows(f), f.holded \in Nat, f.recv_data \in Seq(Nat)
  PROVE  HandsOn(f, EventRecv(f))
<1>1. PICK n \in Nat : n = Len(f.recv_data)
  BY LenProperties
<1>2. PICK got : got = f.got \o f.recv_data
  OBVIOUS
<1>3. PICK h : h = [f EXCEPT !.got = got, !.recv_data = <<>>]
  OBVIOUS
<1>4. PICK g : g = EventRecv(f)
  OBVIOUS
<1>5. g = IF f.hold THEN [h EXCEPT !.holded = @ + n] ELSE IF n = 0 THEN h ELSE Recved(h, n)
  BY <1>1, <1>2, <1>3, <1>4, Zenon DEF EventRecv
<1>6. /\ Same(f, h, {"got", "recv_data"}) /\ h.got = got /\ h.recv_data = <<>>
      /\ (Listening(h) <=> Listening(f))
  BY <1>3 DEF IsPcb, PcbFields, Same, Listening
<1>7. /\ h.rcv_nxt = f.rcv_nxt /\ h.rcv_ann_right_edge = f.rcv_ann_right_edge
      /\ h.rcv_wnd = f.rcv_wnd /\ h.rcv_ann_wnd = f.rcv_ann_wnd /\ h.holded = f.holded
  BY <1>6 DEF Same, PcbFields
<1>8. Windows(h) /\ IsPcb(h)
  BY <1>6, <1>7 DEF Windows, Same
<1>9. CASE g = [h EXCEPT !.holded = @ + n]
  <2>1. /\ Same(h, g, {"holded"}) /\ g.holded = h.holded + n /\ (Listening(g) <=> Listening(h))
    BY <1>8, <1>9 DEF IsPcb, PcbFields, Same, Listening
  <2>2. /\ g.rcv_nxt = h.rcv_nxt /\ g.rcv_ann_right_edge = h.rcv_ann_right_edge
        /\ g.rcv_wnd = h.rcv_wnd /\ g.rcv_ann_wnd = h.rcv_ann_wnd
        /\ g.got = h.got /\ g.recv_data = h.recv_data
    BY <2>1 DEF Same, PcbFields
  <2>3. Windows(g)
    BY <1>8, <2>2 DEF Windows
  <2>4. Same(f, g, {"got", "recv_data", "holded", "rcv_wnd", "rcv_ann_wnd", "flags"})
    BY <1>6, <2>1 DEF Same
  <2>5. g.holded \in Nat
    BY <1>7, <2>1
  <2> QED BY <1>2, <1>4, <1>6, <2>1, <2>2, <2>3, <2>4, <2>5, Zenon DEF HandsOn
<1>10. CASE g = h
  <2>1. Same(f, g, {"got", "recv_data", "holded", "rcv_wnd", "rcv_ann_wnd", "flags"})
    BY <1>6, <1>10 DEF Same
  <2> QED BY <1>2, <1>4, <1>6, <1>7, <1>8, <1>10, <2>1, Zenon DEF HandsOn
<1>11. CASE g = Recved(h, n)
  <2>1. /\ Same(h, g, {"rcv_wnd", "rcv_ann_wnd", "flags"}) /\ Windows(g)
        /\ Listening(g) <=> Listening(h)
    BY <1>1, <1>8, <1>11, RecvedKeeps
  <2>2. g.got = h.got /\ g.recv_data = h.recv_data /\ g.holded = h.holded
    BY <2>1 DEF Same, PcbFields
  <2>3. Same(f, g, {"got", "recv_data", "holded", "rcv_wnd", "rcv_ann_wnd", "flags"})
    BY <1>6, <2>1 DEF Same
  <2> QED BY <1>2, <1>4, <1>6, <1>7, <2>1, <2>2, <2>3, Zenon DEF HandsOn
<1> QED BY <1>5, <1>9, <1>10, <1>11

LEMMA HandsOnKeeps ==
  ASSUME NEW e, Len(e.got) \in Nat, NEW f, NEW p, Handles(e, f, p), NEW g, HandsOn(f, g)
  PROVE  Handles(e, g, p) /\ g.recv_data = <<>>
<1>1. PICK k \in Nat : k = Reach(f, p)
  BY ReachIs, Zenon DEF Handles
<1>2. Sound(f, e, k)
  BY <1>1, Zenon DEF Handles
<1>3. Same(f, g, {"got", "recv_data", "holded", "rcv_wnd", "rcv_ann_wnd", "flags"})
      /\ g.got = f.got \o f.recv_data /\ g.recv_data = <<>> /\ Windows(g) /\ g.holded \in Nat
      /\ (Listening(g) <=> Listening(f))
  BY Zenon DEF HandsOn
<1>4. /\ g.written = f.written /\ g.eof = f.eof /\ g.st = f.st
      /\ g.recv_flags = f.recv_flags /\ g.ooseq = f.ooseq /\ g.rcv_nxt = f.rcv_nxt
      /\ g.snd_lbb = f.snd_lbb /\ g.snd_nxt = f.snd_nxt /\ g.lastack = f.lastack
      /\ g.dupacks = f.dupacks /\ g.rcv_ann_right_edge = f.rcv_ann_right_edge
  BY <1>3 DEF Same, PcbFields
<1>5. g.unsent = f.unsent /\ g.unacked = f.unacked /\ g.drv = f.drv /\ g.out = f.out
  BY <1>3 DEF Same, PcbFields
<1>6. Sound(g, e, k)
  <2>1. Numbers(f, e, k) /\ Queues(f, e, k)
    BY <1>2, Zenon DEF Sound
  <2>2. /\ g.rcv_wnd \in Nat /\ g.rcv_wnd < 65536 /\ g.rcv_ann_wnd \in Nat /\ g.rcv_ann_wnd < 65536
    BY <1>3, SMT DEF Windows
  <2>3. Numbers(g, e, k)
    BY <1>3, <1>4, <2>1, <2>2 DEF Numbers
  <2>4. Queues(g, e, k)
    BY <1>5, <2>1, Zenon DEF Queues
  <2> QED BY <1>3, <2>3, <2>4, Zenon DEF Sound, Same
<1>7. PICK a \in Seq(Nat) : a = f.got /\ \A i \in 1 .. Len(a) : a[i] = i
  BY Zenon DEF Handles, Stream
<1>8. PICK b \in Seq(Nat) : b = f.recv_data /\ \A i \in 1 .. Len(b) : b[i] = Len(a) + i
  BY <1>7, Zenon DEF Handles, Stream
<1>9. PICK la \in Nat, lb \in Nat : la = Len(a) /\ lb = Len(b)
  BY <1>7, <1>8, LenProperties
<1>10. PICK ab \in Seq(Nat) : ab = g.got /\ ab = a \o b
  BY <1>3, <1>7, <1>8, ConcatProperties
<1>11. /\ Len(ab) = la + lb /\ \A i \in 1 .. la : ab[i] = a[i]
       /\ \A i \in la + 1 .. la + lb : ab[i] = b[i - la]
  <2>1. /\ Len(a \o b) = Len(a) + Len(b)
        /\ \A i \in 1 .. Len(a) + Len(b) :
             (a \o b)[i] = IF i <= Len(a) THEN a[i] ELSE b[i - Len(a)]
    BY ConcatProperties
  <2>2. /\ Len(ab) = la + lb
        /\ \A i \in 1 .. la + lb : ab[i] = IF i <= la THEN a[i] ELSE b[i - la]
    BY <1>9, <1>10, <2>1
  <2> QED BY <2>2, SMTT(30)
<1>12. \A i \in 1 .. Len(ab) : ab[i] = i
  <2>1. TAKE i \in 1 .. Len(ab)
  <2>2. CASE i <= la
    <3>1. i \in 1 .. la
      BY <1>11, <2>2
    <3> QED BY <1>7, <1>9, <1>11, <3>1
  <2>3. CASE ~(i <= la)
    <3>1. i \in la + 1 .. la + lb /\ i - la \in 1 .. lb
      BY <1>11, <2>3
    <3>2. ab[i] = b[i - la] /\ b[i - la] = la + (i - la)
      BY <1>8, <1>9, <1>11, <3>1
    <3> QED BY <3>1, <3>2
  <2> QED BY <2>2, <2>3
<1>13. Taken(f) = la + lb
  BY <1>7, <1>8, <1>9 DEF Taken
<1>14. Taken(g) = la + lb
  <2>1. Len(g.got) = la + lb /\ Len(g.recv_data) = 0
    BY <1>3, <1>10, <1>11
  <2> QED BY <2>1 DEF Taken
<1>15. Taken(g) = Taken(f)
  BY <1>13, <1>14
<1>16. Reach(g, p) = k
  <2>1. Reach(g, p) = Reach(f, p)
    BY <1>15, Zenon DEF Reach
  <2> QED BY <1>1, <2>1
<1>17. Stream(g, p)
  <2>1. p.written \in Nat /\ Taken(g) <= p.written
    BY <1>15, Zenon DEF Handles, Stream
  <2>2. g.eof => Over(p) /\ Len(g.got) = p.written
    <3>1. SUFFICES ASSUME g.eof PROVE Over(p) /\ Len(g.got) = p.written
      OBVIOUS
    <3>2. Over(p) /\ Len(f.got) = p.written
      BY <1>4, <3>1, Zenon DEF Handles, Stream
    <3>3. la = p.written
      BY <1>7, <1>9, <3>2
    <3>4. Len(g.got) = p.written
      BY <1>10, <1>11, <1>14, <2>1, <3>3
    <3> QED BY <3>2, <3>4
  <2>3. g.got \in Seq(Nat) /\ \A i \in 1 .. Len(g.got) : g.got[i] = i
    BY <1>10, <1>12
  <2>4. g.recv_data \in Seq(Nat) /\ \A i \in 1 .. Len(g.recv_data) : g.recv_data[i] = Len(g.got) + i
    BY <1>3
  <2> QED BY <2>1, <2>2, <2>3, <2>4, Zenon DEF Stream
<1>18. Sorted(g, p)
  BY <1>4, Zenon DEF Handles, Sorted
<1>19. Sender(g)
  <2>1. Same(f, g, {"drv", "out", "hold", "holded", "ooseq", "rcv_wnd", "rcv_ann_wnd",
                    "rcv_ann_right_edge", "flags", "eof", "got", "recv_data", "recv_flags"})
    BY <1>3 DEF Same
  <2>2. Sender(f)
    BY Zenon DEF Handles
  <2> QED BY <1>5, <2>1, <2>2, SenderStays
<1>20. Over(g) <=> Over(f)
  BY <1>4, Zenon DEF Over
<1>21. Len(e.got) <= Len(g.got)
  <2>1. Len(e.got) <= la
    BY <1>7, <1>9, Zenon DEF Handles
  <2>2. Len(g.got) = la + lb
    BY <1>10, <1>11
  <2>3. PICK x \in Nat : x = Len(e.got)
    OBVIOUS
  <2> QED BY <2>1, <2>2, <2>3
<1>22. GotFin(g) <=> GotFin(f)
  BY <1>4, Zenon DEF GotFin
<1>23. g.st \in Linked => Placed(g, p)
  <2>1. f.st \in Linked => Placed(f, p)
    BY Zenon DEF Handles
  <2>2. AllTaken(g, p) <=> AllTaken(f, p)
    BY <1>4, <1>15, Zenon DEF AllTaken, HasAll
  <2> QED BY <1>4, <1>15, <1>22, <2>1, <2>2, Zenon DEF Placed
<1>24. g.st = "SYN_SENT" => g.got = <<>> /\ g.recv_data = <<>>
  <2>1. SUFFICES ASSUME g.st = "SYN_SENT" PROVE g.got = <<>>
    BY <1>3
  <2>2. f.got = <<>> /\ f.recv_data = <<>>
    BY <1>4, <2>1, Zenon DEF Handles
  <2> QED BY <1>3, <2>2
<1>25. Living(g) => AllCovered(g, p)
  <2>1. Queued(g) = Queued(f)
    BY <1>5, Zenon DEF Queued
  <2>2. \A i : Covers(f, i) => Covers(g, i)
    BY <2>1, Zenon DEF Covers
  <2>3. Living(g) <=> Living(f)
    BY <1>4, Zenon DEF Living
  <2> QED BY <1>4, <2>2, <2>3, Zenon DEF Handles, AllCovered
<1>26. EndsTheStream(g) <=> EndsTheStream(f)
  BY <1>4, <1>5, Zenon DEF EndsTheStream
<1>27. Sound(g, e, Reach(g, p))
  BY <1>6, <1>16, Zenon
<1>28. g.st = "CLOSE_WAIT" => HasAll(g, p)
  BY <1>4, <1>15, Zenon DEF Handles, HasAll
<1> QED BY <1>3, <1>4, <1>17, <1>18, <1>19, <1>20, <1>21, <1>22, <1>23, <1>24, <1>25, <1>26,
           <1>27, <1>28, Zenon DEF Handles

\* A u16_t.
Word(n) == n \in Nat /\ n < 65536

\* The window gets the place of the FIN back, and the FIN is done with.
LEMMA FinDone ==
  ASSUME NEW e, NEW g, NEW p, Handles(e, g, p), g.recv_data = <<>>,
         NEW f, Same(g, f, {"rcv_wnd", "recv_flags", "eof"}), f.recv_flags = {},
         Word(f.rcv_wnd),
         f.eof => Over(p) /\ Len(g.got) = p.written
  PROVE  /\ Sound(f, e, Reach(f, p)) /\ Stream(f, p) /\ Sorted(f, p) /\ Sender(f)
         /\ f.written = e.written /\ f.recv_data = <<>> /\ f.st = g.st
         /\ f.snd_lbb = g.snd_lbb /\ f.got = g.got
         /\ (Listening(f) <=> Listening(g)) /\ (EndsTheStream(f) <=> EndsTheStream(g))
         /\ g.st \in Linked => Placed(f, p)
         /\ AllCovered(g, p) => AllCovered(f, p)
<1>1. PICK k \in Nat : k = Reach(g, p)
  BY ReachIs, Zenon DEF Handles
<1>2. Sound(g, e, k)
  BY <1>1, Zenon DEF Handles
<1>3. /\ f.written = g.written /\ f.got = g.got /\ f.recv_data = g.recv_data /\ f.st = g.st
      /\ f.ooseq = g.ooseq /\ f.rcv_nxt = g.rcv_nxt /\ f.flags = g.flags
      /\ f.snd_lbb = g.snd_lbb /\ f.rcv_ann_wnd = g.rcv_ann_wnd
  BY DEF Same, PcbFields
<1>4. /\ f.snd_nxt = g.snd_nxt /\ f.lastack = g.lastack /\ f.holded = g.holded
      /\ f.dupacks = g.dupacks /\ f.rcv_ann_right_edge = g.rcv_ann_right_edge
  BY DEF Same, PcbFields
<1>5. f.unsent = g.unsent /\ f.unacked = g.unacked /\ f.drv = g.drv /\ f.out = g.out
  BY DEF Same, PcbFields
<1>6. Sound(f, e, k)
  <2>1. Numbers(g, e, k) /\ Queues(g, e, k)
    BY <1>2, Zenon DEF Sound
  <2>2. Numbers(f, e, k)
    BY <1>3, <1>4, <2>1 DEF Numbers, Word
  <2>3. Queues(f, e, k)
    BY <1>5, <2>1, Zenon DEF Queues
  <2> QED BY <2>2, <2>3, Zenon DEF Sound, Same
<1>7. Taken(f) = Taken(g)
  BY <1>3, Zenon DEF Taken
<1>8. Reach(f, p) = k
  <2>1. Reach(f, p) = Reach(g, p)
    BY <1>7, Zenon DEF Reach
  <2> QED BY <1>1, <2>1
<1>9. Stream(f, p) /\ Sorted(f, p)
  BY <1>3, <1>7, Zenon DEF Handles, Stream, Sorted
<1>10. Sender(f)
  <2>1. Same(g, f, {"drv", "out", "hold", "holded", "ooseq", "rcv_wnd", "rcv_ann_wnd",
                    "rcv_ann_right_edge", "flags", "eof", "got", "recv_data", "recv_flags"})
    BY DEF Same
  <2>2. Sender(g)
    BY Zenon DEF Handles
  <2> QED BY <1>5, <2>1, <2>2, SenderStays
<1>11. (Listening(f) <=> Listening(g)) /\ (EndsTheStream(f) <=> EndsTheStream(g))
  BY <1>3, <1>5, Zenon DEF Listening, EndsTheStream
<1>12. g.st \in Linked => Placed(f, p)
  <2>1. ~GotFin(f)
    BY DEF GotFin
  <2>2. AllTaken(f, p) <=> AllTaken(g, p)
    BY <1>3, <1>7, Zenon DEF AllTaken, HasAll
  <2>3. g.st \in Linked => Placed(g, p)
    BY Zenon DEF Handles
  <2> QED BY <1>3, <1>7, <2>1, <2>2, <2>3, Zenon DEF Placed
<1>13. AllCovered(g, p) => AllCovered(f, p)
  <2>1. Queued(f) = Queued(g)
    BY <1>5, Zenon DEF Queued
  <2>2. \A i : Covers(g, i) => Covers(f, i)
    BY <2>1, Zenon DEF Covers
  <2> QED BY <1>3, <2>2, Zenon DEF AllCovered
<1>14. f.written = e.written /\ f.recv_data = <<>>
  BY <1>3, Zenon DEF Handles
<1>15. Sound(f, e, Reach(f, p))
  BY <1>6, <1>8, Zenon
<1> QED BY <1>3, <1>9, <1>10, <1>11, <1>12, <1>13, <1>14, <1>15

\* A pcb that is as the callbacks leave it.
LEMMA HandlesMoves ==
  ASSUME NEW e, NEW g, NEW p, Handles(e, g, p), g.recv_data = <<>>,
         NEW f, Same(g, f, {"rcv_wnd", "recv_flags"}), f.recv_flags = {},
         Word(f.rcv_wnd)
  PROVE  Moves(e, f, p) /\ f.st \notin {"CLOSED", "LISTEN", "GONE"}
<1>1. Same(g, f, {"rcv_wnd", "recv_flags", "eof"}) /\ f.eof = g.eof
  BY DEF Same, PcbFields
<1>2. f.eof => Over(p) /\ Len(g.got) = p.written
  BY <1>1, Zenon DEF Handles, Stream
<1>3. /\ Sound(f, e, Reach(f, p)) /\ Stream(f, p) /\ Sorted(f, p) /\ Sender(f)
      /\ f.written = e.written /\ f.recv_data = <<>> /\ f.st = g.st
      /\ f.snd_lbb = g.snd_lbb /\ f.got = g.got
      /\ (Listening(f) <=> Listening(g)) /\ (EndsTheStream(f) <=> EndsTheStream(g))
      /\ (g.st \in Linked => Placed(f, p))
      /\ (AllCovered(g, p) => AllCovered(f, p))
  BY <1>1, <1>2, FinDone
<1>4. Settled(f, p)
  <2>1. Living(f) <=> Living(g)
    BY <1>3, Zenon DEF Living
  <2>2. g.st \notin {"CLOSED", "LISTEN", "GONE"}
    BY Zenon DEF Handles
  <2>3. f.st \in {"CLOSED", "LISTEN", "SYN_SENT"} => f.got = <<>>
    <3>1. g.st = "SYN_SENT" => g.got = <<>>
      BY Zenon DEF Handles
    <3> QED BY <1>3, <2>2, <3>1
  <2>4. Listening(g) <=> g.st \notin Shuts
    BY Zenon DEF Handles
  <2>5. Living(g) => AllCovered(g, p)
    BY Zenon DEF Handles
  <2>6. f.st = "CLOSE_WAIT" => HasAll(f, p)
    BY <1>3, Zenon DEF Handles, HasAll, Taken
  <2> QED BY <1>3, <2>1, <2>3, <2>4, <2>5, <2>6, Zenon DEF Settled
<1>5. Over(e) => Over(f)
  BY <1>3, Zenon DEF Handles, Over
<1>6. e.written \in Nat /\ Len(e.got) <= Len(f.got)
  BY <1>3, Zenon DEF Handles
<1>7. Moves(e, f, p)
  BY <1>3, <1>4, <1>5, <1>6, TurnsGood, Zenon
<1>8. f.st \notin {"CLOSED", "LISTEN", "GONE"}
  BY <1>3, Zenon DEF Handles
<1> QED BY <1>7, <1>8

\* TCP_EVENT_CLOSED.
LEMMA EventClosedMoves ==
  ASSUME NEW e, NEW g, NEW p, Stream(e, p), Handles(e, g, p), g.recv_data = <<>>
  PROVE  Moves(e, EventClosed(g), p) /\ EventClosed(g).st \notin {"CLOSED", "LISTEN", "GONE"}
<1>1. IsPcb(g) /\ g.rcv_wnd \in Nat /\ Word(g.rcv_wnd)
  BY DEF Handles, Sound, Numbers, Word
<1>2. g.recv_flags \in {{}, {"GOT_FIN"}}
  BY Zenon DEF Handles
<1>3. CASE ~GotFin(g)
  <2>1. EventClosed(g) = g
    BY <1>3, Zenon DEF EventClosed
  <2>2. g.recv_flags = {}
    BY <1>2, <1>3 DEF GotFin
  <2>3. Same(g, g, {"rcv_wnd", "recv_flags"})
    BY <1>1 DEF Same
  <2> QED BY <1>1, <2>1, <2>2, <2>3, HandlesMoves
<1>4. CASE GotFin(g)
  <2>1. PICK wnd : wnd = IF g.rcv_wnd # TcpWnd THEN U16(g.rcv_wnd + 1) ELSE g.rcv_wnd
    OBVIOUS
  <2>2. Word(wnd)
    <3>1. Word(U16(g.rcv_wnd + 1))
      <4>1. g.rcv_wnd + 1 \in Int
        BY <1>1
      <4>2. U16(g.rcv_wnd + 1) \in Nat /\ U16(g.rcv_wnd + 1) < 65536
        BY <4>1, U16Is
      <4> QED BY <4>2 DEF Word
    <3> QED BY <1>1, <2>1, <3>1
  <2>3. PICK f : f = [g EXCEPT !.rcv_wnd = wnd, !.recv_flags = {}]
    OBVIOUS
  <2>4. Same(g, f, {"rcv_wnd", "recv_flags"}) /\ f.rcv_wnd = wnd /\ f.recv_flags = {}
    BY <1>1, <2>3 DEF IsPcb, PcbFields, Same
  <2>5. Moves(e, f, p) /\ f.st \notin {"CLOSED", "LISTEN", "GONE"}
    BY <2>2, <2>4, HandlesMoves
  <2>6. CASE ~Listening(g)
    <3>1. EventClosed(g) = f
      BY <1>4, <2>1, <2>3, <2>6 DEF EventClosed
    <3> QED BY <2>5, <3>1
  <2>7. CASE Listening(g)
    <3>1. EventClosed(g) = CloseAtEof(f)
      BY <1>4, <2>1, <2>3, <2>7 DEF EventClosed
    <3>2. g.st = "CLOSE_WAIT" /\ EndsTheStream(g)
      BY <1>4, <2>7, Zenon DEF Handles
    <3>3. f.st = g.st /\ f.unsent = g.unsent /\ f.snd_lbb = g.snd_lbb
      BY <2>4 DEF Same, PcbFields
    <3>4. f.st = "CLOSE_WAIT" /\ EndsTheStream(f)
      BY <3>2, <3>3, Zenon DEF EndsTheStream
    <3>5. Good(f, p)
      BY <2>5, Zenon DEF Moves, Steps
    <3>6. Moves(f, CloseAtEof(f), p) /\ CloseAtEof(f).st \notin {"CLOSED", "LISTEN", "GONE"}
      BY <3>4, <3>5, CloseAtEofMoves
    <3>7. Moves(e, CloseAtEof(f), p)
      BY <2>5, <3>6, MovesTwice
    <3> QED BY <3>1, <3>6, <3>7, Zenon
  <2> QED BY <2>6, <2>7
<1> QED BY <1>3, <1>4

\* The end of tcp_input.
LEMMA FinishMoves ==
  ASSUME NEW e, NEW p, Good(e, p), NEW f, Processed(e, f, p) \/ Ends(e, f, p)
  PROVE  Moves(e, Finish(f), p)
<1>1. PICK h : h = Finish(f)
  OBVIOUS
<1>2. Before(e, f, p)
  BY Zenon DEF Processed, Ends
<1>3. /\ f.written = e.written /\ f.got = e.got /\ f.eof = e.eof /\ IsPcb(f)
      /\ f.drv \in Seq(Sent(e, Reach(e, p))) /\ f.out \in Seq(Sent(e, Reach(e, p)))
  BY <1>2, Zenon DEF Before, Queues
<1>4. CASE Ends(e, f, p)
  <2>1. "RESET" \in f.recv_flags \/ "CLOSED" \in f.recv_flags
    BY <1>4 DEF Ends
  <2>2. PICK err : h = Gone(f, err)
    <3>1. h = Fails(f) \/ h = Gone(f, f.err)
      BY <1>1, <2>1 DEF Finish
    <3> QED BY <3>1, Zenon DEF Fails
  <2> QED BY <1>1, <1>3, <2>2, GoneMoves, Zenon
<1>5. CASE Processed(e, f, p)
  <2>1. Handles(e, f, p)
    BY <1>5, Zenon DEF Processed
  <2>2. h = IF f.recv_data # <<>> /\ "RXCLOSED" \in f.flags THEN Abort(f)
            ELSE Output(EventClosed(EventRecv(f)))
    <3>1. f.recv_flags \in {{}, {"GOT_FIN"}}
      BY <2>1, Zenon DEF Handles
    <3>2. /\ "RESET" \notin f.recv_flags /\ "CLOSED" \notin f.recv_flags
          /\ f.recv_flags \cap {"RESET", "CLOSED"} = {}
      BY <3>1
    <3> QED BY <1>1, <3>2 DEF Finish
  <2>3. CASE f.recv_data # <<>> /\ "RXCLOSED" \in f.flags
    <3>1. PICK g : g = IF f.st = "TIME_WAIT" THEN f ELSE Send(f, Reset(f.snd_nxt, f.rcv_nxt))
      OBVIOUS
    <3>2. PICK err : h = Gone(g, err)
      <4>1. h = Abort(f)
        BY <2>2, <2>3
      <4>2. CASE f.st = "TIME_WAIT"
        BY <3>1, <4>1, <4>2 DEF Abort
      <4>3. CASE f.st # "TIME_WAIT"
        <5>1. h = Fails(g)
          BY <3>1, <4>1, <4>3 DEF Abort
        <5> QED BY <5>1, Zenon DEF Fails
      <4> QED BY <4>2, <4>3
    <3>3. /\ g.written = e.written /\ g.got = e.got /\ g.eof = e.eof
          /\ g.drv \in Seq(Sent(e, Reach(e, p))) /\ g.out \in Seq(Sent(e, Reach(e, p)))
      <4>1. CASE g = f
        BY <1>3, <4>1, Zenon
      <4>2. CASE g = Send(f, Reset(f.snd_nxt, f.rcv_nxt))
        <5>1. PICK r : r = Reset(f.snd_nxt, f.rcv_nxt)
          OBVIOUS
        <5>2. r \in Sent(e, Reach(e, p))
          <6>1. f.snd_nxt \in Nat /\ f.rcv_nxt \in Nat
            BY <1>2, Zenon DEF Before
          <6> QED BY <5>1, <6>1, ResetIsSent, Zenon
        <5>3. /\ g.written = f.written /\ g.got = f.got /\ g.eof = f.eof /\ g.drv = f.drv
              /\ g.out = Append(f.out, r)
          BY <1>3, <4>2, <5>1 DEF Send, IsPcb, PcbFields
        <5>4. g.out \in Seq(Sent(e, Reach(e, p)))
          BY <1>3, <5>2, <5>3, AppendKeeps, Zenon
        <5> QED BY <1>3, <5>3, <5>4, Zenon
      <4> QED BY <3>1, <4>1, <4>2
    <3> QED BY <1>1, <3>2, <3>3, GoneMoves, Zenon
  <2>4. CASE ~(f.recv_data # <<>> /\ "RXCLOSED" \in f.flags)
    <3>1. PICK g : g = EventRecv(f)
      OBVIOUS
    <3>2. PICK i : i = EventClosed(g)
      OBVIOUS
    <3>3. h = Output(i)
      BY <2>2, <2>4, <3>1, <3>2
    <3>4. HandsOn(f, g)
      <4>1. Windows(f) /\ f.holded \in Nat
        BY <2>1 DEF Handles, Sound, Numbers, Windows
      <4>2. f.recv_data \in Seq(Nat)
        BY <2>1, Zenon DEF Handles, Stream
      <4> QED BY <1>3, <3>1, <4>1, <4>2, EventRecvHands, Zenon
    <3>5. Handles(e, g, p) /\ g.recv_data = <<>>
      <4>1. Len(e.got) \in Nat
        BY LenProperties DEF Good, Stream
      <4> QED BY <2>1, <3>4, <4>1, HandsOnKeeps, Zenon
    <3>6. Moves(e, i, p) /\ i.st \notin {"CLOSED", "LISTEN", "GONE"}
      BY <3>2, <3>5, EventClosedMoves DEF Good
    <3>7. Moves(i, h, p)
      <4>1. Good(i, p)
        BY <3>6, Zenon DEF Moves, Steps
      <4> QED BY <3>3, <3>6, <4>1, PollMoves, Zenon
    <3> QED BY <1>1, <3>6, <3>7, MovesTwice, Zenon DEF Good
  <2> QED BY <2>3, <2>4
<1> QED BY <1>4, <1>5

-----------------------------------------------------------------------------
(* tcp_input.                                                              *)

LEMMA MovesNowhere ==
  ASSUME NEW e, NEW p, Good(e, p)
  PROVE  Moves(e, e, p)
<1>1. IsPcb(e)
  BY GoodParts
<1>2. Same(e, e, {"flags"})
  BY <1>1 DEF Same
<1> QED BY <1>2, FlagsStep

\* A reset is sent.
LEMMA ResetMoves ==
  ASSUME NEW e, NEW p, Good(e, p), NEW r \in Sent(e, Reach(e, p))
  PROVE  Moves(e, Send(e, r), p)
<1>1. PICK f : f = Send(e, r)
  OBVIOUS
<1>2. IsPcb(e) /\ Windows(e) /\ e.holded \in Nat /\ Reach(e, p) \in Nat
      /\ e.drv \in Seq(Sent(e, Reach(e, p))) /\ e.out \in Seq(Sent(e, Reach(e, p)))
  BY GoodParts
<1>3. Same(e, f, {"out"}) /\ f.out = Append(e.out, r) /\ (Listening(f) <=> Listening(e))
  BY <1>1, <1>2 DEF Send, IsPcb, PcbFields, Same, Listening
<1>4. /\ f.rcv_nxt = e.rcv_nxt /\ f.rcv_ann_right_edge = e.rcv_ann_right_edge
      /\ f.rcv_wnd = e.rcv_wnd /\ f.rcv_ann_wnd = e.rcv_ann_wnd /\ f.holded = e.holded
      /\ f.drv = e.drv /\ f.ooseq = e.ooseq
  BY <1>3 DEF Same, PcbFields
<1>5. Windows(f)
  BY <1>2, <1>4 DEF Windows
<1>6. f.out \in Seq(Sent(e, Reach(e, p)))
  <2>1. PICK S : S = Sent(e, Reach(e, p))
    OBVIOUS
  <2>2. e.out \in Seq(S) /\ r \in S
    BY <1>2, <2>1
  <2>3. Append(e.out, r) \in Seq(S)
    BY <2>2, AppendKeeps, Zenon
  <2> QED BY <1>3, <2>1, <2>3
<1>7. Sorted(f, p)
  BY <1>4, Zenon DEF Good, Sorted
<1>8. Same(e, f, Aside)
  BY <1>3 DEF Same, Aside
<1> QED BY <1>1, <1>2, <1>3, <1>4, <1>5, <1>6, <1>7, <1>8, AsideMoves, Zenon

\* An end that has no pcb for the segment.
LEMMA AnswerMoves ==
  ASSUME NEW e, NEW p, Good(e, p), NEW m \in Datagram
  PROVE  /\ Moves(e, Answer(e, m), p) /\ Moves(e, NoPcb(e, m), p)
         /\ Moves(e, Send(e, Reset(m.ackno + 1, End(m))), p)
<1>1. /\ Reset(m.ackno, End(m)) \in Sent(e, Reach(e, p))
      /\ Reset(m.ackno + 1, End(m)) \in Sent(e, Reach(e, p))
  BY AnswerIsSent, Zenon
<1>2. Moves(e, Answer(e, m), p)
  BY <1>1, ResetMoves, Zenon DEF Answer
<1>3. Moves(e, Send(e, Reset(m.ackno + 1, End(m))), p)
  BY <1>1, ResetMoves, Zenon
<1>4. Moves(e, NoPcb(e, m), p)
  BY <1>2, MovesNowhere, Zenon DEF NoPcb
<1> QED BY <1>2, <1>3, <1>4

\* tcp_timewait_input.
LEMMA TimeWaitInputMoves ==
  ASSUME NEW e, NEW p, Good(e, p), e.st = "TIME_WAIT", NEW m \in Datagram
  PROVE  Moves(e, TimeWaitInput(e, m), p)
<1>1. PICK h : h = TimeWaitInput(e, m)
  OBVIOUS
<1>2. h = e \/ h = Answer(e, m) \/ h = Output(AckNow(e))
  BY <1>1 DEF TimeWaitInput
<1>3. Moves(e, e, p) /\ Moves(e, Answer(e, m), p)
  BY MovesNowhere, AnswerMoves
<1>4. Moves(e, Output(AckNow(e)), p)
  <2>1. PICK f : f = AckNow(e)
    OBVIOUS
  <2>2. IsPcb(e)
    BY GoodParts
  <2>3. Same(e, f, {"flags"}) /\ (Listening(f) <=> Listening(e))
    BY <2>1, <2>2, AckSame, Zenon
  <2>4. f.st = e.st
    BY <2>3 DEF Same, PcbFields
  <2>5. Moves(e, f, p)
    BY <2>3, FlagsStep, Zenon
  <2>6. Moves(f, Output(f), p)
    <3>1. Good(f, p) /\ f.st \notin {"CLOSED", "LISTEN", "GONE"}
      BY <2>4, <2>5 DEF Moves, Steps
    <3> QED BY <3>1, PollMoves
  <2>7. Stream(e, p)
    BY Zenon DEF Good
  <2> QED BY <2>1, <2>5, <2>6, <2>7, MovesTwice, Zenon
<1> QED BY <1>1, <1>2, <1>3, <1>4, Zenon

\* A SYN reaches a listening pcb.
LEMMA AcceptMoves ==
  ASSUME NEW e, NEW p, Good(e, p), e.st = "LISTEN", NEW m \in Datagram, Genuine(m, p), m.syn
  PROVE  Moves(e, Output(EnqueueFlags(
                    [e EXCEPT !.st = "SYN_RCVD", !.rcv_nxt = m.seq + 1,
                              !.rcv_ann_right_edge = m.seq + 1, !.snd_wnd = m.wnd,
                              !.snd_wl1 = m.seq - 1], TRUE, FALSE)), p)
<1>1. PICK k \in Nat : k = Reach(e, p)
  BY GoodParts
<1>2. /\ e.unsent = <<>> /\ e.unacked = <<>> /\ e.drv = <<>> /\ e.snd_lbb = 0 /\ e.lastack = 0
      /\ e.snd_nxt = 0 /\ e.written = 0 /\ e.got = <<>> /\ e.recv_data = <<>> /\ e.recv_flags = {}
  BY Zenon DEF Good, Sender
<1>3. m.seq = 0
  BY Zenon DEF Genuine
<1>4. PICK wl1 : wl1 = m.seq - 1
  OBVIOUS
<1>5. PICK f : f = [e EXCEPT !.st = "SYN_RCVD", !.rcv_nxt = 1, !.rcv_ann_right_edge = 1,
                             !.snd_wnd = m.wnd, !.snd_wl1 = wl1]
  OBVIOUS
<1>30. f = [e EXCEPT !.st = "SYN_RCVD", !.rcv_nxt = m.seq + 1,
                     !.rcv_ann_right_edge = m.seq + 1, !.snd_wnd = m.wnd,
                     !.snd_wl1 = m.seq - 1]
  <2>1. m.seq + 1 = 1
    BY <1>3
  <2> QED BY <1>4, <1>5, <2>1
<1>6. /\ f.st = "SYN_RCVD" /\ f.rcv_nxt = 1 /\ f.rcv_ann_right_edge = 1
      /\ Same(e, f, {"st", "rcv_nxt", "rcv_ann_right_edge", "snd_wnd", "snd_wl1"})
  BY <1>5, GoodParts DEF IsPcb, PcbFields, Same
<1>7. /\ f.unsent = <<>> /\ f.unacked = <<>> /\ f.drv = <<>> /\ f.snd_lbb = 0 /\ f.lastack = 0
      /\ f.written = 0 /\ f.snd_nxt = 0 /\ f.got = e.got /\ f.recv_data = e.recv_data
      /\ f.recv_flags = e.recv_flags /\ f.eof = e.eof /\ f.ooseq = e.ooseq
  BY <1>2, <1>6 DEF Same, PcbFields
<1>8. Listening(f) <=> Listening(e)
  BY <1>6 DEF Same, PcbFields, Listening
<1>9. 1 <= k
  <2>1. Stream(e, p)
    BY Zenon DEF Good
  <2> QED BY <1>1, <2>1, ReachIs
<1>10. Sound(f, e, k)
  <2>1. Numbers(e, e, k) /\ Queues(e, e, k)
    BY <1>1, Zenon DEF Good, Sound
  <2>2. Numbers(f, e, k)
    <3>1. /\ f.dupacks = e.dupacks /\ f.holded = e.holded
          /\ f.rcv_wnd = e.rcv_wnd /\ f.rcv_ann_wnd = e.rcv_ann_wnd
      BY <1>6 DEF Same, PcbFields
    <3> QED BY <1>2, <1>6, <1>7, <1>9, <2>1, <3>1 DEF Numbers
  <2>3. Queues(f, e, k)
    BY <1>6, <2>1 DEF Same, PcbFields, Queues
  <2> QED BY <1>6, <2>2, <2>3 DEF Same, Sound
<1>11. PICK yes, no \in BOOLEAN : yes = TRUE /\ no = FALSE
  OBVIOUS
<1>12. PICK g : g = EnqueueFlags(f, yes, no)
  OBVIOUS
<1>13. Grows(e, e)
  BY <1>2 DEF Grows
<1>14. /\ Enqueues(f, g, e, k) /\ g.snd_lbb = f.snd_lbb + 1
       /\ Queued(g) = Queued(f) \cup {Seg(f.snd_lbb, <<>>, yes, no)}
  <2>1. yes # no /\ f.snd_lbb = 0 /\ ~no
    BY <1>7, <1>11
  <2>2. /\ Enqueues(f, EnqueueFlags(f, yes, no), e, k)
        /\ EnqueueFlags(f, yes, no).snd_lbb = f.snd_lbb + 1
        /\ Queued(EnqueueFlags(f, yes, no)) = Queued(f) \cup {Seg(f.snd_lbb, <<>>, yes, no)}
    BY <1>10, <1>13, <2>1, EnqueueFlagsKeeps
  <2> QED BY <1>12, <2>2, Zenon
<1>15. PICK s : s = Seg(f.snd_lbb, <<>>, yes, no)
  OBVIOUS
<1>16. s.syn
  BY <1>11, <1>15 DEF Seg
<1>17. Sound(g, e, k) /\ SameCore(f, g) /\ SameRcv(f, g)
  BY <1>14, Zenon DEF Enqueues
<1>18. PICK h : h = Output(g)
  OBVIOUS
<1>19. Calm(g, h, e, k)
  BY <1>17, <1>18, OutputKeeps, Zenon
<1>20. Sound(h, e, k) /\ SameCore(g, h) /\ SameRcv(g, h) /\ h.snd_lbb = 1 /\ Queued(h) = {s}
  <2>1. Queued(f) = {}
    BY <1>7 DEF Queued, Range
  <2>2. Queued(g) = {s} /\ g.snd_lbb = 1
    BY <1>7, <1>14, <1>15, <2>1
  <2> QED BY <1>19, <2>2, Zenon DEF Calm, Quiet
<1>21. /\ h.st = "SYN_RCVD" /\ h.written = 0 /\ h.got = <<>> /\ h.eof = e.eof
       /\ h.recv_data = <<>> /\ h.recv_flags = {} /\ h.ooseq = e.ooseq /\ h.rcv_nxt = 1
       /\ (Listening(h) <=> Listening(e))
  BY <1>2, <1>6, <1>7, <1>8, <1>17, <1>20, Zenon DEF SameCore, SameRcv
<1>22. Taken(h) = Taken(e) /\ Taken(h) = 0
  BY <1>2, <1>21 DEF Taken
<1>23. Stream(h, p) /\ Sorted(h, p)
  <2>1. h.got = e.got /\ h.recv_data = e.recv_data
    BY <1>2, <1>21
  <2>2. Taken(h) = Taken(e)
    BY <2>1, Zenon DEF Taken
  <2>3. h.eof = e.eof /\ h.ooseq = e.ooseq
    BY <1>21
  <2>4. Stream(e, p) /\ Sorted(e, p)
    BY Zenon DEF Good
  <2> QED BY <2>1, <2>2, <2>3, <2>4 DEF Stream, Sorted
<1>24. Reach(h, p) = k
  <2>1. Reach(h, p) = Reach(e, p)
    BY <1>22, Zenon DEF Reach
  <2> QED BY <1>1, <2>1
<1>25. ~Over(h) /\ ~Over(e)
  BY <1>21 DEF Over
<1>26. Sender(h)
  BY <1>16, <1>20, <1>21, <1>25 DEF Sender, States
<1>27. Placed(h, p)
  <2>1. h.rcv_nxt = Taken(h) + 1 /\ ~GotFin(h)
    BY <1>21, <1>22 DEF GotFin
  <2> QED BY <2>1, Zenon DEF Placed
<1>28. Settled(h, p)
  <2>1. h.st \notin Shuts /\ e.st \notin Shuts /\ h.st # "CLOSE_WAIT"
        /\ h.st \notin {"CLOSED", "LISTEN", "SYN_SENT"}
    BY <1>21 DEF Shuts
  <2>2. Listening(h)
    BY <1>21, <2>1, Zenon DEF Good
  <2>3. AllCovered(h, p)
    BY <1>21 DEF AllCovered
  <2> QED BY <1>21, <1>23, <1>26, <1>27, <2>1, <2>2, <2>3, Zenon DEF Settled
<1>29. Moves(e, h, p)
  <2>1. Sound(h, e, Reach(h, p))
    BY <1>20, <1>24, Zenon
  <2>2. h.got = e.got
    BY <1>2, <1>21
  <2>3. Len(e.got) <= Len(h.got)
    BY <2>2, NoLonger, Zenon DEF Good
  <2>4. e.written \in Nat /\ h.written = e.written
    BY <1>2, <1>21
  <2> QED BY <1>23, <1>25, <1>28, <2>1, <2>3, <2>4, TurnsGood, Zenon
<1>31. h = Output(EnqueueFlags(f, TRUE, FALSE))
  BY <1>11, <1>12, <1>18
<1> QED BY <1>29, <1>30, <1>31

\* tcp_listen_input.
LEMMA ListenInputMoves ==
  ASSUME NEW e, NEW p, Good(e, p), e.st \in {"LISTEN", "GONE"},
         NEW m \in Datagram, Genuine(m, p)
  PROVE  Moves(e, ListenInput(e, m), p)
<1>1. PICK h : h = ListenInput(e, m)
  OBVIOUS
<1>2. CASE m.ack
  <2>1. h = Send(e, Reset(m.ackno + 1, End(m)))
    BY <1>1, <1>2 DEF ListenInput
  <2> QED BY <1>1, <2>1, AnswerMoves, Zenon
<1>3. CASE ~m.ack /\ m.syn /\ e.st = "LISTEN"
  <2>1. h = Output(EnqueueFlags(
                    [e EXCEPT !.st = "SYN_RCVD", !.rcv_nxt = m.seq + 1,
                              !.rcv_ann_right_edge = m.seq + 1, !.snd_wnd = m.wnd,
                              !.snd_wl1 = m.seq - 1], TRUE, FALSE))
    BY <1>1, <1>3 DEF ListenInput
  <2> QED BY <1>1, <1>3, <2>1, AcceptMoves, Zenon
<1>4. CASE ~m.ack /\ ~(m.syn /\ e.st = "LISTEN")
  <2>1. h = e
    BY <1>1, <1>4 DEF ListenInput
  <2> QED BY <1>1, <2>1, MovesNowhere, Zenon
<1> QED BY <1>2, <1>3, <1>4

\* tcp_input.
LEMMA InputMoves ==
  ASSUME NEW e, NEW p, Good(e, p), Good(p, e),
         e.st \in {"ESTABLISHED", "CLOSE_WAIT"} => EndsTheStream(e),
         NEW m \in Sent(p, Reach(p, e))
  PROVE  Moves(e, TcpInputSegment(e, m), p)
<1>1. PICK h : h = TcpInputSegment(e, m)
  OBVIOUS
<1>2. m \in Datagram /\ Genuine(m, p)
  BY Zenon DEF Sent
<1>3. CASE e.st \in {"LISTEN", "GONE"}
  <2>1. h = ListenInput(e, m) \/ h = NoPcb(e, m)
    BY <1>1, <1>3 DEF TcpInputSegment
  <2>2. Moves(e, ListenInput(e, m), p) /\ Moves(e, NoPcb(e, m), p)
    BY <1>2, <1>3, ListenInputMoves, AnswerMoves
  <2> QED BY <1>1, <2>1, <2>2, Zenon
<1>4. CASE e.st = "CLOSED"
  <2>1. h = NoPcb(e, m)
    BY <1>1, <1>4 DEF TcpInputSegment
  <2> QED BY <1>1, <1>2, <2>1, AnswerMoves, Zenon
<1>5. CASE e.st = "TIME_WAIT"
  <2>1. h = TimeWaitInput(e, m)
    BY <1>1, <1>5 DEF TcpInputSegment
  <2> QED BY <1>1, <1>2, <1>5, <2>1, TimeWaitInputMoves, Zenon
<1>6. CASE e.st \notin {"LISTEN", "GONE", "CLOSED", "TIME_WAIT"}
  <2>1. h = Finish(TcpProcess(e, m))
    BY <1>1, <1>6 DEF TcpInputSegment
  <2>2. Living(e)
    BY <1>6 DEF Living
  <2>3. Processed(e, TcpProcess(e, m), p) \/ Ends(e, TcpProcess(e, m), p)
    BY <2>2, ProcessKeeps
  <2> QED BY <1>1, <2>1, <2>3, FinishMoves, Zenon
<1> QED BY <1>3, <1>4, <1>5, <1>6

-----------------------------------------------------------------------------
(* The two ends together.                                                  *)

\* How far p may acknowledge grows with the stream of e.
LEMMA ReachOfPeerGrows ==
  ASSUME NEW p, NEW e, NEW f, Stream(p, e), Grows(e, f)
  PROVE  Reach(p, e) <= Reach(p, f) /\ Reach(p, e) \in Nat /\ Reach(p, f) \in Nat
<1>1. PICK n \in Nat : n = Taken(p)
  BY ReachIs
<1>2. PICK w \in Nat : w = e.written
  BY ReachIs
<1>3. PICK v \in Nat : v = f.written
  BY DEF Grows
<1>4. PICK b \in BOOLEAN : b = (Over(e) /\ n = w)
  OBVIOUS
<1>5. PICK c \in BOOLEAN : c = (Over(f) /\ n = v)
  OBVIOUS
<1>6. Reach(p, e) = IF b THEN w + 2 ELSE n + 1
  BY <1>1, <1>2, <1>4, Zenon DEF Reach
<1>7. Reach(p, f) = IF c THEN v + 2 ELSE n + 1
  BY <1>1, <1>3, <1>5, Zenon DEF Reach
<1>8. n <= w /\ w <= v
  BY <1>1, <1>2, <1>3 DEF Stream, Grows
<1>9. b => c /\ v = w
  BY <1>2, <1>3, <1>4, <1>5, Zenon DEF Grows
<1> QED BY <1>6, <1>7, <1>8, <1>9

\* The stream that p takes from grows.
LEMMA WaitingGrow ==
  ASSUME NEW e, NEW f, Grows(e, f)
  PROVE  Waiting(e) \subseteq Waiting(f)
<1> SUFFICES ASSUME NEW s \in Waiting(e) PROVE s \in Waiting(f)
  OBVIOUS
<1>1. s \in Segment /\ ~s.syn /\ InStream(s, e)
  BY DEF Waiting
<1>2. s.seq \in Nat /\ Len(s.data) \in Nat
  BY <1>1 DEF Segment
<1>3. InStream(s, f)
  BY <1>1, <1>2, GrowingKeeps
<1> QED BY <1>1, <1>3, Zenon DEF Waiting

LEMMA StreamGrows ==
  ASSUME NEW p, NEW e, NEW f, Stream(p, e), Grows(e, f)
  PROVE  Stream(p, f)
<1>1. PICK n \in Nat : n = Taken(p)
  BY ReachIs
<1>2. PICK w \in Nat : w = e.written
  BY ReachIs
<1>3. PICK v \in Nat : v = f.written
  BY DEF Grows
<1>4. Taken(p) <= f.written
  <2>1. n <= w /\ w <= v
    BY <1>1, <1>2, <1>3 DEF Stream, Grows
  <2> QED BY <1>1, <1>3, <2>1
<1>5. p.eof => Over(f) /\ Len(p.got) = f.written
  BY Zenon DEF Stream, Grows
<1>6. f.written \in Nat
  BY <1>3
<1> QED BY <1>4, <1>5, <1>6, Zenon DEF Stream

\* A step of e leaves what p is.
LEMMA PeerKeeps ==
  ASSUME NEW p, NEW e, Good(p, e), NEW f, Grows(e, f),
         Len(e.got) \in Nat, Len(f.got) \in Nat, Len(e.got) <= Len(f.got)
  PROVE  Good(p, f)
<1>1. Stream(p, e)
  BY Zenon DEF Good
<1>2. Sound(p, p, Reach(p, f))
  <2>1. Reach(p, e) <= Reach(p, f) /\ Reach(p, e) \in Nat /\ Reach(p, f) \in Nat
    BY <1>1, ReachOfPeerGrows
  <2>2. p.written \in Nat
    BY GoodParts
  <2>3. Grows(p, p)
    BY <2>2, GrowsItself
  <2>4. Sound(p, p, Reach(p, e))
    BY Zenon DEF Good
  <2> QED BY <2>1, <2>3, <2>4, SoundGrows
<1>3. Stream(p, f)
  BY <1>1, StreamGrows
<1>4. Sorted(p, f)
  <2>1. p.ooseq \in Seq(Waiting(e)) /\ FinLast(p.ooseq)
    BY Zenon DEF Good, Sorted
  <2>2. Waiting(e) \subseteq Waiting(f)
    BY WaitingGrow
  <2>3. p.ooseq \in Seq(Waiting(f))
    BY <2>1, <2>2, SeqGrow
  <2> QED BY <2>1, <2>3, Zenon DEF Sorted
<1>5. ASSUME Placed(p, e) PROVE Placed(p, f)
  <2>1. AllTaken(p, e) => AllTaken(p, f)
    BY Zenon DEF AllTaken, HasAll, Grows
  <2> QED BY <1>5, <2>1, Zenon DEF Placed
<1>7. HasAll(p, e) => HasAll(p, f)
  BY Zenon DEF HasAll, Grows
<1>6. ASSUME AllCovered(p, e) PROVE AllCovered(p, f)
  <2>1. PICK w \in Nat : w = p.written
    BY GoodParts
  <2>2. PICK m \in Nat : m = Len(e.got)
    OBVIOUS
  <2>3. PICK n \in Nat : n = Len(f.got)
    OBVIOUS
  <2>4. m <= n
    BY <2>2, <2>3
  <2>5. \A i \in 1 .. w : i > m => Covers(p, i)
    BY <1>6, <2>1, <2>2, Zenon DEF AllCovered
  <2>6. \A i \in 1 .. w : i > n => Covers(p, i)
    BY <2>4, <2>5
  <2> QED BY <2>1, <2>3, <2>6, Zenon DEF AllCovered
<1> QED BY <1>2, <1>3, <1>4, <1>5, <1>6, <1>7, Zenon DEF Good

-----------------------------------------------------------------------------
(* The network.                                                            *)

\* The inductive invariant: each end is good with respect to the other, and
\* only what it could have sent is on the way from it.
OnTheWay(h) == net[h] \subseteq Sent(pcb[Peer(h)], Reach(pcb[Peer(h)], pcb[h]))
Connection ==
  /\ DOMAIN pcb = Hosts /\ DOMAIN net = Hosts
  /\ \A h \in Hosts : Good(pcb[h], pcb[Peer(h)]) /\ pcb[h].out = <<>> /\ OnTheWay(h)

LEMMA PeersDiffer ==
  ASSUME NEW h \in Hosts
  PROVE  Peer(h) \in Hosts /\ Peer(h) # h /\ Peer(Peer(h)) = h /\ Hosts = {h, Peer(h)}
  BY HostsAssumption DEF Hosts, Peer

LEMMA CarriedIs ==
  ASSUME NEW S, NEW h, NEW air, air \subseteq S, NEW ms \in Seq(S)
  PROVE  Carried(h, air, ms) \subseteq S
<1>1. \A j \in DOMAIN ms : ms[j] \in S
  BY ElementOfSeq, LenProperties
<1> QED BY <1>1, Zenon DEF Carried

LEMMA NoBytes ==
  ASSUME NEW e, NEW p, Good(e, p)
  PROVE  Len(e.got) \in Nat /\ Taken(e) = Len(e.got)
<1>1. e.got \in Seq(Nat) /\ e.recv_data = <<>>
  BY Zenon DEF Good, Stream
<1>2. Len(e.recv_data) = 0
  BY <1>1
<1>3. Len(e.got) \in Nat
  BY <1>1, LenProperties
<1> QED BY <1>2, <1>3 DEF Taken

\* What e hands to the driver is taken from its pcb.
LEMMA HandedOver ==
  ASSUME NEW e, NEW f, NEW p, Good(e, p), Steps(e, f, p),
         NEW g, g = [f EXCEPT !.out = <<>>]
  PROVE  /\ Steps(e, g, p) /\ g.out = <<>>
         /\ Sent(e, Reach(e, p)) \subseteq Sent(g, Reach(g, p))
         /\ f.out \in Seq(Sent(g, Reach(g, p)))
<1>1. Good(f, p)
  BY Zenon DEF Moves, Steps
<1>2. /\ IsPcb(f) /\ Windows(f) /\ f.holded \in Nat
      /\ f.drv \in Seq(Sent(f, Reach(f, p))) /\ f.out \in Seq(Sent(f, Reach(f, p)))
      /\ Reach(f, p) \in Nat
  BY <1>1, GoodParts
<1>3. Same(f, g, {"out"}) /\ g.out = <<>>
  BY <1>2 DEF IsPcb, PcbFields, Same
<1>4. /\ g.st = f.st /\ g.drv = f.drv /\ g.holded = f.holded /\ g.ooseq = f.ooseq
      /\ g.listens = f.listens
  BY <1>3 DEF Same, PcbFields
<1>5. /\ g.rcv_nxt = f.rcv_nxt /\ g.rcv_wnd = f.rcv_wnd /\ g.rcv_ann_wnd = f.rcv_ann_wnd
      /\ g.rcv_ann_right_edge = f.rcv_ann_right_edge /\ g.flags = f.flags
  BY <1>3 DEF Same, PcbFields
<1>6. Moves(f, g, p)
  <2>1. Same(f, g, Aside)
    BY <1>3 DEF Same, Aside
  <2>2. Listening(g) <=> Listening(f)
    BY <1>4, <1>5, Zenon DEF Listening
  <2>3. Windows(g)
    BY <1>2, <1>5, SMT DEF Windows
  <2>4. Sorted(g, p)
    BY <1>1, <1>4, Zenon DEF Good, Sorted
  <2>5. g.drv \in Seq(Sent(f, Reach(f, p))) /\ g.holded \in Nat
    BY <1>2, <1>4
  <2>6. <<>> \in Seq(Sent(f, Reach(f, p)))
    OBVIOUS
  <2>7. g.out \in Seq(Sent(f, Reach(f, p)))
    BY <1>3, <2>6
  <2> QED BY <1>1, <1>4, <2>1, <2>2, <2>3, <2>4, <2>5, <2>7, AsideMoves
<1>7. Steps(e, g, p)
  <2>1. Stream(e, p)
    BY Zenon DEF Good
  <2> QED BY <1>6, <2>1, StepsMoves
<1>8. Sent(e, Reach(e, p)) \subseteq Sent(g, Reach(g, p))
  <2>1. Grows(e, g) /\ Good(g, p) /\ Len(e.got) <= Len(g.got)
    BY <1>7, Zenon DEF Moves, Steps
  <2>2. Stream(e, p) /\ Stream(g, p)
    BY <2>1, Zenon DEF Good
  <2>3. Taken(e) <= Taken(g)
    BY <2>1, NoBytes
  <2>4. Reach(e, p) <= Reach(g, p) /\ Reach(e, p) \in Nat /\ Reach(g, p) \in Nat
    BY <2>2, <2>3, ReachGrows, ReachIs
  <2> QED BY <2>1, <2>4, SentGrow
<1>9. f.out \in Seq(Sent(g, Reach(g, p)))
  <2>1. Grows(f, g) /\ Good(g, p) /\ Len(f.got) <= Len(g.got)
    BY <1>6, Zenon DEF Moves, Steps
  <2>2. Stream(f, p) /\ Stream(g, p)
    BY <1>1, <2>1, Zenon DEF Good
  <2>3. Taken(f) <= Taken(g)
    BY <1>1, <2>1, NoBytes
  <2>4. Reach(f, p) <= Reach(g, p) /\ Reach(f, p) \in Nat /\ Reach(g, p) \in Nat
    BY <2>2, <2>3, ReachGrows, ReachIs
  <2>5. Sent(f, Reach(f, p)) \subseteq Sent(g, Reach(g, p))
    BY <2>1, <2>4, SentGrow
  <2> QED BY <1>2, <2>5, SeqGrow
<1> QED BY <1>3, <1>7, <1>8, <1>9

\* A step of one host keeps the invariant.
LEMMA DoesKeeps ==
  ASSUME Connection, NEW h \in Hosts, NEW f, NEW m, Steps(pcb[h], f, pcb[Peer(h)]),
         Does(h, f, m)
  PROVE  Connection'
<1>1. PICK q : q = Peer(h)
  OBVIOUS
<1>2. q \in Hosts /\ q # h /\ Peer(q) = h /\ Peer(h) = q /\ Hosts = {h, q}
  BY <1>1, PeersDiffer
<1>3. PICK e : e = pcb[h]
  OBVIOUS
<1>4. PICK p : p = pcb[q]
  OBVIOUS
<1>5. PICK g : g = [f EXCEPT !.out = <<>>]
  OBVIOUS
<1>6. Good(e, p) /\ Good(p, e) /\ p.out = <<>> /\ Steps(e, f, p)
  BY <1>2, <1>3, <1>4, Zenon DEF Connection
<1>7. /\ Steps(e, g, p) /\ g.out = <<>>
      /\ Sent(e, Reach(e, p)) \subseteq Sent(g, Reach(g, p))
      /\ f.out \in Seq(Sent(g, Reach(g, p)))
  BY <1>5, <1>6, HandedOver
<1>8. Good(g, p) /\ Grows(e, g) /\ Len(e.got) <= Len(g.got)
  BY <1>7, Zenon DEF Moves, Steps
<1>9. Good(p, g)
  BY <1>6, <1>8, NoBytes, PeerKeeps
<1>10. DOMAIN pcb = Hosts /\ DOMAIN net = Hosts
  BY Zenon DEF Connection
<1>11. pcb' = [pcb EXCEPT ![h] = g] /\ DOMAIN pcb' = Hosts /\ pcb'[h] = g /\ pcb'[q] = p
  BY <1>2, <1>4, <1>5, <1>10 DEF Does
<1>12. /\ DOMAIN net' = Hosts /\ net'[h] = net[h] \ m
       /\ net'[q] = Carried(q, net[q], f.out)
  BY <1>2, <1>10 DEF Does
<1>13. net'[h] \subseteq Sent(p, Reach(p, g))
  <2>1. net[h] \subseteq Sent(p, Reach(p, e))
    BY <1>2, <1>3, <1>4, Zenon DEF Connection, OnTheWay
  <2>2. Reach(p, e) <= Reach(p, g) /\ Reach(p, e) \in Nat /\ Reach(p, g) \in Nat
    <3>1. Stream(p, e)
      BY <1>6, Zenon DEF Good
    <3> QED BY <1>8, <3>1, ReachOfPeerGrows
  <2>3. Grows(p, p)
    BY <1>6, GoodParts, GrowsItself
  <2>4. Sent(p, Reach(p, e)) \subseteq Sent(p, Reach(p, g))
    BY <2>2, <2>3, SentGrow
  <2> QED BY <1>12, <2>1, <2>4
<1>14. net'[q] \subseteq Sent(g, Reach(g, p))
  <2>1. net[q] \subseteq Sent(e, Reach(e, p))
    BY <1>2, <1>3, <1>4, Zenon DEF Connection, OnTheWay
  <2>2. net[q] \subseteq Sent(g, Reach(g, p))
    BY <1>7, <2>1
  <2> QED BY <1>7, <1>12, <2>2, CarriedIs
<1>15. Hosts' = Hosts /\ Peer(h)' = q /\ Peer(q)' = h
  BY <1>2 DEF Hosts, Peer
<1>16. ASSUME NEW i \in Hosts
       PROVE  (Good(pcb[i], pcb[Peer(i)]) /\ pcb[i].out = <<>> /\ OnTheWay(i))'
  <2>1. CASE i = h
    BY <1>7, <1>8, <1>11, <1>13, <1>15, <2>1, Zenon DEF OnTheWay
  <2>2. CASE i = q
    BY <1>6, <1>9, <1>11, <1>14, <1>15, <2>2, Zenon DEF OnTheWay
  <2> QED BY <1>2, <2>1, <2>2, Zenon
<1> QED BY <1>11, <1>12, <1>15, <1>16, Zenon DEF Connection

-----------------------------------------------------------------------------
(* The initial state and the steps.                                        *)

LEMMA AllocIsGood ==
  ASSUME NEW e, NEW p, p.written = 0, NEW s,
         e = [Alloc EXCEPT !.slots = s]
           \/ e = [Alloc EXCEPT !.slots = s, !.st = "LISTEN", !.listens = TRUE]
  PROVE  Good(e, p) /\ e.out = <<>> /\ e.written = 0
<1> DEFINE a == Alloc
<1>a. /\ IsPcb(a) /\ a.st = "CLOSED"
      /\ a.unsent = <<>> /\ a.unacked = <<>> /\ a.drv = <<>> /\ a.out = <<>> /\ a.ooseq = <<>>
  BY DEF Alloc, IsPcb, PcbFields
<1>b. /\ a.snd_nxt = 0 /\ a.lastack = 0 /\ a.snd_lbb = 0 /\ a.cwnd = 1 /\ a.rcv_nxt = 0
      /\ a.holded = 0 /\ a.dupacks = 0 /\ a.rcv_ann_right_edge = 0
      /\ a.rcv_wnd = TcpWnd /\ a.rcv_ann_wnd = TcpWnd
  BY DEF Alloc
<1>c. /\ a.flags = {} /\ a.recv_flags = {} /\ a.recv_data = <<>> /\ a.written = 0
      /\ a.got = <<>> /\ a.eof = FALSE
  BY DEF Alloc
<1>d. Same(a, e, {"slots", "st", "listens"}) /\ e.st \in {"CLOSED", "LISTEN"}
  <2> HIDE DEF a
  <2>1. CASE e = [a EXCEPT !.slots = s]
    BY <1>a, <2>1 DEF Same, IsPcb, PcbFields
  <2>2. CASE e = [a EXCEPT !.slots = s, !.st = "LISTEN", !.listens = TRUE]
    BY <1>a, <2>2 DEF Same, IsPcb, PcbFields
  <2> QED BY <2>1, <2>2, Zenon DEF a
<1> HIDE DEF a
<1>1. /\ IsPcb(e) /\ e.st \in {"CLOSED", "LISTEN"}
      /\ e.unsent = <<>> /\ e.unacked = <<>> /\ e.drv = <<>> /\ e.out = <<>> /\ e.ooseq = <<>>
  BY <1>a, <1>d DEF Same, PcbFields
<1>2. /\ e.snd_nxt = 0 /\ e.lastack = 0 /\ e.snd_lbb = 0 /\ e.cwnd = 1 /\ e.rcv_nxt = 0
      /\ e.holded = 0 /\ e.dupacks = 0 /\ e.rcv_ann_right_edge = 0
      /\ e.rcv_wnd = TcpWnd /\ e.rcv_ann_wnd = TcpWnd
  BY <1>b, <1>d DEF Same, PcbFields
<1>3. /\ e.flags = {} /\ e.recv_flags = {} /\ e.recv_data = <<>> /\ e.written = 0
      /\ e.got = <<>> /\ e.eof = FALSE
  BY <1>c, <1>d DEF Same, PcbFields
<1>4. Len(e.got) = 0 /\ Len(e.recv_data) = 0
  BY <1>3
<1>5. Taken(e) = 0
  BY <1>4 DEF Taken
<1>6. Stream(e, p)
  <2>1. e.got \in Seq(Nat) /\ e.recv_data \in Seq(Nat)
    BY <1>3
  <2> QED BY <1>3, <1>4, <1>5, <2>1 DEF Stream
<1>7. PICK k \in Nat : k = Reach(e, p)
  BY <1>6, ReachIs
<1>8. Numbers(e, e, k)
  BY <1>2, <1>3, <1>7, TcpAssumption DEF Numbers
<1>9. Queues(e, e, k)
  BY <1>1 DEF Queues
<1>10. Sorted(e, p)
  BY <1>1 DEF Sorted, FinLast
<1>11. e.st \notin Linked /\ e.st \notin Shuts /\ ~Living(e) /\ ~Over(e)
  BY <1>1 DEF Linked, Shuts, Living, Over
<1>12. Sender(e)
  BY <1>1, <1>2, <1>3, <1>11 DEF Sender, States
<1>13. Listening(e)
  BY <1>3 DEF Listening
<1>14. Sound(e, e, Reach(e, p))
  BY <1>1, <1>7, <1>8, <1>9, Zenon DEF Sound
<1> QED BY <1>1, <1>3, <1>6, <1>10, <1>11, <1>12, <1>13, <1>14, Zenon DEF Good

LEMMA InitConnection ==
  ASSUME Init
  PROVE  Connection
<1>1. ASSUME NEW h \in Hosts
      PROVE  /\ \/ pcb[h] = [Alloc EXCEPT !.slots = Slots[h]]
                \/ pcb[h] = [Alloc EXCEPT !.slots = Slots[h], !.st = "LISTEN", !.listens = TRUE]
             /\ pcb[h].written = 0 /\ net[h] = {}
  <2>1. \/ pcb[h] = [Alloc EXCEPT !.slots = Slots[h]]
        \/ pcb[h] = [Alloc EXCEPT !.slots = Slots[h], !.st = "LISTEN", !.listens = TRUE]
    BY DEF Init
  <2>2. pcb[h].written = 0
    BY <2>1 DEF Alloc
  <2>3. net[h] = {}
    BY DEF Init
  <2> QED BY <2>1, <2>2, <2>3
<1>2. ASSUME NEW h \in Hosts
      PROVE  Good(pcb[h], pcb[Peer(h)]) /\ pcb[h].out = <<>> /\ OnTheWay(h)
  <2>1. pcb[Peer(h)].written = 0 /\ net[h] = {}
    BY <1>1, PeersDiffer
  <2>2. Good(pcb[h], pcb[Peer(h)]) /\ pcb[h].out = <<>>
    BY <1>1, <2>1, AllocIsGood
  <2> QED BY <2>1, <2>2 DEF OnTheWay
<1>3. DOMAIN pcb = Hosts /\ DOMAIN net = Hosts
  BY DEF Init
<1> QED BY <1>2, <1>3, Zenon DEF Connection

\* A segment is lost.
LEMMA LoseKeeps ==
  ASSUME Connection, NEW h \in Hosts, Lose(h)
  PROVE  Connection'
<1>1. pcb' = pcb /\ DOMAIN net' = Hosts /\ \A i \in Hosts : net'[i] \subseteq net[i]
  BY DEF Connection, Lose
<1>2. ASSUME NEW i \in Hosts PROVE OnTheWay(i)'
  <2>1. net[i] \subseteq Sent(pcb[Peer(i)], Reach(pcb[Peer(i)], pcb[i]))
    BY Zenon DEF Connection, OnTheWay
  <2>2. net'[i] \subseteq Sent(pcb[Peer(i)], Reach(pcb[Peer(i)], pcb[i]))
    BY <1>1, <2>1
  <2>3. Peer(i)' = Peer(i)
    BY DEF Peer
  <2> QED BY <1>1, <2>2, <2>3, Zenon DEF OnTheWay
<1>3. Hosts' = Hosts /\ \A i \in Hosts : Peer(i)' = Peer(i)
  BY DEF Hosts, Peer
<1> QED BY <1>1, <1>2, <1>3, Zenon DEF Connection

\* Each step moves one end.
LEMMA NextKeeps ==
  ASSUME Connection, AppendsAtEnd, Next
  PROVE  Connection'
<1>1. PICK h \in Hosts :
        \/ TcpConnect(h) \/ EspconnWrite(h) \/ EspconnClose(h)
        \/ EspconnRecvHold(h) \/ EspconnRecvUnhold(h)
        \/ TcpInputAction(h) \/ Lose(h) \/ DriverDone(h)
        \/ RetransmissionTimeout(h) \/ Persist(h) \/ RemovePcb(h) \/ OoseqTimeout(h)
        \/ Poll(h) \/ TimeWaitEnds(h) \/ DelayedAck(h)
  BY Zenon DEF Next
<1>2. PICK e : e = pcb[h]
  OBVIOUS
<1>3. PICK p : p = pcb[Peer(h)]
  OBVIOUS
<1>4. Good(e, p) /\ Good(p, e)
  BY <1>2, <1>3, PeersDiffer, Zenon DEF Connection
<1>5. e.st \in {"ESTABLISHED", "CLOSE_WAIT"} => EndsTheStream(e)
  BY <1>2, Zenon DEF AppendsAtEnd, MayUse
<1>6. \A f, m : Steps(e, f, p) /\ Does(h, f, m) => Connection'
  BY <1>2, <1>3, DoesKeeps
<1>o. \A f : Moves(e, f, p) => Steps(e, f, p)
  BY DEF Moves
<1>7. e.drv \in Seq(Sent(e, Reach(e, p))) /\ e.out \in Seq(Sent(e, Reach(e, p)))
  BY <1>4, GoodParts
<1>8. Alive(h) => Living(e)
  BY <1>2, Zenon DEF Alive, Living
<1>9. CASE TcpConnect(h)
  BY <1>2, <1>4, <1>6, <1>o, <1>9, ConnectMoves DEF TcpConnect
<1>10. CASE EspconnWrite(h)
  <2>1. PICK n \in 1 .. Budget[h] - e.written : Does(h, Output(TcpWrite(e, n)), {})
    BY <1>2, <1>10 DEF EspconnWrite
  <2>2. n \in Nat /\ e.st \in {"ESTABLISHED", "CLOSE_WAIT"}
    BY <1>2, <1>10 DEF EspconnWrite, MayUse
  <2>3. Steps(e, Output(TcpWrite(e, n)), p)
    BY <1>4, <1>5, <2>2, WriteMoves
  <2> QED BY <1>6, <1>o, <2>1, <2>3
<1>11. CASE EspconnClose(h)
  <2>1. PICK f : f = TcpClose(e)
    OBVIOUS
  <2>2. /\ e.st \in {"SYN_SENT", "ESTABLISHED", "CLOSE_WAIT"}
        /\ Does(h, IF f.st \in {"FIN_WAIT_1", "LAST_ACK"} THEN Output(f) ELSE f, {})
    <3>1. e.st = "SYN_SENT" \/ e.st \in {"ESTABLISHED", "CLOSE_WAIT"}
      BY <1>2, <1>11, Zenon DEF EspconnClose, MayUse
    <3>2. Does(h, IF f.st \in {"FIN_WAIT_1", "LAST_ACK"} THEN Output(f) ELSE f, {})
      BY <1>2, <1>11, <2>1, Zenon DEF EspconnClose
    <3> QED BY <3>1, <3>2
  <2>3. Moves(e, IF f.st \in {"FIN_WAIT_1", "LAST_ACK"} THEN Output(f) ELSE f, p)
    BY <1>4, <1>5, <2>1, <2>2, DisconnectMoves
  <2> QED BY <1>6, <1>o, <2>2, <2>3, Zenon
<1>12. CASE EspconnRecvHold(h)
  BY <1>2, <1>4, <1>6, <1>o, <1>12, HoldMoves DEF EspconnRecvHold
<1>13. CASE EspconnRecvUnhold(h)
  <2>1. PICK f : f = Recved([e EXCEPT !.hold = FALSE, !.holded = 0], e.holded)
    OBVIOUS
  <2>2. Does(h, IF "ACK_NOW" \in f.flags THEN Output(f) ELSE f, {})
    BY <1>2, <1>13, <2>1, Zenon DEF EspconnRecvUnhold
  <2>3. Moves(e, f, p) /\ e.st \in {"ESTABLISHED", "CLOSE_WAIT"}
    BY <1>2, <1>4, <1>13, <2>1, UnholdMoves DEF EspconnRecvUnhold, MayUse
  <2>4. Moves(e, Output(f), p)
    <3>1. Good(f, p) /\ Stream(e, p)
      BY <1>4, <2>3, Zenon DEF Moves, Steps, Good
    <3>2. f.st = e.st
      <4>1. IsPcb(e)
        BY <1>4, GoodParts
      <4> QED BY <2>1, <4>1 DEF Recved, UpdateAnnWnd, AckNow, IsPcb, PcbFields
    <3>3. Moves(f, Output(f), p)
      BY <2>3, <3>1, <3>2, PollMoves
    <3> QED BY <2>3, <3>1, <3>3, MovesTwice
  <2> QED BY <1>6, <1>o, <2>2, <2>3, <2>4, Zenon
<1>14. CASE TcpInputAction(h)
  <2>1. PICK m \in net[h] : Does(h, TcpInputSegment(e, m), {m})
    BY <1>2, <1>14, Zenon DEF TcpInputAction
  <2>2. m \in Sent(p, Reach(p, e))
    BY <1>2, <1>3, <2>1 DEF Connection, OnTheWay
  <2>3. Moves(e, TcpInputSegment(e, m), p)
    BY <1>4, <1>5, <2>2, InputMoves
  <2> QED BY <1>6, <1>o, <2>1, <2>3, Zenon
<1>15. CASE Lose(h)
  BY <1>15, LoseKeeps
<1>16. CASE DriverDone(h)
  <2>1. e.drv # <<>> /\ Does(h, [Send(e, Head(e.drv)) EXCEPT !.drv = Tail(@)], {})
    BY <1>2, <1>16, Zenon DEF DriverDone
  <2> QED BY <1>4, <1>6, <1>o, <2>1, DriverMoves
<1>17. CASE RetransmissionTimeout(h)
  <2>1. Living(e) /\ Does(h, RexmitRto([e EXCEPT !.cwnd = Mss]), {})
    BY <1>2, <1>8, <1>17, Zenon DEF RetransmissionTimeout
  <2> QED BY <1>4, <1>6, <1>o, <2>1, RtoMoves
<1>18. CASE Persist(h)
  <2>1. Living(e) /\ Does(h, ZeroWindowProbe(e), {})
    BY <1>2, <1>8, <1>18, Zenon DEF Persist
  <2> QED BY <1>4, <1>6, <1>o, <2>1, PersistMoves
<1>19. CASE RemovePcb(h)
  <2>1. Does(h, Fails(e), {})
    BY <1>2, <1>19, Zenon DEF RemovePcb
  <2>2. PICK err : Fails(e) = Gone(e, err)
    BY Zenon DEF Fails
  <2>3. Moves(e, Gone(e, err), p)
    BY <1>4, <1>7, GoneMoves
  <2> QED BY <1>6, <1>o, <2>1, <2>2, <2>3, Zenon
<1>20. CASE OoseqTimeout(h)
  <2>1. Does(h, [e EXCEPT !.ooseq = <<>>], {})
    BY <1>2, <1>20, Zenon DEF OoseqTimeout
  <2> QED BY <1>4, <1>6, <1>o, <2>1, OoseqMoves
<1>21. CASE Poll(h)
  <2>1. Living(e) /\ Does(h, Output(Polled(e)), {})
    BY <1>2, <1>8, <1>21, Zenon DEF Poll
  <2>2. e.st \notin {"CLOSED", "LISTEN", "GONE"}
    BY <2>1 DEF Living
  <2>3. PICK f : f = Polled(e)
    OBVIOUS
  <2>4. Moves(e, f, p) /\ f.st \notin {"CLOSED", "LISTEN", "GONE"}
    BY <1>4, <1>5, <2>2, <2>3, PolledMoves
  <2>5. Moves(f, Output(f), p)
    BY <2>4, PollMoves DEF Moves, Steps
  <2>6. Moves(e, Output(f), p)
    BY <1>4, <2>4, <2>5, MovesTwice DEF Good
  <2> QED BY <1>6, <1>o, <2>1, <2>3, <2>6
<1>22. CASE TimeWaitEnds(h)
  <2>1. Does(h, Gone(e, e.err), {})
    BY <1>2, <1>22, Zenon DEF TimeWaitEnds
  <2>2. Moves(e, Gone(e, e.err), p)
    BY <1>4, <1>7, GoneMoves
  <2> QED BY <1>6, <1>o, <2>1, <2>2, Zenon
<1>23. CASE DelayedAck(h)
  <2>1. Living(e) /\ Does(h, NoAckDue(Output(AckNow(e))), {})
    BY <1>2, <1>8, <1>23, Zenon DEF DelayedAck
  <2> QED BY <1>4, <1>6, <1>o, <2>1, DelayedAckMoves
<1> QED BY <1>1, <1>9, <1>10, <1>11, <1>12, <1>13, <1>14, <1>15, <1>16, <1>17, <1>18, <1>19,
           <1>20, <1>21, <1>22, <1>23, Zenon

LEMMA StutterKeeps ==
  ASSUME Connection, UNCHANGED vars
  PROVE  Connection'
<1>1. pcb' = pcb /\ net' = net
  BY DEF vars
<1>2. Hosts' = Hosts /\ \A h \in Hosts : Peer(h)' = Peer(h)
  BY DEF Hosts, Peer
<1> QED BY <1>1, <1>2, Zenon DEF Connection, OnTheWay

\* tcp_write never finds another segment than the end of the stream: then the
\* two ends and the network keep the invariant.
THEOREM ConnectionKept == Spec /\ []AppendsAtEnd => []Connection
<1>1. Init => Connection
  BY InitConnection
<1>2. Connection /\ AppendsAtEnd /\ [Next]_vars => Connection'
  BY NextKeeps, StutterKeeps, Zenon
<1> QED BY <1>1, <1>2, PTL DEF Spec

-----------------------------------------------------------------------------
(* What the invariant says of a connection.                                *)

LEMMA ConnectionStream ==
  ASSUME Connection
  PROVE  StreamIntact /\ EofIsTheEnd
<1>1. ASSUME NEW h \in Hosts
      PROVE  /\ Len(pcb[h].got) <= pcb[Peer(h)].written
             /\ \A i \in DOMAIN pcb[h].got : pcb[h].got[i] = i
             /\ pcb[h].eof => Len(pcb[h].got) = pcb[Peer(h)].written
  <2>1. PICK e : e = pcb[h]
    OBVIOUS
  <2>2. PICK p : p = pcb[Peer(h)]
    OBVIOUS
  <2>3. Good(e, p)
    BY <2>1, <2>2, Zenon DEF Connection
  <2>4. Stream(e, p)
    BY <2>3, Zenon DEF Good
  <2>5. Taken(e) = Len(e.got)
    BY <2>3, NoBytes
  <2>6. e.got \in Seq(Nat)
    BY <2>4, Zenon DEF Stream
  <2>7. DOMAIN e.got = 1 .. Len(e.got)
    BY <2>6, LenProperties
  <2>8. /\ Len(e.got) <= p.written /\ \A i \in DOMAIN e.got : e.got[i] = i
        /\ e.eof => Len(e.got) = p.written
    BY <2>4, <2>5, <2>7, Zenon DEF Stream
  <2> QED BY <2>1, <2>2, <2>8, Zenon
<1> QED BY <1>1, Zenon DEF StreamIntact, EofIsTheEnd

LEMMA ConnectionCovers ==
  ASSUME Connection
  PROVE  NothingForgotten
<1> SUFFICES ASSUME NEW h \in Hosts, Alive(h), NEW e, e = pcb[h], NEW p, p = pcb[Peer(h)],
                    NEW i \in Len(p.got) + 1 .. e.written
             PROVE  \E s \in Range(e.unsent \o e.unacked) : Contains(s.data, i)
  BY Zenon DEF NothingForgotten
<1>1. Good(e, p) /\ Good(p, e)
  BY PeersDiffer, Zenon DEF Connection
<1>2. Living(e)
  BY Zenon DEF Alive, Living
<1>3. AllCovered(e, p)
  BY <1>1, <1>2, Zenon DEF Good
<1>4. PICK n \in Nat : n = Len(p.got)
  BY <1>1, NoBytes
<1>5. PICK w \in Nat : w = e.written
  BY <1>1, GoodParts
<1>6. i \in 1 .. w /\ i > n
  BY <1>4, <1>5
<1>7. Covers(e, i)
  BY <1>3, <1>4, <1>5, <1>6, Zenon DEF AllCovered
<1>8. e.unsent \in Seq(Segs(e)) /\ e.unacked \in Seq(Segs(e))
  BY <1>1, Zenon DEF Good, Sound, Queues
<1>9. Range(e.unsent \o e.unacked) = Queued(e)
  <2>1. PICK a : a = e.unsent
    OBVIOUS
  <2>2. PICK b : b = e.unacked
    OBVIOUS
  <2>3. Range(a \o b) = Range(a) \cup Range(b)
    BY <1>8, <2>1, <2>2, RangeConcatenation
  <2> QED BY <2>1, <2>2, <2>3, Zenon DEF Queued
<1> QED BY <1>7, <1>9, Zenon DEF Covers

LEMMA ConnectionTyped ==
  ASSUME Connection
  PROVE  TypeOK
<1> SUFFICES ASSUME NEW h \in Hosts, NEW e, e = pcb[h]
             PROVE  /\ e.st \in States
                    /\ e.rcv_wnd \in Nat /\ e.rcv_wnd < 65536
                    /\ e.rcv_ann_wnd \in Nat /\ e.rcv_ann_wnd < 65536
                    /\ e.lastack <= e.snd_nxt /\ e.snd_nxt <= e.snd_lbb + 1
                    /\ e.out = <<>> /\ e.recv_data = <<>> /\ e.recv_flags = {}
  BY DEF TypeOK
<1>1. PICK p : Good(e, p)
  BY Zenon DEF Connection
<1>2. e.out = <<>> /\ e.recv_data = <<>> /\ e.recv_flags = {}
  BY <1>1, Zenon DEF Connection, Good
<1>3. Sender(e)
  BY <1>1, Zenon DEF Good
<1>4. Numbers(e, e, Reach(e, p))
  BY <1>1, Zenon DEF Good, Sound
<1>5. e.snd_nxt <= e.snd_lbb + 1
  <2>1. PICK n \in Nat : n = e.snd_nxt
    BY <1>4 DEF Numbers
  <2>2. PICK b \in Nat : b = e.snd_lbb
    BY <1>4 DEF Numbers
  <2>3. PICK w \in Nat : w = e.written
    BY <1>4 DEF Numbers
  <2>4. n <= w + 2
    BY <1>4, <2>1, <2>3 DEF Numbers
  <2>5. b >= w + 1 \/ n = 0
    <3>1. CASE e.st \in {"CLOSED", "LISTEN", "GONE"}
      BY <1>3, <2>1, <3>1, Zenon DEF Sender
    <3>2. CASE e.st \in {"SYN_SENT", "SYN_RCVD"}
      BY <1>3, <2>2, <2>3, <3>2 DEF Sender
    <3>3. CASE e.st \in {"ESTABLISHED", "CLOSE_WAIT"}
      BY <1>3, <2>2, <2>3, <3>3 DEF Sender
    <3>4. CASE Over(e) /\ e.st # "GONE"
      BY <1>3, <2>2, <2>3, <3>4, Zenon DEF Sender
    <3> QED BY <1>3, <3>1, <3>2, <3>3, <3>4 DEF Over
  <2> QED BY <2>1, <2>2, <2>4, <2>5
<1>6. e.st \in States
  BY <1>3, Zenon DEF Sender
<1> QED BY <1>2, <1>4, <1>5, <1>6 DEF Numbers

-----------------------------------------------------------------------------
(* No connection ends without a word.                                      *)

\* What e was, f tells its application if it is freed.
Told(f) == IsPcb(f) /\ (f.st = "GONE" => f.err)

\* A pcb that fails tells its application.
LEMMA FailsTells ==
  ASSUME NEW e, Listening(e), e.st # "SYN_RCVD"
  PROVE  Told(Fails(e))
<1>1. (e.err \/ (Listening(e) /\ e.st # "SYN_RCVD")) = TRUE
  BY Zenon
<1>2. Fails(e) = Gone(e, e.err \/ (Listening(e) /\ e.st # "SYN_RCVD"))
  BY Zenon DEF Fails
<1>3. Fails(e) = Gone(e, TRUE)
  BY <1>1, <1>2
<1>4. IsPcb(Fails(e)) /\ Fails(e).err = TRUE
  <2>1. PICK g : g = Gone(e, TRUE)
    OBVIOUS
  <2>2. IsGone(g, e) /\ g.err = TRUE
    BY <2>1, GoneIs, Zenon
  <2> QED BY <1>3, <2>1, <2>2 DEF IsGone
<1> QED BY <1>4, Zenon DEF Told

\* The end of a connection whose application has not closed it.
LEMMA FinishTells ==
  ASSUME NEW e, NEW p, Good(e, p), Living(e), Listening(e), e.st # "SYN_RCVD",
         NEW f, Processed(e, f, p) \/ Ends(e, f, p)
  PROVE  Told(Finish(f))
<1>1. PICK h : h = Finish(f)
  OBVIOUS
<1>2. Before(e, f, p)
  BY Zenon DEF Processed, Ends
<1>3. IsPcb(f)
  BY <1>2, Zenon DEF Before
<1>4. CASE Ends(e, f, p)
  <2>1. f.recv_flags = {"RESET"} /\ f.st = e.st /\ Listening(f)
    BY <1>4, Zenon DEF Ends
  <2>2. h = Fails(f)
    BY <1>1, <2>1 DEF Finish
  <2>3. PICK err \in BOOLEAN : err <=> (f.err \/ (Listening(f) /\ f.st # "SYN_RCVD"))
    OBVIOUS
  <2>4. err = TRUE
    BY <2>1, <2>3
  <2>5. h = Gone(f, f.err \/ (Listening(f) /\ f.st # "SYN_RCVD"))
    BY <2>2, Zenon DEF Fails
  <2>6. (f.err \/ (Listening(f) /\ f.st # "SYN_RCVD")) = TRUE
    BY <2>1, Zenon
  <2>7. h = Gone(f, TRUE)
    BY <2>5, <2>6
  <2>8. IsPcb(h) /\ h.err = TRUE
    BY <2>7, GoneIs, Zenon DEF IsGone
  <2> QED BY <1>1, <2>8, Zenon DEF Told
<1>5. CASE Processed(e, f, p)
  <2>1. Handles(e, f, p)
    BY <1>5, Zenon DEF Processed
  <2>2. e.st \notin Shuts
    BY Zenon DEF Good
  <2>3. ~Over(e)
    BY <2>2 DEF Good, Sender, States, Shuts, Over, Living
  <2>4. Listening(f)
    <3>1. ~Over(f) /\ (Listening(f) <=> f.st \notin Shuts)
      BY <2>1, <2>3, Zenon DEF Handles
    <3> QED BY <3>1 DEF Over, Shuts
  <2>5. PICK g : g = EventRecv(f)
    OBVIOUS
  <2>6. PICK i : i = EventClosed(g)
    OBVIOUS
  <2>7. h = IF f.recv_data # <<>> /\ "RXCLOSED" \in f.flags THEN Abort(f) ELSE Output(i)
    <3>1. f.recv_flags \in {{}, {"GOT_FIN"}}
      BY <2>1, Zenon DEF Handles
    <3>2. /\ "RESET" \notin f.recv_flags /\ "CLOSED" \notin f.recv_flags
          /\ f.recv_flags \cap {"RESET", "CLOSED"} = {}
      BY <3>1
    <3> QED BY <1>1, <2>5, <2>6, <3>2 DEF Finish
  <2>8. HandsOn(f, g)
    <3>1. Windows(f) /\ f.holded \in Nat
      BY <2>1 DEF Handles, Sound, Numbers, Windows
    <3>2. f.recv_data \in Seq(Nat)
      BY <2>1, Zenon DEF Handles, Stream
    <3> QED BY <1>3, <2>5, <3>1, <3>2, EventRecvHands, Zenon
  <2>9. Handles(e, g, p) /\ g.recv_data = <<>>
    <3>1. Len(e.got) \in Nat
      BY LenProperties DEF Good, Stream
    <3> QED BY <2>1, <2>8, <3>1, HandsOnKeeps, Zenon
  <2>10. Moves(e, i, p) /\ i.st \notin {"CLOSED", "LISTEN", "GONE"}
    BY <2>6, <2>9, EventClosedMoves, Zenon DEF Good
  <2>11. CASE h = Output(i)
    <3>1. PICK k \in Nat : k = Reach(i, p)
      BY <2>10, GoodParts DEF Moves, Steps
    <3>2. Sound(i, i, k)
      BY <2>10, <3>1, Zenon DEF Moves, Steps, Good
    <3>3. Calm(i, h, i, k)
      BY <2>11, <3>2, OutputKeeps, Zenon
    <3>4. IsPcb(h) /\ h.st = i.st
      BY <3>3, Zenon DEF Calm, Sound, Quiet, SameCore
    <3> QED BY <1>1, <2>10, <3>4 DEF Told
  <2>12. CASE h = Abort(f)
    <3>1. f.st # "TIME_WAIT" /\ f.st # "SYN_RCVD"
      <4>1. f.st \notin Shuts
        BY <2>1, <2>4, Zenon DEF Handles
      <4>2. f.st = "SYN_RCVD" => e.st = "SYN_RCVD"
        BY <2>1, Zenon DEF Handles
      <4> QED BY <4>1, <4>2 DEF Shuts
    <3>2. PICK r : r = Send(f, Reset(f.snd_nxt, f.rcv_nxt))
      OBVIOUS
    <3>3. h = Fails(r)
      BY <2>12, <3>1, <3>2 DEF Abort
    <3>4. r.st = f.st /\ r.flags = f.flags
      BY <1>3, <3>2 DEF Send, IsPcb, PcbFields
    <3>5. Listening(r) /\ r.st # "SYN_RCVD"
      BY <2>4, <3>1, <3>4, Zenon DEF Listening
    <3> QED BY <1>1, <3>3, <3>5, FailsTells
  <2> QED BY <2>7, <2>11, <2>12
<1> QED BY <1>4, <1>5

\* A step of tcp_input on it.
LEMMA InputTells ==
  ASSUME NEW e, NEW p, Good(e, p), Good(p, e), Living(e), Listening(e), e.st # "SYN_RCVD",
         e.st \in {"ESTABLISHED", "CLOSE_WAIT"} => EndsTheStream(e), NEW m \in Sent(p, Reach(p, e))
  PROVE  Told(TcpInputSegment(e, m))
<1>1. Processed(e, TcpProcess(e, m), p) \/ Ends(e, TcpProcess(e, m), p)
  BY ProcessKeeps
<1>2. TcpInputSegment(e, m) = Finish(TcpProcess(e, m))
  BY DEF TcpInputSegment, Living
<1> QED BY <1>1, <1>2, FinishTells

\* The state stays.
LEMMA CalmTells ==
  ASSUME NEW e, Living(e), NEW f, NEW o, NEW k, Calm(e, f, o, k)
  PROVE  Told(f)
<1>1. IsPcb(f) /\ f.st = e.st
  BY Zenon DEF Calm, Sound, Quiet, SameCore
<1>2. e.st # "GONE"
  BY DEF Living
<1> QED BY <1>1, <1>2, Zenon DEF Told

LEMMA OutputTells ==
  ASSUME NEW f, Living(f), NEW p, Good(f, p)
  PROVE  Told(Output(f)) /\ Output(f).st = f.st
<1>1. PICK k \in Nat : k = Reach(f, p)
  BY GoodParts
<1>2. Sound(f, f, k)
  BY <1>1, Zenon DEF Good
<1>3. Calm(f, Output(f), f, k)
  BY <1>2, OutputKeeps
<1> QED BY <1>3, CalmTells, Zenon DEF Calm, Quiet, SameCore

\* What the step of one host does to the pcb of another, or to its own.
LEMMA DoesTells ==
  ASSUME Connection, NEW h \in Hosts, NEW f, NEW m, Told(f), Does(h, f, m),
         NEW i \in Hosts, Living(pcb[i]), pcb'[i].st = "GONE"
  PROVE  i = h /\ pcb'[i].err
<1>1. DOMAIN pcb = Hosts
  BY Zenon DEF Connection
<1>2. pcb' = [pcb EXCEPT ![h] = [f EXCEPT !.out = <<>>]]
  BY DEF Does
<1>3. i = h
  <2>1. i # h => pcb'[i] = pcb[i]
    BY <1>1, <1>2
  <2> QED BY <2>1 DEF Living
<1>4. pcb'[i] = [f EXCEPT !.out = <<>>]
  BY <1>1, <1>2, <1>3
<1>5. pcb'[i].st = f.st /\ pcb'[i].err = f.err
  BY <1>4 DEF Told, IsPcb, PcbFields
<1> QED BY <1>3, <1>5, Zenon DEF Told

LEMMA NextTells ==
  ASSUME Connection, AppendsAtEnd, Next, NEW i \in Hosts, pcb'[i].st = "GONE", Alive(i),
         pcb[i].st # "SYN_RCVD", Listening(pcb[i]), ~EspconnClose(i)
  PROVE  pcb'[i].err
<1>1. PICK h \in Hosts :
        \/ TcpConnect(h) \/ EspconnWrite(h) \/ EspconnClose(h)
        \/ EspconnRecvHold(h) \/ EspconnRecvUnhold(h)
        \/ TcpInputAction(h) \/ Lose(h) \/ DriverDone(h)
        \/ RetransmissionTimeout(h) \/ Persist(h) \/ RemovePcb(h) \/ OoseqTimeout(h)
        \/ Poll(h) \/ TimeWaitEnds(h) \/ DelayedAck(h)
  BY Zenon DEF Next
<1>2. PICK e : e = pcb[h]
  OBVIOUS
<1>3. PICK p : p = pcb[Peer(h)]
  OBVIOUS
<1>4. Good(e, p) /\ Good(p, e)
  BY <1>2, <1>3, PeersDiffer, Zenon DEF Connection
<1>5. e.st \in {"ESTABLISHED", "CLOSE_WAIT"} => EndsTheStream(e)
  BY <1>2, Zenon DEF AppendsAtEnd, MayUse
<1>6. Living(pcb[i])
  BY Zenon DEF Alive, Living
<1>7. \A f, m : Told(f) /\ Does(h, f, m) => pcb'[i].err
  BY <1>6, DoesTells
<1>8. i # h => \A f, m : ~Does(h, f, m)
  <2>1. SUFFICES ASSUME i # h, NEW f, NEW m, Does(h, f, m) PROVE FALSE
    BY Zenon
  <2>2. pcb'[i] = pcb[i]
    BY <2>1 DEF Does, Connection
  <2> QED BY <1>6, <2>2 DEF Living
<1>9. CASE Lose(h)
  <2>1. pcb' = pcb
    BY <1>9 DEF Lose
  <2> QED BY <1>6, <2>1 DEF Living
<1>10. CASE ~Lose(h)
  <2>1. i = h
    BY <1>1, <1>8, <1>10, Zenon DEF TcpConnect, EspconnWrite, EspconnClose, EspconnRecvHold,
       EspconnRecvUnhold, TcpInputAction, DriverDone, RetransmissionTimeout, Persist, RemovePcb,
       OoseqTimeout, Poll, TimeWaitEnds, DelayedAck
  <2>2. Living(e) /\ Listening(e) /\ e.st # "SYN_RCVD" /\ IsPcb(e)
    BY <1>2, <1>4, <1>6, <2>1, GoodParts
  <2>3. PICK k \in Nat : k = Reach(e, p)
    BY <1>4, GoodParts
  <2>4. Sound(e, e, k)
    BY <1>4, <2>3, Zenon DEF Good
  <2>5. ~TcpConnect(h) /\ ~EspconnClose(h) /\ ~TimeWaitEnds(h)
    BY <1>2, <2>1, <2>2 DEF TcpConnect, TimeWaitEnds, Living
  <2>6. CASE EspconnWrite(h)
    <3>1. PICK n \in 1 .. Budget[h] - e.written : Does(h, Output(TcpWrite(e, n)), {})
      BY <1>2, <2>6 DEF EspconnWrite
    <3>2. n \in Nat /\ e.st \in {"ESTABLISHED", "CLOSE_WAIT"}
      BY <1>2, <2>6 DEF EspconnWrite, MayUse
    <3>3. PICK f : f = TcpWrite(e, n)
      OBVIOUS
    <3>4. Writes(e, f, n, k)
      <4>1. ~Over(e) /\ e.snd_lbb = e.written + 1
        BY <1>4, <3>2 DEF Over, Good, Sender
      <4> QED BY <1>5, <2>4, <3>2, <3>3, <4>1, TcpWriteKeeps, Zenon
    <3>5. Sound(f, f, k) /\ f.st = e.st
      BY <3>4, Zenon DEF Writes
    <3>6. Calm(f, Output(f), f, k)
      BY <3>5, OutputKeeps
    <3>7. Living(f)
      BY <2>2, <3>5, Zenon DEF Living
    <3>8. Told(Output(f))
      BY <3>6, <3>7, CalmTells
    <3> QED BY <1>7, <3>1, <3>3, <3>8
  <2>7. CASE EspconnRecvHold(h)
    <3>1. PICK f : f = [e EXCEPT !.hold = TRUE, !.holded = 0]
      OBVIOUS
    <3>2. Does(h, f, {})
      BY <1>2, <2>7, <3>1 DEF EspconnRecvHold
    <3>3. Told(f)
      BY <2>2, <3>1 DEF Told, IsPcb, PcbFields, Living
    <3> QED BY <1>7, <3>2, <3>3
  <2>8. CASE EspconnRecvUnhold(h)
    <3>1. PICK f : f = Recved([e EXCEPT !.hold = FALSE, !.holded = 0], e.holded)
      OBVIOUS
    <3>2. Does(h, IF "ACK_NOW" \in f.flags THEN Output(f) ELSE f, {})
      BY <1>2, <2>8, <3>1, Zenon DEF EspconnRecvUnhold
    <3>3. Moves(e, f, p)
      BY <1>4, <3>1, UnholdMoves
    <3>4. Good(f, p) /\ IsPcb(f)
      BY <3>3, Zenon DEF Moves, Steps, Good, Sound
    <3>5. f.st = e.st
      BY <2>2, <3>1 DEF Recved, UpdateAnnWnd, AckNow, IsPcb, PcbFields
    <3>6. Living(f)
      BY <2>2, <3>5, Zenon DEF Living
    <3>7. Told(f)
      BY <3>4, <3>6 DEF Told, Living
    <3>8. Told(Output(f))
      BY <3>4, <3>6, OutputTells
    <3> QED BY <1>7, <3>2, <3>7, <3>8, Zenon
  <2>9. CASE TcpInputAction(h)
    <3>1. PICK m \in net[h] : Does(h, TcpInputSegment(e, m), {m})
      BY <1>2, <2>9, Zenon DEF TcpInputAction
    <3>2. m \in Sent(p, Reach(p, e))
      BY <1>2, <1>3, <3>1 DEF Connection, OnTheWay
    <3>3. Told(TcpInputSegment(e, m))
      BY <1>4, <1>5, <2>2, <3>2, InputTells
    <3> QED BY <1>7, <3>1, <3>3, Zenon
  <2>10. CASE DriverDone(h)
    <3>1. PICK f : f = [Send(e, Head(e.drv)) EXCEPT !.drv = Tail(@)]
      OBVIOUS
    <3>2. Does(h, f, {})
      BY <1>2, <2>10, <3>1, Zenon DEF DriverDone
    <3>3. Told(f)
      BY <2>2, <3>1 DEF Told, Send, IsPcb, PcbFields, Living
    <3> QED BY <1>7, <3>2, <3>3
  <2>11. CASE RetransmissionTimeout(h)
    <3>1. PICK w : w = Mss
      OBVIOUS
    <3>2. PICK f : f = [e EXCEPT !.cwnd = w]
      OBVIOUS
    <3>3. Does(h, RexmitRto(f), {})
      BY <1>2, <2>11, <3>1, <3>2, Zenon DEF RetransmissionTimeout
    <3>4. Same(e, f, {"cwnd"}) /\ f.st = e.st
      BY <2>2, <3>2 DEF IsPcb, PcbFields, Same
    <3>5. Calm(e, f, e, k)
      <4>1. Same(e, f, {"timing", "persist", "nrtx", "dupacks", "cwnd", "snd_wnd", "snd_wl1",
                        "snd_wl2", "flags"})
        BY <3>4 DEF Same
      <4>2. f.flags = e.flags /\ f.dupacks = e.dupacks
        BY <3>4 DEF Same, PcbFields
      <4>3. f.dupacks \in Nat
        BY <2>4, <4>2 DEF Sound, Numbers
      <4> QED BY <2>4, <4>1, <4>2, <4>3, CountersAreCalm
    <3>6. Calm(f, RexmitRto(f), e, k)
      BY <3>5, RexmitRtoKeeps, Zenon DEF Calm
    <3>7. Living(f)
      BY <2>2, <3>4, Zenon DEF Living
    <3> QED BY <1>7, <3>3, <3>6, <3>7, CalmTells
  <2>12. CASE Persist(h)
    <3>1. Does(h, ZeroWindowProbe(e), {})
      BY <1>2, <2>12, Zenon DEF Persist
    <3>2. Calm(e, ZeroWindowProbe(e), e, k)
      BY <2>4, ProbeKeeps
    <3> QED BY <1>7, <2>2, <3>1, <3>2, CalmTells
  <2>13. CASE RemovePcb(h)
    <3>1. Does(h, Fails(e), {})
      BY <1>2, <2>13, Zenon DEF RemovePcb
    <3> QED BY <1>7, <2>2, <3>1, FailsTells
  <2>14. CASE OoseqTimeout(h)
    <3>1. PICK f : f = [e EXCEPT !.ooseq = <<>>]
      OBVIOUS
    <3>2. Does(h, f, {})
      BY <1>2, <2>14, <3>1, Zenon DEF OoseqTimeout
    <3>3. Told(f)
      BY <2>2, <3>1 DEF Told, IsPcb, PcbFields, Living
    <3> QED BY <1>7, <3>2, <3>3
  <2>15. CASE Poll(h)
    <3>1. Does(h, Output(Polled(e)), {})
      BY <1>2, <2>15, Zenon DEF Poll
    <3>2. PICK f : f = Polled(e)
      OBVIOUS
    <3>3. Moves(e, f, p) /\ f.st \notin {"CLOSED", "LISTEN", "GONE"}
      <4>1. e.st \notin {"CLOSED", "LISTEN", "GONE"}
        BY <2>2 DEF Living
      <4> QED BY <1>4, <1>5, <3>2, <4>1, PolledMoves
    <3>4. Moves(f, Output(f), p)
      BY <3>3, PollMoves DEF Moves, Steps
    <3>5. IsPcb(Output(f))
      BY <3>4, Zenon DEF Moves, Steps, Good, Sound
    <3>6. Output(f).st = f.st
      <4>1. PICK l \in Nat : l = Reach(f, p)
        BY <3>3, GoodParts DEF Moves, Steps
      <4>2. Sound(f, f, l)
        BY <3>3, <4>1, Zenon DEF Moves, Steps, Good
      <4>3. Calm(f, Output(f), f, l)
        BY <4>2, OutputKeeps
      <4> QED BY <4>3, Zenon DEF Calm, Quiet, SameCore
    <3>7. Told(Output(f))
      BY <3>3, <3>5, <3>6 DEF Told
    <3> QED BY <1>7, <3>1, <3>2, <3>7
  <2>16. CASE DelayedAck(h)
    <3>1. PICK f : f = AckNow(e)
      OBVIOUS
    <3>2. PICK g : g = Output(f)
      OBVIOUS
    <3>3. Does(h, NoAckDue(g), {})
      BY <1>2, <2>16, <3>1, <3>2, Zenon DEF DelayedAck
    <3>4. Same(e, f, {"flags"}) /\ (Listening(f) <=> Listening(e)) /\ f.st = e.st
      BY <2>2, <3>1 DEF AckNow, IsPcb, PcbFields, Same, Listening
    <3>5. Good(f, p)
      BY <1>4, <3>4, FlagsMove, Zenon
    <3>6. Living(f)
      BY <2>2, <3>4, Zenon DEF Living
    <3>7. Told(g) /\ g.st = f.st
      BY <3>2, <3>5, <3>6, OutputTells
    <3>8. Told(NoAckDue(g))
      BY <3>6, <3>7 DEF Told, NoAckDue, IsPcb, PcbFields, Living
    <3> QED BY <1>7, <3>3, <3>8
  <2> QED BY <1>1, <1>10, <2>5, <2>6, <2>7, <2>8, <2>9, <2>10, <2>11, <2>12, <2>13, <2>14,
             <2>15, <2>16, Zenon
<1> QED BY <1>9, <1>10

-----------------------------------------------------------------------------
(* The theorems, for executions where tcp_write only finds the end of the  *)
(* stream: []AppendsAtEnd, which fails with a driver slot at the sender.   *)

\* TypeOK: tcp_input leaves nothing behind and the windows are u16_t.
THEOREM TypeCorrect == Spec /\ []AppendsAtEnd => []TypeOK
  BY ConnectionKept, ConnectionTyped, PTL

\* StreamIntact: each application gets the bytes of the other in order,
\* without a gap and once.
THEOREM StreamIsIntact == Spec /\ []AppendsAtEnd => []StreamIntact
  BY ConnectionKept, ConnectionStream, PTL

\* EofIsTheEnd: the end of the stream comes after all its bytes.
THEOREM EofComesLast == Spec /\ []AppendsAtEnd => []EofIsTheEnd
  BY ConnectionKept, ConnectionStream, PTL

\* NothingForgotten: what has not arrived still waits in a queue.
THEOREM NothingIsForgotten == Spec /\ []AppendsAtEnd => []NothingForgotten
  BY ConnectionKept, ConnectionCovers, PTL

\* NoSilentEnd: a connection that ends tells its application, one whose close
\* has failed for want of room for the FIN included.
THEOREM EndIsTold == Spec /\ []AppendsAtEnd => NoSilentEnd
<1>1. Connection /\ AppendsAtEnd /\ [Next]_vars =>
        [\A h \in Hosts :
           pcb'[h].st = "GONE" /\ Alive(h) /\ pcb[h].st # "SYN_RCVD" =>
             ~Listening(pcb[h]) \/ EspconnClose(h) \/ pcb'[h].eof \/ pcb'[h].err]_vars
  BY NextTells, Zenon
<1> QED BY <1>1, ConnectionKept, PTL DEF NoSilentEnd, Spec
=============================================================================
