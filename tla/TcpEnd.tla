------------------------------- MODULE TcpEnd -------------------------------
(***************************************************************************)
(* core/tcp.c, core/tcp_in.c and core/tcp_out.c: one end of a connection.  *)
(* Every operator takes a struct tcp_pcb with the espconn connection above *)
(* it and says what becomes of them; the segments it transmits are in      *)
(* "out".  A byte of the stream is its place in what the application       *)
(* wrote, counted from 1, so a segment shows which bytes it really holds,  *)
(* whatever its sequence number says.  The initial sequence number is 0.   *)
(*                                                                         *)
(* espconn switches Nagle's algorithm off, takes every byte it is offered  *)
(* (there is no refused_data) and closes its side at the end of the peer's *)
(* stream.  Memory is not exhausted and no option but MSS is used.  Beside *)
(* the TF_ flags, "UNREGISTERED" says that espconn has taken its callbacks *)
(* back (recv, sent, poll and errf are NULL).                              *)
(***************************************************************************)
EXTENDS Integers, Sequences, FiniteSetsExt, SequencesExt

CONSTANTS Mss,           \* TCP_MSS
          TcpWnd,        \* TCP_WND
          DupThreshold,  \* 3: duplicate ACKs for a fast retransmission
          MaxRtx,        \* TCP_MAXRTX
          SynMaxRtx      \* TCP_SYNMAXRTX

\* TCP_SND_BUF and TCP_SND_QUEUELEN.  At most SndBuf bytes are on the way, so a
\* cwnd of 2 * Mss stands for every larger one; ssthresh is never below it.
SndBuf == 2 * Mss
SndQueueLen == (4 * SndBuf + Mss - 1) \div Mss

\* A window is a u16_t, of a segment or more (init.c:235); lwip_init makes it
\* four segments.
ASSUME TcpAssumption ==
  /\ {Mss, DupThreshold, MaxRtx, SynMaxRtx} \subseteq Nat \ {0}
  /\ TcpWnd \in Nat /\ Mss <= TcpWnd /\ TcpWnd < 65536

\* A pcb after tcp_alloc and the espconn connection it will belong to.
Alloc == [st |-> "CLOSED", listens |-> FALSE,
          snd_nxt |-> 0, lastack |-> 0, snd_lbb |-> 0,
          snd_wnd |-> 0, snd_wl1 |-> 0, snd_wl2 |-> 0,
          cwnd |-> 1, unsent |-> <<>>, unacked |-> <<>>,
          timing |-> FALSE,      \* rtime # -1
          nrtx |-> 0, dupacks |-> 0,
          persist |-> FALSE,     \* persist_backoff # 0
          rcv_nxt |-> 0, rcv_wnd |-> TcpWnd, rcv_ann_wnd |-> TcpWnd,
          rcv_ann_right_edge |-> 0, ooseq |-> <<>>,
          flags |-> {}, recv_flags |-> {}, recv_data |-> <<>>,
          drv |-> <<>>,          \* segments whose pbuf the driver has (ref, eb)
          slots |-> 0,           \* how many the driver of this host can have
          hold |-> FALSE, holded |-> 0,  \* espconn_recv_hold
          written |-> 0, got |-> <<>>, eof |-> FALSE, err |-> FALSE,
          out |-> <<>>]

\* How many places at the head of q are in I.
Lead(q, I) == LET no == DOMAIN q \ I
              IN  IF no = {} THEN Len(q) ELSE Min(no) - 1

SeqBetween(x, lo, hi) == lo <= x /\ x <= hi
Bit(b) == IF b THEN 1 ELSE 0
TcpLen(s) == Len(s.data) + Bit(s.syn \/ s.fin)
End(s) == s.seq + TcpLen(s)

Seg(seq, data, syn, fin) == [seq |-> seq, data |-> data, syn |-> syn, fin |-> fin]

\* A segment on the way.
Packet(e, s, ack) ==
  [seq |-> s.seq, data |-> s.data, syn |-> s.syn, fin |-> s.fin, rst |-> FALSE,
   ack |-> ack, ackno |-> e.rcv_nxt, wnd |-> e.rcv_ann_wnd]

\* tcp_rst.
Reset(seq, ackno) ==
  [seq |-> seq, data |-> <<>>, syn |-> FALSE, fin |-> FALSE, rst |-> TRUE,
   ack |-> TRUE, ackno |-> ackno, wnd |-> TcpWnd]

Announced(e) == [e EXCEPT !.rcv_ann_right_edge = e.rcv_nxt + e.rcv_ann_wnd]
Send(e, m) == [e EXCEPT !.out = Append(@, m)]

AckNow(e) == [e EXCEPT !.flags = @ \cup {"ACK_NOW"}]
NoAckDue(e) == [e EXCEPT !.flags = @ \ {"ACK_NOW", "ACK_DELAY"}]

\* tcp_ack: the second ACK that is due is sent at once.
Ack(e) == IF "ACK_DELAY" \in e.flags THEN AckNow([e EXCEPT !.flags = @ \ {"ACK_DELAY"}])
          ELSE [e EXCEPT !.flags = @ \cup {"ACK_DELAY"}]

\* tcp_send_empty_ack, with tcp_output_alloc_header.
SendEmptyAck(e) ==
  LET ack == Packet(e, Seg(e.snd_nxt, <<>>, FALSE, FALSE), TRUE)
  IN  NoAckDue(Announced(Send(e, ack)))

-----------------------------------------------------------------------------
\* Where tcp_output and tcp_rexmit put a segment among others.
InsertSeg(q, s) ==
  LET k == Lead(q, {i \in DOMAIN q : q[i].seq < s.seq})
  IN  SubSeq(q, 1, k) \o <<s>> \o SubSeq(q, k + 1, Len(q))

Need(e, s) == s.seq - e.lastack + Len(s.data)

\* Mutant: only the first byte has to fit.
FitsByStart(e, s, wnd) == SeqBetween(s.seq - e.lastack, 0, wnd)

Fits(e, s, wnd) == SeqBetween(Need(e, s), 0, wnd)

\* The driver sends in order, and the oldest when there are too many.
Driven(e, p) ==
  LET q == Append(e.drv, p)
  IN  IF Len(q) <= e.slots THEN [e EXCEPT !.drv = q]
      ELSE [Send(e, Head(q)) EXCEPT !.drv = Tail(q)]

Held(e, s) == \E i \in DOMAIN e.drv : e.drv[i].seq = s.seq

\* tcp_output_segment and the queueing after it.
Transmit(e, s) ==
  LET acks == e.st # "SYN_SENT"
      f    == IF acks THEN NoAckDue(e) ELSE e
  IN  [Announced(Driven(f, Packet(e, s, acks))) EXCEPT
         !.snd_nxt = IF End(s) > @ THEN End(s) ELSE @,
         !.unacked = InsertSeg(@, s),
         !.timing = TRUE]

\* The loop of tcp_output over the segments of q.
SendAll(e, q) ==
  LET sent[i \in 0 .. Len(q)] == IF i = 0 THEN e ELSE Transmit(sent[i - 1], q[i])
  IN  sent[Len(q)]

\* Mutant: a closed window is not probed.
NeverProbes(e, rest) == FALSE

\* Whether the persist timer must run.
WindowTooSmall(e, rest) == rest # <<>> /\ ~Fits(e, Head(rest), e.snd_wnd)

\* tcp_output.
Output(e) ==
  LET wnd   == IF e.cwnd < e.snd_wnd THEN e.cwnd ELSE e.snd_wnd
      go    == {i \in DOMAIN e.unsent : /\ Fits(e, e.unsent[i], wnd)
                                        /\ ~Held(e, e.unsent[i])}
      ready == Lead(e.unsent, go)
      sent  == SendAll(e, SubSeq(e.unsent, 1, ready))
      rest  == SubSeq(e.unsent, ready + 1, Len(e.unsent))
  IN  IF "ACK_NOW" \in e.flags /\ (e.unsent = <<>> \/ ~Fits(e, Head(e.unsent), wnd))
      THEN SendEmptyAck(e)
      ELSE [sent EXCEPT !.unsent = rest,
                        !.persist = @ \/ WindowTooSmall(e, rest)]

\* tcp_enqueue_flags and tcp_write refuse: snd_buf is 0, or the queues are full
\* (a segment counts for one pbuf).
QueueFull(e) == Len(e.unsent) + Len(e.unacked) >= SndQueueLen
NoRoom(e) == e.snd_lbb - e.lastack >= SndBuf \/ QueueFull(e)

\* tcp_enqueue_flags, where there is room: always for a SYN.
EnqueueFlags(e, syn, fin) ==
  [e EXCEPT !.unsent = Append(@, Seg(e.snd_lbb, <<>>, syn, fin)), !.snd_lbb = @ + 1]

\* tcp_send_fin, and when it fails: the FIN needs a segment of its own.
TakesFin(e) == e.unsent # <<>> /\ ~Last(e.unsent).syn /\ ~Last(e.unsent).fin
FinFails(e) == ~TakesFin(e) /\ NoRoom(e)

SendFin(e) ==
  IF TakesFin(e)
  THEN [e EXCEPT !.unsent = Append(Front(@), [Last(@) EXCEPT !.fin = TRUE])]
  ELSE EnqueueFlags(e, FALSE, TRUE)

\* tcp_write of the next n bytes: what fits goes into the last unsent segment
\* (when that has data), the rest into new ones.
TcpWrite(e, n) ==
  LET bytes == [i \in 1 .. n |-> e.written + i]
      chain == e.unsent # <<>> /\ Last(e.unsent).data # <<>>
      space == IF chain THEN Mss - Len(Last(e.unsent).data) ELSE 0
      k     == IF n < space THEN n ELSE space
      tail  == IF k = 0 THEN e.unsent
               ELSE Append(Front(e.unsent),
                           [Last(e.unsent) EXCEPT !.data = @ \o SubSeq(bytes, 1, k)])
      more  == [i \in 1 .. (n - k + Mss - 1) \div Mss |->
                  LET from == k + (i - 1) * Mss IN
                    Seg(e.snd_lbb + from,
                        SubSeq(bytes, from + 1, Min({from + Mss, n})), FALSE, FALSE)]
  IN  [e EXCEPT !.unsent = tail \o more, !.snd_lbb = @ + n, !.written = @ + n]

\* nrtx is counted to one past the limits, where it no longer meets them.
Again(n) == Min({n + 1, Max({MaxRtx, SynMaxRtx}) + 1})

\* tcp_rexmit.
Rexmit(e) ==
  IF e.unacked = <<>> THEN e
  ELSE [e EXCEPT !.unacked = Tail(@), !.unsent = InsertSeg(@, Head(e.unacked)),
                 !.nrtx = Again(@)]

\* tcp_rexmit_fast.
RexmitFast(e) ==
  IF e.unacked = <<>> \/ "INFR" \in e.flags THEN e
  ELSE [Rexmit(e) EXCEPT !.cwnd = 2 * Mss, !.flags = @ \cup {"INFR"}]

\* The segments of q at the places in I, in their order.
Picked(q, I) ==
  LET p[i \in 0 .. Len(q)] ==
        IF i = 0 THEN <<>> ELSE p[i - 1] \o (IF i \in I THEN <<q[i]>> ELSE <<>>)
  IN  p[Len(q)]

\* Mutant of RexmitRto: what is sent again goes behind what is unsent.
RexmitRtoBehind(e) ==
  LET held == {i \in DOMAIN e.unacked : Held(e, e.unacked[i])}
  IN  Output([e EXCEPT !.unacked = Picked(@, held),
                       !.unsent = @ \o Picked(e.unacked, DOMAIN e.unacked \ held),
                       !.nrtx = Again(@)])

\* tcp_rexmit_rto: the driver's segments stay, the others are sent again.
RexmitRto(e) ==
  LET held == {i \in DOMAIN e.unacked : Held(e, e.unacked[i])}
  IN  Output([e EXCEPT !.unacked = Picked(@, held),
                       !.unsent = Picked(e.unacked, DOMAIN e.unacked \ held) \o @,
                       !.nrtx = Again(@)])

\* tcp_zero_window_probe.
ZeroWindowProbe(e) ==
  LET s   == IF e.unacked # <<>> THEN Head(e.unacked) ELSE Head(e.unsent)
      one == SubSeq(s.data, 1, Min({1, Len(s.data)}))
      fin == s.fin /\ s.data = <<>>
  IN  IF e.unacked \o e.unsent = <<>> THEN e
      ELSE Announced(Send(e, Packet(e, Seg(s.seq, one, FALSE, fin), TRUE)))
=============================================================================
