------------------------------ MODULE TcpInput ------------------------------
(***************************************************************************)
(* core/tcp_in.c: what one end does with a segment m that has arrived, and *)
(* core/tcp.c: closing, the window and the timers.  While tcp_input runs,  *)
(* tcp_output does nothing; it is called once at the end.                  *)
(***************************************************************************)
EXTENDS TcpEnd

\* rcv_wnd and rcv_ann_wnd are u16_t.
U16(n) == n % 65536

\* tcp_update_rcv_ann_wnd: the window is not moved by less than a segment.
Edge(e) == e.rcv_nxt + e.rcv_wnd
Moved(e) == Edge(e) >= e.rcv_ann_right_edge + Min({TcpWnd \div 2, Mss})

UpdateAnnWnd(e) ==
  [e EXCEPT !.rcv_ann_wnd =
     IF Moved(e) THEN e.rcv_wnd
     ELSE IF e.rcv_nxt > e.rcv_ann_right_edge THEN 0
     ELSE U16(e.rcv_ann_right_edge - e.rcv_nxt)]

\* tcp_recved, up to its tcp_output; TCP_WND_UPDATE_THRESHOLD is a quarter.
Recved(e, n) ==
  LET f == [e EXCEPT !.rcv_wnd = Min({U16(@ + n), TcpWnd})]
      u == UpdateAnnWnd(f)
  IN  IF Moved(f) /\ Edge(f) - f.rcv_ann_right_edge >= TcpWnd \div 4 THEN AckNow(u) ELSE u

\* tcp_pcb_purge.
Purge(e) == [e EXCEPT !.unsent = <<>>, !.unacked = <<>>, !.ooseq = <<>>,
                      !.timing = FALSE]

\* The pcb is freed; what the two applications saw stays.
Gone(e, err) ==
  [Alloc EXCEPT !.listens = e.listens, !.written = e.written, !.got = e.got,
                !.eof = e.eof, !.err = err, !.out = e.out, !.drv = e.drv, !.slots = e.slots, !.st = "GONE"]

\* espconn takes its callbacks back when its tcp_close succeeds.
Listening(e) == "UNREGISTERED" \notin e.flags

\* Mutant: only a connection that was not made tells its application.
FailsQuietly(e) == Gone(e, e.err \/ (Listening(e) /\ e.st = "SYN_SENT"))

\* TCP_EVENT_ERR: the callback of an accepted or an active connection.
Fails(e) == Gone(e, e.err \/ (Listening(e) /\ e.st # "SYN_RCVD"))

\* tcp_abort by tcp_input, after a tcp_close.
Abort(e) == IF e.st = "TIME_WAIT" THEN Gone(e, e.err)
            ELSE Fails(Send(e, Reset(e.snd_nxt, e.rcv_nxt)))

TimeWait(e) == [Purge(e) EXCEPT !.st = "TIME_WAIT"]

\* espconn_client_close and espconn_server_close: a tcp_close that cannot queue
\* the FIN leaves the connection and its callbacks as they are, with TF_RXCLOSED ...
CloseFails(e) ==
  e.rcv_wnd = TcpWnd /\ e.st \in {"ESTABLISHED", "CLOSE_WAIT"} /\ FinFails(e)
CloseFailed(e) == [e EXCEPT !.flags = @ \cup {"RXCLOSED"}]

\* ... and one that can takes them back.
CloseDone(e) ==
  LET f == [e EXCEPT !.flags = @ \cup {"RXCLOSED", "UNREGISTERED"}] IN
  CASE f.rcv_wnd # TcpWnd -> TimeWait(Send(f, Reset(f.snd_nxt, f.rcv_nxt)))
    [] f.rcv_wnd = TcpWnd /\ f.st = "SYN_SENT" -> Gone(f, f.err)
    [] f.rcv_wnd = TcpWnd /\ f.st = "ESTABLISHED" -> [SendFin(f) EXCEPT !.st = "FIN_WAIT_1"]
    [] f.rcv_wnd = TcpWnd /\ f.st = "CLOSE_WAIT" -> [SendFin(f) EXCEPT !.st = "LAST_ACK"]

TcpClose(e) == IF CloseFails(e) THEN CloseFailed(e) ELSE CloseDone(e)

\* The same at the end of the peer's stream: the disconnect callback follows.
CloseAtEof(e) ==
  IF CloseFails(e) THEN CloseFailed(e) ELSE CloseDone([e EXCEPT !.eof = TRUE])

-----------------------------------------------------------------------------
\* The first part of tcp_receive: the window, lastack and the queues.
WindowNews(e, m) ==
  \/ e.snd_wl1 < m.seq
  \/ e.snd_wl1 = m.seq /\ e.snd_wl2 < m.ackno
  \/ e.snd_wl2 = m.ackno /\ m.wnd > e.snd_wnd

UpdateSndWnd(e, m) ==
  IF ~WindowNews(e, m) THEN e
  ELSE [e EXCEPT !.snd_wnd = m.wnd, !.snd_wl1 = m.seq, !.snd_wl2 = m.ackno,
                 !.persist = @ /\ m.wnd = 0]

\* An ACK for nothing new.  dupacks counts no further than it matters.
OldAck(e, m, rightEdge) ==
  LET dup == TcpLen(m) = 0 /\ e.snd_wl2 + e.snd_wnd = rightEdge /\ e.timing
             /\ e.lastack = m.ackno
      n   == IF e.dupacks > DupThreshold THEN e.dupacks ELSE e.dupacks + 1
      f   == [e EXCEPT !.dupacks = IF dup THEN n ELSE 0]
  IN  CASE ~dup \/ n < DupThreshold -> f
        [] dup /\ n = DupThreshold -> RexmitFast(f)
        [] dup /\ n > DupThreshold -> [f EXCEPT !.cwnd = 2 * Mss]

\* Mutant: a segment that begins at ackno is dropped too.
NewAckTooFar(e, m) ==
  LET n == Lead(e.unacked, {i \in DOMAIN e.unacked : e.unacked[i].seq <= m.ackno})
      rest == SubSeq(e.unacked, n + 1, Len(e.unacked))
  IN  [e EXCEPT !.flags = @ \ {"INFR"}, !.cwnd = 2 * Mss, !.nrtx = 0, !.dupacks = 0,
                !.lastack = m.ackno, !.unacked = rest, !.timing = rest # <<>>]

\* An ACK that makes progress.
NewAck(e, m) ==
  LET n == Lead(e.unacked, {i \in DOMAIN e.unacked : End(e.unacked[i]) <= m.ackno})
      rest == SubSeq(e.unacked, n + 1, Len(e.unacked))
  IN  [e EXCEPT !.flags = @ \ {"INFR"}, !.cwnd = 2 * Mss, !.nrtx = 0, !.dupacks = 0,
                !.lastack = m.ackno, !.unacked = rest, !.timing = rest # <<>>]

\* Segments that wait for their retransmission may be acknowledged too.
AckUnsent(e, m) ==
  LET done == {i \in DOMAIN e.unsent : SeqBetween(m.ackno, End(e.unsent[i]), e.snd_nxt)}
      n == Lead(e.unsent, done)
  IN  [e EXCEPT !.unsent = SubSeq(@, n + 1, Len(@))]

ReceiveAck(e, m) ==
  LET f == UpdateSndWnd(e, m)
      g == IF m.ackno <= f.lastack THEN OldAck(f, m, e.snd_wl2 + e.snd_wnd)
           ELSE IF m.ackno <= f.snd_nxt THEN NewAck(f, m)
           ELSE f
  IN  IF m.ack THEN AckUnsent(g, m) ELSE e

-----------------------------------------------------------------------------
\* The second part: the data.  len is without SYN and FIN.
DataEnd(s) == s.seq + Len(s.data)

CutAt(s, edge) == [s EXCEPT !.data = SubSeq(@, 1, Min({Len(@), edge - s.seq}))]

\* s is put before q: what it covers goes, and s ends where the rest begins.
Cover(s, q) ==
  LET n    == Lead(q, {i \in DOMAIN q : DataEnd(q[i]) <= s.seq + TcpLen(s)})
      f    == [s EXCEPT !.fin = @ \/ \E i \in 1 .. n : q[i].fin]
      rest == SubSeq(q, n + 1, Len(q))
  IN  IF s.fin THEN <<s, <<>>>>
      ELSE <<IF rest = <<>> THEN f ELSE CutAt(f, Head(rest).seq), rest>>

\* The queue of segments beyond rcv_nxt, sorted and without overlaps.
InsertOoseq(e, s) ==
  LET q     == e.ooseq
      k     == Lead(q, {i \in DOMAIN q : q[i].seq < s.seq})
      after == SubSeq(q, k + 1, Len(q))
      same  == after # <<>> /\ Head(after).seq = s.seq
      prev  == IF k = 0 THEN <<>>
               ELSE SubSeq(q, 1, k - 1) \o <<IF same THEN q[k] ELSE CutAt(q[k], s.seq)>>
      over  == End(s) > Edge(e)
      last  == IF q # <<>> /\ over
               THEN [CutAt(s, Edge(e)) EXCEPT !.fin = FALSE] ELSE s
      put   == Cover(s, after)
  IN  CASE after = <<>> /\ k > 0 /\ q[k].fin -> q
        [] after = <<>> /\ ~(k > 0 /\ q[k].fin) -> prev \o <<last>>
        [] same /\ Len(s.data) <= Len(Head(after).data) -> q
        [] after # <<>> /\ ~(same /\ Len(s.data) <= Len(Head(after).data)) ->
             prev \o <<put[1]>> \o put[2]

\* A segment that is next in the stream.
Deliver(e, s) ==
  UpdateAnnWnd([e EXCEPT !.rcv_nxt = End(s), !.rcv_wnd = U16(@ - TcpLen(s)),
                         !.recv_data = @ \o s.data,
                         !.recv_flags = IF s.fin THEN @ \cup {"GOT_FIN"} ELSE @])

\* The first segment of ooseq, when it is the next one now.
Dequeue(e) ==
  LET s == Head(e.ooseq) IN
  IF e.ooseq = <<>> \/ s.seq # e.rcv_nxt THEN e
  ELSE [Deliver(e, s) EXCEPT
          !.st = IF s.fin /\ @ = "ESTABLISHED" THEN "CLOSE_WAIT" ELSE @, !.ooseq = Tail(@)]

Drain(e) ==
  LET f[i \in 0 .. Len(e.ooseq)] == IF i = 0 THEN e ELSE Dequeue(f[i - 1])
  IN  f[Len(e.ooseq)]

InSequence(e, s) ==
  LET t    == IF TcpLen(s) > e.rcv_wnd
              THEN [CutAt(s, Edge(e)) EXCEPT !.fin = FALSE] ELSE s
      put  == Cover(t, e.ooseq)
  IN  Ack(Drain([Deliver(e, put[1]) EXCEPT !.ooseq = put[2]]))

\* Mutant: the sequence number is moved, the data is not.
TrimmedNumber(e, m) ==
  Seg(IF SeqBetween(e.rcv_nxt - m.seq, 1, TcpLen(m) - 1) THEN e.rcv_nxt ELSE m.seq,
      m.data, FALSE, m.fin)

\* The part of m the receiver does not have.
Trimmed(e, m) ==
  LET off == e.rcv_nxt - m.seq IN
  IF SeqBetween(off, 1, TcpLen(m) - 1)
  THEN Seg(e.rcv_nxt, SubSeq(m.data, off + 1, Len(m.data)), FALSE, m.fin)
  ELSE Seg(m.seq, m.data, FALSE, m.fin)

ReceiveData(e, m) ==
  LET s == Trimmed(e, m)
      f == IF s.seq < e.rcv_nxt THEN AckNow(e) ELSE e
      inWindow == SeqBetween(s.seq, e.rcv_nxt, Edge(e) - 1)
  IN  CASE TcpLen(m) = 0 ->
             IF SeqBetween(m.seq, e.rcv_nxt, Edge(e) - 1) THEN e ELSE AckNow(e)
        [] TcpLen(m) > 0 /\ ~inWindow -> SendEmptyAck(f)
        [] TcpLen(m) > 0 /\ inWindow /\ s.seq = e.rcv_nxt -> InSequence(f, s)
        [] TcpLen(m) > 0 /\ inWindow /\ s.seq # e.rcv_nxt ->
             [SendEmptyAck(f) EXCEPT !.ooseq = InsertOoseq(e, s)]

\* tcp_receive.
TcpReceive(e, m) == ReceiveData(ReceiveAck(e, m), m)

-----------------------------------------------------------------------------
InWindow(e, seq) == SeqBetween(seq, e.rcv_nxt, Edge(e))
Answer(e, m) == Send(e, Reset(m.ackno, End(m)))

\* An end that has no pcb for the segment: tcp_input.
NoPcb(e, m) == IF m.rst THEN e ELSE Answer(e, m)

\* tcp_listen_input; the second connection is refused by MaxConnections = 1.
ListenInput(e, m) ==
  CASE m.ack -> Send(e, Reset(m.ackno + 1, End(m)))
    [] m.syn /\ ~m.ack /\ e.st = "LISTEN" ->
         Output(EnqueueFlags(
           [e EXCEPT !.st = "SYN_RCVD", !.rcv_nxt = m.seq + 1,
                     !.rcv_ann_right_edge = m.seq + 1, !.snd_wnd = m.wnd,
                     !.snd_wl1 = m.seq - 1], TRUE, FALSE))
    [] ~m.ack /\ ~(m.syn /\ e.st = "LISTEN") -> e

\* tcp_timewait_input.
TimeWaitInput(e, m) ==
  CASE m.rst -> e
    [] ~m.rst /\ m.syn /\ InWindow(e, m.seq) -> Answer(e, m)
    [] ~m.rst /\ ~(m.syn /\ InWindow(e, m.seq)) ->
         IF TcpLen(m) > 0 THEN Output(AckNow(e)) ELSE e

\* tcp_process, with the pcb in SYN_SENT.
SynSent(e, m) ==
  CASE m.ack /\ m.syn /\ m.ackno = Head(e.unacked).seq + 1 ->
         AckNow([e EXCEPT
           !.rcv_nxt = m.seq + 1, !.rcv_ann_right_edge = m.seq + 1,
           !.lastack = m.ackno, !.snd_wnd = m.wnd, !.snd_wl1 = m.seq - 1,
           !.st = "ESTABLISHED", !.cwnd = IF @ = 1 THEN 2 * Mss ELSE Mss,
           !.unacked = Tail(@), !.timing = Len(e.unacked) > 1, !.nrtx = 0])
    [] m.ack /\ ~(m.syn /\ m.ackno = Head(e.unacked).seq + 1) -> Answer(e, m)
    [] ~m.ack -> e

\* Mutant: a FIN that waits in ooseq counts.
FinSeen(e) == "GOT_FIN" \in e.recv_flags \/ \E s \in Range(e.ooseq) : s.fin

GotFin(e) == "GOT_FIN" \in e.recv_flags
PassiveClose(e) == IF GotFin(e) THEN [AckNow(e) EXCEPT !.st = "CLOSE_WAIT"] ELSE e

SynRcvd(e, m) ==
  LET f == TcpReceive([e EXCEPT !.st = "ESTABLISHED"], m) IN
  CASE m.ack /\ SeqBetween(m.ackno, e.lastack + 1, e.snd_nxt) ->
         PassiveClose([f EXCEPT !.cwnd = IF e.cwnd = 1 THEN 2 * Mss ELSE Mss])
    [] m.ack /\ ~SeqBetween(m.ackno, e.lastack + 1, e.snd_nxt) -> Answer(e, m)
    [] ~m.ack -> IF m.syn /\ m.seq = e.rcv_nxt - 1 THEN Rexmit(e) ELSE e

\* tcp_process, in the states of a connection.
Connected(e, m) ==
  LET f     == TcpReceive(e, m)
      acked == m.ack /\ m.ackno = f.snd_nxt
  IN  CASE e.st \in {"ESTABLISHED", "CLOSE_WAIT"} -> PassiveClose(f)
        [] e.st = "FIN_WAIT_1" ->
             IF ~GotFin(f) THEN [f EXCEPT !.st = IF acked THEN "FIN_WAIT_2" ELSE @]
             ELSE IF acked THEN TimeWait(AckNow(f)) ELSE [AckNow(f) EXCEPT !.st = "CLOSING"]
        [] e.st = "FIN_WAIT_2" -> IF GotFin(f) THEN TimeWait(AckNow(f)) ELSE f
        [] e.st = "CLOSING" -> IF acked THEN TimeWait(f) ELSE f
        [] e.st = "LAST_ACK" ->
             IF acked THEN [f EXCEPT !.recv_flags = @ \cup {"CLOSED"}] ELSE f

TcpProcess(e, m) ==
  CASE m.rst ->
         IF IF e.st = "SYN_SENT" THEN m.ackno = e.snd_nxt ELSE InWindow(e, m.seq)
         THEN [e EXCEPT !.recv_flags = {"RESET"}] ELSE e
    [] ~m.rst /\ m.syn /\ e.st \notin {"SYN_SENT", "SYN_RCVD"} -> AckNow(e)
    [] ~m.rst /\ e.st = "SYN_SENT" -> SynSent(e, m)
    [] ~m.rst /\ e.st = "SYN_RCVD" -> SynRcvd(e, m)
    [] ~m.rst /\ ~m.syn /\ e.st \notin {"SYN_SENT", "SYN_RCVD"} -> Connected(e, m)

\* Mutant: the data of this segment is there again with the next one.
EventRecvKeeps(e) ==
  LET n == Len(e.recv_data)
      f == [e EXCEPT !.got = @ \o e.recv_data]
  IN  IF e.hold THEN [f EXCEPT !.holded = @ + n] ELSE IF n = 0 THEN f ELSE Recved(f, n)

\* TCP_EVENT_RECV and espconn_client_recv or espconn_server_recv.
EventRecv(e) ==
  LET n == Len(e.recv_data)
      f == [e EXCEPT !.got = @ \o e.recv_data, !.recv_data = <<>>]
  IN  IF e.hold THEN [f EXCEPT !.holded = @ + n] ELSE IF n = 0 THEN f ELSE Recved(f, n)

\* TCP_EVENT_CLOSED, after the window has got the place of the FIN back.
EventClosed(e) ==
  LET f == [e EXCEPT !.rcv_wnd = IF @ # TcpWnd THEN U16(@ + 1) ELSE @,
                     !.recv_flags = {}]
  IN  IF ~GotFin(e) THEN e
      ELSE IF Listening(e) THEN CloseAtEof(f) ELSE f

\* The end of tcp_input, after tcp_process.
Finish(e) ==
  CASE "RESET" \in e.recv_flags -> Fails(e)
    [] "CLOSED" \in e.recv_flags -> Gone(e, e.err)
    [] e.recv_flags \cap {"RESET", "CLOSED"} = {} ->
         IF e.recv_data # <<>> /\ "RXCLOSED" \in e.flags THEN Abort(e)
         ELSE Output(EventClosed(EventRecv(e)))

TcpInputSegment(e, m) ==
  CASE e.st \in {"LISTEN", "GONE"} -> IF e.listens THEN ListenInput(e, m) ELSE NoPcb(e, m)
    [] e.st = "CLOSED" -> NoPcb(e, m)
    [] e.st = "TIME_WAIT" -> TimeWaitInput(e, m)
    [] e.st \notin {"LISTEN", "GONE", "CLOSED", "TIME_WAIT"} -> Finish(TcpProcess(e, m))
=============================================================================
