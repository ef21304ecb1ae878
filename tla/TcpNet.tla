------------------------------- MODULE TcpNet -------------------------------
(***************************************************************************)
(* A connection between two devices that both run this code: Active        *)
(* connects (espconn_connect), Passive accepts one connection              *)
(* (espconn_accept).  Segments are lost, delayed and reordered.  What      *)
(* tcp_slowtmr and tcp_fasttmr do to a pcb are actions of their own, at    *)
(* any time their conditions hold.                                         *)
(***************************************************************************)
EXTENDS TcpInput

CONSTANTS Active, Passive,
          Budget,  \* bytes each application writes
          MaxNet,  \* segments on the way to each host
          Slots,   \* segments that may wait in the Wi-Fi driver of each host
          Holder,  \* hosts whose application uses espconn_recv_hold
          Closer   \* hosts that disconnect: espconn_disconnect, or the timeout
                   \* of espconn_server_poll

ASSUME HostsAssumption == Active # Passive

VARIABLES pcb, net
vars == <<pcb, net>>

Hosts == {Active, Passive}
Peer(h) == IF h = Active THEN Passive ELSE Active

Init ==
  /\ pcb = [h \in Hosts |->
              IF h = Active THEN [Alloc EXCEPT !.slots = Slots[h]]
              ELSE [Alloc EXCEPT !.slots = Slots[h], !.st = "LISTEN", !.listens = TRUE]]
  /\ net = [h \in Hosts |-> {}]

\* What is on the way to host h when the segments ms are sent too: a full
\* network loses them.
Carried(h, air, ms) ==
  air \cup {ms[i] : i \in {j \in DOMAIN ms :
                           Cardinality(air \cup Range(SubSeq(ms, 1, j - 1))) < MaxNet[h]}}

\* Host h becomes e, with m taken off the network.
Does(h, e, m) ==
  /\ pcb' = [pcb EXCEPT ![h] = [e EXCEPT !.out = <<>>]]
  /\ net' = [net EXCEPT ![h] = @ \ m, ![Peer(h)] = Carried(Peer(h), @, e.out)]

Alive(h) == pcb[h].st \notin {"CLOSED", "LISTEN", "GONE", "TIME_WAIT"}

\* espconn_connect and tcp_connect.
TcpConnect(h) ==
  /\ h = Active /\ pcb[h].st = "CLOSED"
  /\ Does(h, Output(EnqueueFlags([pcb[h] EXCEPT !.st = "SYN_SENT", !.snd_nxt = 1,
                                                !.snd_wnd = TcpWnd], TRUE, FALSE)), {})

\* What the application may do with a connection it was not told the end of.
MayUse(h) == pcb[h].st \in {"ESTABLISHED", "CLOSE_WAIT"}

\* espconn_tcp_write: tcp_write and tcp_output of what snd_buf has room for.
EspconnWrite(h) ==
  /\ MayUse(h) /\ ~QueueFull(pcb[h])
  /\ \E n \in 1 .. Budget[h] - pcb[h].written :
       /\ pcb[h].snd_lbb - pcb[h].lastack + n <= SndBuf
       /\ Does(h, Output(TcpWrite(pcb[h], n)), {})

\* espconn_disconnect.
EspconnClose(h) ==
  /\ h \in Closer /\ (pcb[h].st = "SYN_SENT" \/ MayUse(h))
  /\ LET e == TcpClose(pcb[h])
     IN  Does(h, IF e.st \in {"FIN_WAIT_1", "LAST_ACK"} THEN Output(e) ELSE e, {})

EspconnRecvHold(h) ==
  /\ h \in Holder /\ MayUse(h) /\ ~pcb[h].hold
  /\ Does(h, [pcb[h] EXCEPT !.hold = TRUE, !.holded = 0], {})

\* espconn_recv_unhold: tcp_recved and its tcp_output.
EspconnRecvUnhold(h) ==
  /\ MayUse(h) /\ pcb[h].hold
  /\ LET e == Recved([pcb[h] EXCEPT !.hold = FALSE, !.holded = 0], pcb[h].holded)
     IN  Does(h, IF "ACK_NOW" \in e.flags THEN Output(e) ELSE e, {})

TcpInputAction(h) ==
  \E m \in net[h] : Does(h, TcpInputSegment(pcb[h], m), {m})

Lose(h) == \E m \in net[h] : /\ net' = [net EXCEPT ![h] = @ \ {m}]
                             /\ UNCHANGED pcb

DriverDone(h) ==
  /\ pcb[h].drv # <<>>
  /\ Does(h, [Send(pcb[h], Head(pcb[h].drv)) EXCEPT !.drv = Tail(@)], {})

-----------------------------------------------------------------------------
\* tcp_slowtmr.
Limit(e) == IF e.st = "SYN_SENT" THEN SynMaxRtx ELSE MaxRtx
GivesUp(e) == e.nrtx \in {Limit(e), MaxRtx}

RetransmissionTimeout(h) ==
  /\ Alive(h) /\ ~GivesUp(pcb[h]) /\ ~pcb[h].persist
  /\ pcb[h].timing /\ pcb[h].unacked # <<>>
  /\ Does(h, RexmitRto([pcb[h] EXCEPT !.cwnd = Mss]), {})

Persist(h) == /\ Alive(h) /\ ~GivesUp(pcb[h]) /\ pcb[h].persist
              /\ Does(h, ZeroWindowProbe(pcb[h]), {})

\* Too many retransmissions, or a state that lasted too long.
RemovePcb(h) ==
  /\ Alive(h)
  /\ GivesUp(pcb[h]) \/ pcb[h].st \in {"FIN_WAIT_2", "SYN_RCVD", "LAST_ACK"}
  /\ Does(h, Fails(pcb[h]), {})

OoseqTimeout(h) == /\ pcb[h].ooseq # <<>>
                   /\ Does(h, [pcb[h] EXCEPT !.ooseq = <<>>], {})

\* TCP_EVENT_POLL and its tcp_output: espconn_server_poll closes again, a client
\* has no poll callback.
Polled(e) == IF e.listens /\ e.st = "CLOSE_WAIT" THEN CloseAtEof(e) ELSE e
Poll(h) == /\ Alive(h)
           /\ Does(h, Output(Polled(pcb[h])), {})

TimeWaitEnds(h) == /\ pcb[h].st = "TIME_WAIT" /\ net[h] = {} /\ pcb[Peer(h)].drv = <<>>
                   /\ Does(h, Gone(pcb[h], pcb[h].err), {})

\* tcp_fasttmr.
DelayedAck(h) == /\ Alive(h) /\ "ACK_DELAY" \in pcb[h].flags
                 /\ Does(h, NoAckDue(Output(AckNow(pcb[h]))), {})

Next ==
  \E h \in Hosts :
    \/ TcpConnect(h) \/ EspconnWrite(h) \/ EspconnClose(h)
    \/ EspconnRecvHold(h) \/ EspconnRecvUnhold(h)
    \/ TcpInputAction(h) \/ Lose(h) \/ DriverDone(h)
    \/ RetransmissionTimeout(h) \/ Persist(h) \/ RemovePcb(h) \/ OoseqTimeout(h)
    \/ Poll(h) \/ TimeWaitEnds(h) \/ DelayedAck(h)

Spec == Init /\ [][Next]_vars

-----------------------------------------------------------------------------
States == {"CLOSED", "LISTEN", "SYN_SENT", "SYN_RCVD", "ESTABLISHED", "FIN_WAIT_1",
           "FIN_WAIT_2", "CLOSE_WAIT", "CLOSING", "LAST_ACK", "TIME_WAIT", "GONE"}

\* The shape of the pcbs: the windows are of 16 bits, what is acknowledged was
\* sent and what is sent was queued, and tcp_input leaves nothing behind.
TypeOK ==
  \A h \in Hosts : LET e == pcb[h] IN
    /\ e.st \in States
    /\ e.rcv_wnd \in Nat /\ e.rcv_wnd < 65536
    /\ e.rcv_ann_wnd \in Nat /\ e.rcv_ann_wnd < 65536
    /\ e.lastack <= e.snd_nxt /\ e.snd_nxt <= e.snd_lbb + 1
    /\ e.out = <<>> /\ e.recv_data = <<>> /\ e.recv_flags = {}

\* tcp_write (tcp_out.c:428) adds what the application writes to the last
\* segment of unsent, for which that segment has to be the end of the stream.
EndsTheStream(e) ==
  LET s == Last(e.unsent) IN
  e.unsent # <<>> /\ ~s.syn /\ ~s.fin => DataEnd(s) = e.snd_lbb
AppendsAtEnd == \A h \in Hosts : MayUse(h) => EndsTheStream(pcb[h])

\* The receive callbacks of espconn hand on what the other application wrote,
\* in order, without a gap and nothing twice, whatever the network loses,
\* delays or brings again (tcp_receive).
StreamIntact ==
  \A h \in Hosts : LET got == pcb[h].got IN
    /\ Len(got) <= pcb[Peer(h)].written
    /\ \A i \in DOMAIN got : got[i] = i

\* An application that sees the orderly end of a stream (TCP_EVENT_CLOSED) has
\* got all that the other one wrote before it disconnected (tcp_send_fin).
EofIsTheEnd ==
  \A h \in Hosts : pcb[h].eof => Len(pcb[h].got) = pcb[Peer(h)].written

\* While a connection lives, each byte its application wrote is still in one of
\* its queues or with the other application: no acknowledgement, retransmission
\* or timeout takes away a byte that did not arrive.
NothingForgotten ==
  \A h \in Hosts : Alive(h) =>
    \A i \in Len(pcb[Peer(h)].got) + 1 .. pcb[h].written :
      \E s \in Range(pcb[h].unsent \o pcb[h].unacked) : Contains(s.data, i)

\* What waits for its acknowledgement stays inside the window: the right edge
\* that the peer announces (tcp_update_rcv_ann_wnd), and what tcp_receive takes
\* for news of it, do not move back over what was sent.  The code keeps this
\* where one host writes.  When both do, a repeated segment acknowledges anew
\* but its number is too old for its window to count, and what follows may go
\* beyond it.
WindowKept ==
  \A h \in Hosts : Alive(h) =>
    \A s \in Range(pcb[h].unacked) : DataEnd(s) <= pcb[h].lastack + pcb[h].snd_wnd

\* Something still moves a connection that has data to send: the persist timer,
\* the retransmission timer, the driver, or the next poll of tcp_slowtmr, whose
\* tcp_output sends or starts the persist timer.  No end waits for the other
\* one for ever, whatever the windows are.
Stirs(e) == e.persist \/ e.unacked # <<>>
NeverStalled ==
  \A h \in Hosts :
    Alive(h) /\ pcb[h].unsent # <<>> =>
      Stirs(pcb[h]) \/ pcb[h].drv # <<>> \/ Stirs(Output(pcb[h]))

\* An established or connecting pcb does not go without a word: its application
\* gets the end of the stream or the error callback, unless it disconnected.
NoSilentEnd ==
  [][\A h \in Hosts :
       pcb'[h].st = "GONE" /\ Alive(h) /\ pcb[h].st # "SYN_RCVD" =>
         ~Listening(pcb[h]) \/ EspconnClose(h) \/ pcb'[h].eof \/ pcb'[h].err]_vars

\* The assertion "tcp_receive: ooseq tcplen > rcv_wnd" (tcp_in.c:1376): what
\* tcp_receive takes from ooseq fits the window.  It compiles to nothing (cc.h);
\* where it does not hold rcv_wnd wraps, past every window the host may have.
OoseqFits ==
  \A h \in Hosts : \A m \in net[h] :
    pcb[h].st \in {"ESTABLISHED", "FIN_WAIT_1", "FIN_WAIT_2"} =>
      TcpReceive(pcb[h], m).rcv_wnd <= TcpWnd
=============================================================================
