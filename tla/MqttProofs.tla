----------------------------- MODULE MqttProofs -----------------------------
(***************************************************************************)
(* The client of mqtt.c for every keep-alive time, send timeout, reconnect *)
(* time and queue length: the safety properties that the runs check hold,  *)
(* each from an inductive invariant with one proof step per handler.       *)
(*                                                                         *)
(* Then the client in its application: with the invariant of the client    *)
(* alone (TimerWanted) and the agreement of wifiConnectCb with the         *)
(* session, the client never redials while the application knows it is     *)
(* offline.                                                                *)
(***************************************************************************)
EXTENDS MqttApp, SequenceTheorems, TLAPS

USE ClientAssumption

-----------------------------------------------------------------------------
\* Every handler leaves the flags Boolean.
LEMMA FlagsKept == Flags /\ [Next]_vars => Flags'
<1> SUFFICES ASSUME Flags, [Next]_vars PROVE Flags'
  OBVIOUS
<1> USE DEF Flags, Post, freed, clock, sdk, client
<1>1. CASE Calls
  <2>1. CASE MQTT_Connect
    BY <2>1 DEF MQTT_Connect, Open, FreeCon
  <2>2. CASE MQTT_Disconnect \/ MQTT_DeleteClient
    BY <2>2 DEF MQTT_Disconnect, MQTT_DeleteClient
  <2>3. ASSUME NEW p, Enqueue(p) \/ EnqueueDropping(p) PROVE Flags'
    BY <2>3 DEF Enqueue, EnqueueDropping
  <2>4. CASE EnqueueFails
    BY <2>4 DEF EnqueueFails
  <2> QED BY <1>1, <2>1, <2>2, <2>3, <2>4 DEF Calls
<1>2. CASE Callbacks
  <2> USE DEF Forget
  <2>1. CASE DnsFails \/ DnsZero \/ DnsFound
    BY <2>1 DEF DnsFails, DnsZero, DnsFound
  <2>2. CASE mqtt_tcpclient_connect_cb
    BY <2>2 DEF mqtt_tcpclient_connect_cb, Refused
  <2>3. CASE mqtt_tcpclient_recon_cb \/ mqtt_tcpclient_discon_cb \/ ClosedUntold
    BY <2>3 DEF mqtt_tcpclient_recon_cb, mqtt_tcpclient_discon_cb, ClosedUntold
  <2>4. CASE mqtt_tcpclient_recv
    BY <2>4 DEF mqtt_tcpclient_recv, RecvConnack, Connack, RecvRequest, RecvOther, Heard
  <2>5. CASE mqtt_tcpclient_sent_cb
    BY <2>5 DEF mqtt_tcpclient_sent_cb
  <2>6. CASE PeerCloses \/ LinkFails
    BY <2>6 DEF PeerCloses, LinkFails
  <2> QED BY <1>2, <2>1, <2>2, <2>3, <2>4, <2>5, <2>6 DEF Callbacks, LinkEvents
<1>3. CASE mqtt_timer
  BY <1>3 DEF mqtt_timer, TickData, TickRetry, TickOther
<1>4. CASE MQTT_Task
  <2>1. CASE SendKeepAlive \/ SendQueued
    BY <2>1 DEF SendKeepAlive, SendQueued, Taken, Refused
  <2>2. CASE Reconnect
    BY <2>2 DEF Reconnect, Open, FreeCon
  <2>3. CASE AskToClose \/ NothingToDo
    BY <2>3 DEF AskToClose, NothingToDo
  <2>4. CASE Free
    BY <2>4 DEF Free, FreeCon
  <2> QED BY <1>4, <2>1, <2>2, <2>3, <2>4 DEF MQTT_Task
<1>5. CASE UNCHANGED vars
  BY <1>5 DEF vars
<1> QED BY <1>1, <1>2, <1>3, <1>4, <1>5 DEF Next

\* What a call of the application does to the counters.
LEMMA CallsRange == Ranges /\ Calls => Ranges'
<1> SUFFICES ASSUME Ranges, Calls PROVE Ranges'
  OBVIOUS
<1> USE DEF Ranges, ConnStates, Links, Packets, Queued, MaxAge
<1>1. CASE MQTT_Connect
  BY <1>1 DEF MQTT_Connect, Open, Dial
<1>2. CASE MQTT_Disconnect
  BY <1>2 DEF MQTT_Disconnect, Post, sdk, freed
<1>3. CASE MQTT_DeleteClient
  BY <1>3 DEF MQTT_DeleteClient, Post, sdk, freed
<1>4. ASSUME NEW p \in {"PUBLISH", "REQUEST"}, Enqueue(p) PROVE Ranges'
  <2>1. queue' \in Seq(Queued) /\ Len(queue') <= QueueCap
    BY <1>4 DEF Enqueue
  <2> QED BY <1>4, <2>1 DEF Enqueue, Post, client, sdk, freed, clock
<1>5. ASSUME NEW p \in {"PUBLISH", "REQUEST"}, EnqueueDropping(p) PROVE Ranges'
  <2>1. PICK k \in 1 .. Len(queue) :
          queue' = Append(SubSeq(queue, k + 1, Len(queue)), p)
    BY <1>5 DEF EnqueueDropping
  <2>2. /\ SubSeq(queue, k + 1, Len(queue)) \in Seq(Queued)
        /\ Len(SubSeq(queue, k + 1, Len(queue))) < QueueCap
    BY SubSeqProperties
  <2>3. queue' \in Seq(Queued) /\ Len(queue') <= QueueCap
    BY <2>1, <2>2
  <2> QED BY <1>5, <2>3 DEF EnqueueDropping, Post, client, sdk, freed, clock
<1>6. CASE EnqueueFails
  BY <1>6 DEF EnqueueFails, client, sdk, freed, clock
<1> QED BY <1>1, <1>2, <1>3, <1>4, <1>5, <1>6 DEF Calls

\* What espconn's callbacks and the network do to the counters.
LEMMA CallbacksRange == Ranges /\ Callbacks => Ranges'
<1> SUFFICES ASSUME Ranges, Callbacks PROVE Ranges'
  OBVIOUS
<1> USE DEF Ranges, ConnStates, Links, Packets, Queued, MaxAge,
            Forget, Post, freed, clock
<1>1. CASE DnsFails
  BY <1>1 DEF DnsFails
<1>1z. CASE DnsZero
  BY <1>1z DEF DnsZero, client
<1>2. CASE DnsFound
  BY <1>2 DEF DnsFound, Dial
<1>3. CASE mqtt_tcpclient_connect_cb
  BY <1>3 DEF mqtt_tcpclient_connect_cb, Refused
<1>4. CASE mqtt_tcpclient_recon_cb
  BY <1>4 DEF mqtt_tcpclient_recon_cb
<1>5. CASE mqtt_tcpclient_discon_cb
  BY <1>5 DEF mqtt_tcpclient_discon_cb
<1>6. CASE ClosedUntold
  BY <1>6 DEF ClosedUntold, client
<1>7. CASE mqtt_tcpclient_recv
  <2>1. CASE RecvConnack
    BY <2>1 DEF RecvConnack, Connack, Heard, Hangup
  <2>2. CASE RecvRequest
    <3>1. PICK k \in 0 .. QueueCap - Len(queue) :
            queue' = queue \o [i \in 1 .. k |-> "REPLY"]
      BY <2>2 DEF RecvRequest
    <3>2. [i \in 1 .. k |-> "REPLY"] \in Seq(Queued) /\ Len([i \in 1 .. k |-> "REPLY"]) = k
      OBVIOUS
    <3>3. queue' \in Seq(Queued) /\ Len(queue') <= QueueCap
      BY <3>1, <3>2, ConcatProperties
    <3> QED BY <2>2, <3>3 DEF RecvRequest, Heard
  <2>3. CASE RecvOther
    BY <2>3 DEF RecvOther, Heard
  <2> QED BY <1>7, <2>1, <2>2, <2>3 DEF mqtt_tcpclient_recv
<1>8. CASE mqtt_tcpclient_sent_cb
  BY <1>8 DEF mqtt_tcpclient_sent_cb
<1>9. CASE PeerCloses \/ LinkFails
  BY <1>9 DEF PeerCloses, LinkFails, client
<1> QED BY <1>1, <1>1z, <1>2, <1>3, <1>4, <1>5, <1>6, <1>7, <1>8, <1>9 DEF Callbacks, LinkEvents

\* The one-second timer counts at most one past the keep-alive time: when it
\* gets there, the state changes with it.
LEMMA TimerRange == Ranges /\ mqtt_timer => Ranges'
<1> SUFFICES ASSUME Ranges, mqtt_timer PROVE Ranges'
  OBVIOUS
<1> USE DEF Ranges, ConnStates, Links, Packets, MaxAge
<1>1. sendTimeout' \in 0 .. SendTimeout /\ age' \in 0 .. MaxAge
  BY DEF mqtt_timer
<1>2. CASE TickData
  BY <1>1, <1>2 DEF mqtt_timer, TickData, KeepAliveDue, Post, freed, clock
<1>3. CASE TickRetry
  BY <1>1, <1>3 DEF mqtt_timer, TickRetry, RetryDue, Post, freed, clock
<1>4. CASE TickOther
  BY <1>1, <1>4 DEF mqtt_timer, TickOther, freed, clock
<1> QED BY <1>2, <1>3, <1>4 DEF mqtt_timer

\* MQTT_Task, state by state.
LEMMA TaskRange == Ranges /\ MQTT_Task => Ranges'
<1> SUFFICES ASSUME Ranges, MQTT_Task PROVE Ranges'
  OBVIOUS
<1> USE DEF Ranges, ConnStates, Links, Packets, Queued, MaxAge,
            Taken, Refused, Post, client, sdk, freed, clock
<1>1. CASE SendKeepAlive
  BY <1>1 DEF SendKeepAlive
<1>2. CASE SendQueued
  <2>1. Head(queue) \in Queued /\ Tail(queue) \in Seq(Queued)
        /\ Len(Tail(queue)) <= QueueCap
    BY <1>2, HeadTailProperties DEF SendQueued
  <2> QED BY <1>2, <2>1 DEF SendQueued
<1>3. CASE Reconnect
  BY <1>3 DEF Reconnect, Open, Dial
<1>4. CASE AskToClose
  BY <1>4 DEF AskToClose, Hangup
<1>5. CASE Free
  BY <1>5 DEF Free
<1>6. CASE NothingToDo
  BY <1>6 DEF NothingToDo
<1> QED BY <1>1, <1>2, <1>3, <1>4, <1>5, <1>6 DEF MQTT_Task

LEMMA InitType == Init => TypeOK
<1>1. Init => Flags
  BY DEF Init, Flags
<1>2. Init => Ranges
  BY DEF Init, Ranges, ConnStates, Links, Packets, Queued, MaxAge
<1> QED BY <1>1, <1>2 DEF TypeOK

LEMMA NextType == TypeOK /\ [Next]_vars => TypeOK'
<1>1. Ranges /\ UNCHANGED vars => Ranges'
  BY DEF Ranges, vars, client, sdk
<1>2. Ranges /\ [Next]_vars => Ranges'
  BY <1>1, CallsRange, CallbacksRange, TimerRange, TaskRange DEF Next
<1> QED BY <1>2, FlagsKept DEF TypeOK

\* The client's counters stay in their range and its queue within the ring,
\* for every configuration of mqtt_config.h.
THEOREM TypeCorrect == Spec => []TypeOK
  BY InitType, NextType, PTL DEF Spec

-----------------------------------------------------------------------------
\* The state machine and the connection agree.
LEMMA InitLink == Init => LinkAgrees
  BY DEF Init, LinkAgrees, InUse

LEMMA NextLink == TypeOK /\ LinkAgrees /\ [Next]_vars => LinkAgrees'
<1> SUFFICES ASSUME Ranges, LinkAgrees, [Next]_vars PROVE LinkAgrees'
  BY DEF TypeOK
<1> USE DEF Ranges, ConnStates, Links, LinkAgrees, InUse
<1>1. CASE Calls
  <2>1. CASE MQTT_Connect
    BY <2>1 DEF MQTT_Connect, Open
  <2>2. CASE MQTT_Disconnect \/ MQTT_DeleteClient
    BY <2>2 DEF MQTT_Disconnect, MQTT_DeleteClient
  <2>3. ASSUME NEW p, Enqueue(p) \/ EnqueueDropping(p) PROVE LinkAgrees'
    BY <2>3 DEF Enqueue, EnqueueDropping, client, sdk
  <2>4. CASE EnqueueFails
    BY <2>4 DEF EnqueueFails, client, sdk
  <2> QED BY <1>1, <2>1, <2>2, <2>3, <2>4 DEF Calls
<1>2. CASE Callbacks
  <2> USE DEF Forget
  <2>1. CASE DnsFails \/ DnsZero \/ DnsFound
    BY <2>1 DEF DnsFails, DnsZero, DnsFound, client, freed
  <2>2. CASE mqtt_tcpclient_connect_cb
    BY <2>2 DEF mqtt_tcpclient_connect_cb
  <2>3. CASE mqtt_tcpclient_recon_cb
    BY <2>3 DEF mqtt_tcpclient_recon_cb
  <2>4. CASE mqtt_tcpclient_discon_cb
    BY <2>4 DEF mqtt_tcpclient_discon_cb
  \* Without the callback registered no session state can be current.
  <2>5. CASE ClosedUntold
    <3>1. connState \notin {"MQTT_CONNECT_SENDING", "MQTT_DATA", "MQTT_KEEPALIVE_SEND",
                            "TCP_RECONNECT_DISCONNECTING"}
      BY <2>5 DEF ClosedUntold
    <3> QED BY <2>5, <3>1 DEF ClosedUntold, client
  <2>6. CASE mqtt_tcpclient_recv
    <3>1. CASE RecvConnack
      BY <3>1 DEF RecvConnack, Connack, Heard, Hangup
    <3>2. CASE RecvRequest \/ RecvOther
      BY <3>2 DEF RecvRequest, RecvOther, Heard
    <3> QED BY <2>6, <3>1, <3>2 DEF mqtt_tcpclient_recv
  <2>7. CASE mqtt_tcpclient_sent_cb
    BY <2>7 DEF mqtt_tcpclient_sent_cb
  <2>8. CASE PeerCloses \/ LinkFails
    BY <2>8 DEF PeerCloses, LinkFails, client
  <2> QED BY <1>2, <2>1, <2>2, <2>3, <2>4, <2>5, <2>6, <2>7, <2>8 DEF Callbacks, LinkEvents
<1>3. CASE mqtt_timer
  <2>1. CASE TickData
    BY <1>3, <2>1 DEF mqtt_timer, TickData
  <2>2. CASE TickRetry
    BY <1>3, <2>2 DEF mqtt_timer, TickRetry
  <2>3. CASE TickOther
    BY <1>3, <2>3 DEF mqtt_timer, TickOther
  <2> QED BY <1>3, <2>1, <2>2, <2>3 DEF mqtt_timer
<1>4. CASE MQTT_Task
  <2>1. CASE SendKeepAlive
    BY <2>1 DEF SendKeepAlive
  <2>2. CASE SendQueued
    BY <2>2 DEF SendQueued
  <2>3. CASE Reconnect
    BY <2>3 DEF Reconnect, Open
  <2>4. CASE AskToClose
    BY <2>4 DEF AskToClose, Hangup, client
  <2>5. CASE Free
    BY <2>5 DEF Free, client
  <2>6. CASE NothingToDo
    BY <2>6 DEF NothingToDo, client, sdk
  <2> QED BY <1>4, <2>1, <2>2, <2>3, <2>4, <2>5, <2>6 DEF MQTT_Task
<1>5. CASE UNCHANGED vars
  BY <1>5 DEF vars, client, sdk
<1> QED BY <1>1, <1>2, <1>3, <1>4, <1>5 DEF Next

\* Whatever calls, callbacks and ticks led here, a client that waits to
\* reconnect has no connection and a client in a session has one.
THEOREM LinkAlwaysAgrees == Spec => []LinkAgrees
  BY InitLink, NextLink, TypeCorrect, PTL DEF Spec

\* What the task frees, it frees in a state where espconn has let go.
LEMMA TaskFrees == TypeOK /\ LinkAgrees /\ ~stale /\ MQTT_Task => stale' = stale
<1> SUFFICES ASSUME TypeOK, LinkAgrees, ~stale, MQTT_Task PROVE stale' = stale
  OBVIOUS
<1>1. CASE SendKeepAlive \/ SendQueued \/ AskToClose \/ NothingToDo
  BY <1>1 DEF SendKeepAlive, SendQueued, AskToClose, NothingToDo, freed
<1>2. CASE Reconnect \/ Free
  <2>1. ~InUse
    BY <1>2 DEF Reconnect, Free, LinkAgrees
  <2>2. FreeCon
    BY <1>2 DEF Reconnect, Open, Free
  <2>3. stale = FALSE
    BY DEF TypeOK, Flags
  <2> QED BY <2>1, <2>2, <2>3 DEF FreeCon
<1> QED BY <1>1, <1>2 DEF MQTT_Task

\* MQTT_Task never frees a connection that espconn still refers to.
THEOREM TaskSafe == Spec => TaskFreesNothingInUse
<1>1. TypeOK /\ LinkAgrees /\ [Next]_vars => [MQTT_Task => stale' = stale]_vars
  <2>1. Next => ~stale
    BY DEF Next
  <2>2. UNCHANGED vars => stale' = stale
    BY DEF vars, freed
  <2> QED BY <2>1, <2>2, TaskFrees
<1> QED BY <1>1, TypeCorrect, LinkAlwaysAgrees, PTL DEF Spec, TaskFreesNothingInUse

-----------------------------------------------------------------------------
\* The timer runs only for a wanted session, and only the timer starts a redial.
TimerWanted == (timer => wanted) /\ NoRedial

LEMMA InitWanted == Init => TimerWanted
  BY DEF Init, TimerWanted, NoRedial

LEMMA NextWanted == TimerWanted /\ [Next]_vars => TimerWanted'
<1> SUFFICES ASSUME TimerWanted, [Next]_vars PROVE TimerWanted'
  OBVIOUS
<1> USE DEF TimerWanted, NoRedial, clock
<1>1. CASE Calls
  <2>1. CASE MQTT_Connect
    BY <2>1 DEF MQTT_Connect, Open
  <2>2. CASE MQTT_Disconnect \/ MQTT_DeleteClient
    BY <2>2 DEF MQTT_Disconnect, MQTT_DeleteClient
  <2>3. ASSUME NEW p, Enqueue(p) \/ EnqueueDropping(p) PROVE TimerWanted'
    BY <2>3 DEF Enqueue, EnqueueDropping, client
  <2>4. CASE EnqueueFails
    BY <2>4 DEF EnqueueFails, client
  <2> QED BY <1>1, <2>1, <2>2, <2>3, <2>4 DEF Calls
<1>2. CASE Callbacks
  <2>1. CASE DnsFails \/ DnsZero \/ DnsFound \/ mqtt_tcpclient_connect_cb
    BY <2>1 DEF DnsFails, DnsZero, DnsFound, mqtt_tcpclient_connect_cb, client
  <2>2. CASE mqtt_tcpclient_recon_cb \/ mqtt_tcpclient_discon_cb \/ ClosedUntold
    BY <2>2 DEF mqtt_tcpclient_recon_cb, mqtt_tcpclient_discon_cb, ClosedUntold, client
  <2>3. CASE mqtt_tcpclient_recv
    BY <2>3 DEF mqtt_tcpclient_recv, RecvConnack, Connack, RecvRequest, RecvOther, Heard
  <2>4. CASE mqtt_tcpclient_sent_cb
    BY <2>4 DEF mqtt_tcpclient_sent_cb
  <2>5. CASE PeerCloses \/ LinkFails
    BY <2>5 DEF PeerCloses, LinkFails, client
  <2> QED BY <1>2, <2>1, <2>2, <2>3, <2>4, <2>5 DEF Callbacks, LinkEvents
<1>3. CASE mqtt_timer
  BY <1>3 DEF mqtt_timer, TickData, TickRetry, TickOther
<1>4. CASE MQTT_Task
  <2>1. CASE SendKeepAlive \/ SendQueued
    BY <2>1 DEF SendKeepAlive, SendQueued
  <2>2. CASE Reconnect
    BY <2>2 DEF Reconnect, Open
  <2>3. CASE AskToClose \/ Free \/ NothingToDo
    BY <2>3 DEF AskToClose, Free, NothingToDo, client
  <2> QED BY <1>4, <2>1, <2>2, <2>3 DEF MQTT_Task
<1>5. CASE UNCHANGED vars
  BY <1>5 DEF vars, client
<1> QED BY <1>1, <1>2, <1>3, <1>4, <1>5 DEF Next

\* After MQTT_Disconnect or MQTT_DeleteClient no callback and no tick takes the
\* client to TCP_RECONNECT, from where MQTT_Task would connect anew.  A name query
\* that was pending then may still be answered, and dials.
THEOREM NeverRedials == Spec => []NoRedial
<1>1. TimerWanted => NoRedial
  BY DEF TimerWanted
<1> QED BY <1>1, InitWanted, NextWanted, PTL DEF Spec

-----------------------------------------------------------------------------
\* What is known of the packet espconn has in its hands: its send timeout still
\* runs or has passed, and a pending PUBLISH is that packet unless one was
\* refused since.  A CONNECT waits for its answer under its own name.
Covered == inflight # "none" => age + sendTimeout >= SendTimeout
NamedOf == pending = "PUBLISH" /\ inflight # "none" => inflight = "PUBLISH" \/ lossy
Flight  == Covered /\ NamedOf /\ PendingConnect

LEMMA InitFlight == Init => Flight
  BY DEF Init, Flight, Covered, NamedOf, PendingConnect

LEMMA NextCovered == TypeOK /\ Covered /\ [Next]_vars => Covered'
<1> SUFFICES ASSUME Ranges, Covered, [Next]_vars PROVE Covered'
  BY DEF TypeOK
<1> USE DEF Ranges, Covered, MaxAge
<1>1. CASE Calls
  <2>1. CASE MQTT_Connect
    BY <2>1 DEF MQTT_Connect, Open
  <2>2. CASE MQTT_Disconnect \/ MQTT_DeleteClient
    BY <2>2 DEF MQTT_Disconnect, MQTT_DeleteClient, sdk
  <2>3. ASSUME NEW p, Enqueue(p) \/ EnqueueDropping(p) PROVE Covered'
    BY <2>3 DEF Enqueue, EnqueueDropping, client, sdk
  <2>4. CASE EnqueueFails
    BY <2>4 DEF EnqueueFails, client, sdk
  <2> QED BY <1>1, <2>1, <2>2, <2>3, <2>4 DEF Calls
<1>2. CASE Callbacks
  <2> USE DEF Forget
  <2>1. CASE DnsFails \/ DnsZero \/ DnsFound
    BY <2>1 DEF DnsFails, DnsZero, DnsFound, client, freed
  <2>2. CASE mqtt_tcpclient_connect_cb
    BY <2>2 DEF mqtt_tcpclient_connect_cb, Refused
  <2>3. CASE mqtt_tcpclient_recon_cb \/ mqtt_tcpclient_discon_cb \/ ClosedUntold
    BY <2>3 DEF mqtt_tcpclient_recon_cb, mqtt_tcpclient_discon_cb, ClosedUntold
  <2>4. CASE mqtt_tcpclient_recv
    BY <2>4 DEF mqtt_tcpclient_recv, RecvConnack, Connack, RecvRequest, RecvOther, Heard
  <2>5. CASE mqtt_tcpclient_sent_cb
    BY <2>5 DEF mqtt_tcpclient_sent_cb
  <2>6. CASE PeerCloses \/ LinkFails
    BY <2>6 DEF PeerCloses, LinkFails, client
  <2> QED BY <1>2, <2>1, <2>2, <2>3, <2>4, <2>5, <2>6 DEF Callbacks, LinkEvents
\* A tick takes from sendTimeout what it gives to age.
<1>3. CASE mqtt_timer
  BY <1>3 DEF mqtt_timer
<1>4. CASE MQTT_Task
  <2>1. CASE SendKeepAlive
    BY <2>1 DEF SendKeepAlive, Taken, Refused
  <2>2. CASE SendQueued
    BY <2>2 DEF SendQueued, Taken, Refused
  <2>3. CASE Reconnect
    BY <2>3 DEF Reconnect, Open
  <2>4. CASE AskToClose \/ Free \/ NothingToDo
    BY <2>4 DEF AskToClose, Free, NothingToDo, client, sdk
  <2> QED BY <1>4, <2>1, <2>2, <2>3, <2>4 DEF MQTT_Task
<1>5. CASE UNCHANGED vars
  BY <1>5 DEF vars, client, sdk
<1> QED BY <1>1, <1>2, <1>3, <1>4, <1>5 DEF Next

LEMMA NextNamed ==
  NamedOf /\ PendingConnect /\ [Next]_vars => NamedOf' /\ PendingConnect'
<1> SUFFICES ASSUME NamedOf, PendingConnect, [Next]_vars
             PROVE  NamedOf' /\ PendingConnect'
  OBVIOUS
<1> USE DEF NamedOf, PendingConnect
<1>1. CASE Calls
  <2>1. CASE MQTT_Connect
    BY <2>1 DEF MQTT_Connect, Open
  <2>2. CASE MQTT_Disconnect \/ MQTT_DeleteClient
    BY <2>2 DEF MQTT_Disconnect, MQTT_DeleteClient, sdk
  <2>3. ASSUME NEW p, Enqueue(p) \/ EnqueueDropping(p)
        PROVE NamedOf' /\ PendingConnect'
    BY <2>3 DEF Enqueue, EnqueueDropping, client, sdk
  <2>4. CASE EnqueueFails
    BY <2>4 DEF EnqueueFails, client, sdk
  <2> QED BY <1>1, <2>1, <2>2, <2>3, <2>4 DEF Calls
<1>2. CASE Callbacks
  <2> USE DEF Forget
  <2>1. CASE DnsFails \/ DnsZero \/ DnsFound
    BY <2>1 DEF DnsFails, DnsZero, DnsFound, client, freed
  <2>2. CASE mqtt_tcpclient_connect_cb
    BY <2>2 DEF mqtt_tcpclient_connect_cb
  <2>3. CASE mqtt_tcpclient_recon_cb \/ mqtt_tcpclient_discon_cb \/ ClosedUntold
    BY <2>3 DEF mqtt_tcpclient_recon_cb, mqtt_tcpclient_discon_cb, ClosedUntold, client
  <2>4. CASE mqtt_tcpclient_recv
    BY <2>4 DEF mqtt_tcpclient_recv, RecvConnack, Connack, RecvRequest, RecvOther, Heard
  <2>5. CASE mqtt_tcpclient_sent_cb
    BY <2>5 DEF mqtt_tcpclient_sent_cb
  <2>6. CASE PeerCloses \/ LinkFails
    BY <2>6 DEF PeerCloses, LinkFails, client
  <2> QED BY <1>2, <2>1, <2>2, <2>3, <2>4, <2>5, <2>6 DEF Callbacks, LinkEvents
<1>3. CASE mqtt_timer
  BY <1>3 DEF mqtt_timer, TickData, TickRetry, TickOther
<1>4. CASE MQTT_Task
  <2>1. CASE SendKeepAlive
    BY <2>1 DEF SendKeepAlive, Taken, Refused
  <2>2. CASE SendQueued
    BY <2>2 DEF SendQueued, Taken, Refused
  <2>3. CASE Reconnect
    BY <2>3 DEF Reconnect, Open
  <2>4. CASE AskToClose \/ Free \/ NothingToDo
    BY <2>4 DEF AskToClose, Free, NothingToDo, client, sdk
  <2> QED BY <1>4, <2>1, <2>2, <2>3, <2>4 DEF MQTT_Task
<1>5. CASE UNCHANGED vars
  BY <1>5 DEF vars, client, sdk
<1> QED BY <1>1, <1>2, <1>3, <1>4, <1>5 DEF Next

LEMMA FlightKept == Spec => []Flight
<1>1. TypeOK /\ Flight /\ [Next]_vars => Flight'
  BY NextCovered, NextNamed DEF Flight
<1> QED BY <1>1, InitFlight, TypeCorrect, PTL DEF Spec

\* No CONNACK is taken for an invalid packet.
THEOREM ConnectStaysPending == Spec => []PendingConnect
<1>1. Flight => PendingConnect
  BY DEF Flight
<1> QED BY <1>1, FlightKept, PTL

\* The task hands espconn a queued packet it must refuse only after the one
\* before has had its whole send timeout.
THEOREM RefusalsAreLate == Spec => RefusedAfterTimeout
<1>1. TypeOK /\ Flight /\ [Next]_vars =>
        [MQTT_Task /\ connState = "MQTT_DATA" /\ queue' # queue /\ inflight # "none"
         => age >= SendTimeout]_vars
  <2> SUFFICES ASSUME Ranges, Covered, MQTT_Task, connState = "MQTT_DATA",
                      queue' # queue, inflight # "none"
               PROVE  age >= SendTimeout
    BY DEF TypeOK, Flight
  <2>1. SendQueued
    BY DEF MQTT_Task, SendKeepAlive, Reconnect, AskToClose, Free, NothingToDo
  <2> QED BY <2>1 DEF SendQueued, Covered, Ranges, MaxAge
<1> QED BY <1>1, TypeCorrect, FlightKept, PTL DEF Spec, RefusedAfterTimeout

\* The published callback tells of an acknowledged PUBLISH, or of a refusal
\* since the last acknowledgement.
THEOREM PublishedIsHonest == Spec => PublishedHonest
<1>1. Flight /\ [Next]_vars =>
        [mqtt_tcpclient_sent_cb /\ Published => inflight = "PUBLISH" \/ lossy]_vars
  BY DEF Flight, NamedOf, mqtt_tcpclient_sent_cb, Published, Packets, Queued
<1> QED BY <1>1, FlightKept, PTL DEF Spec, PublishedHonest

-----------------------------------------------------------------------------
\* The greeting leaves the counters in range and the ring no fuller than it is.
LEMMA GreetType == TypeOK /\ RecvConnackGreet => TypeOK'
<1> SUFFICES ASSUME TypeOK, RecvConnackGreet PROVE TypeOK'
  OBVIOUS
<1>1. Flags'
  BY DEF TypeOK, Flags, RecvConnackGreet, Connack, Heard, Post, freed, clock
<1>2. queue' \in Seq(Queued) /\ Len(queue') <= QueueCap
  <2>1. CASE queue' = queue
    BY <2>1 DEF TypeOK, Ranges
  <2>2. CASE queue' \in {s \in Suffixes(queue \o Greeting) : Len(s) <= QueueCap}
    <3>1. Greeting \in Seq(Queued) /\ queue \in Seq(Queued)
      BY DEF Greeting, Queued, TypeOK, Ranges
    <3> DEFINE t == queue \o Greeting
    <3>2. t \in Seq(Queued)
      BY <3>1, ConcatProperties
    <3> HIDE DEF t
    <3>3. PICK k \in 1 .. Len(t) + 1 : queue' = SubSeq(t, k, Len(t))
      BY <2>2 DEF Suffixes, t
    <3>4. queue' \in Seq(Queued)
      BY <3>2, <3>3, SubSeqProperties
    <3> QED BY <2>2, <3>4
  <2> QED BY <2>1, <2>2 DEF RecvConnackGreet
<1>3. Ranges'
  BY <1>2 DEF TypeOK, Ranges, ConnStates, Links, Packets, Queued, MaxAge,
     RecvConnackGreet, Connack, Heard, Hangup, Post, freed, clock
<1> QED BY <1>1, <1>3 DEF TypeOK

LEMMA ConnectType == TypeOK /\ (MQTT_Connect \/ MQTT_Disconnect) => TypeOK'
<1> SUFFICES ASSUME TypeOK, MQTT_Connect \/ MQTT_Disconnect PROVE TypeOK'
  OBVIOUS
<1>1. Flags'
  BY DEF TypeOK, Flags, MQTT_Connect, MQTT_Disconnect, Open, FreeCon, Post, freed, clock, sdk, client
<1>2. Ranges'
  BY DEF TypeOK, Ranges, ConnStates, Links, Packets, Queued, MaxAge, MQTT_Connect,
     MQTT_Disconnect, Open, Dial, Hangup, Post, freed, clock, sdk, client
<1> QED BY <1>1, <1>2 DEF TypeOK

\* The application keeps the client's counters in range, and its own states.
THEOREM AppTypeCorrect == AppSpec => []AppTypeOK
<1>1. AppInit => AppTypeOK
  BY InitType DEF AppInit, AppTypeOK, Stations
<1>2. AppTypeOK /\ [AppNext]_appVars => AppTypeOK'
  <2> SUFFICES ASSUME AppTypeOK, [AppNext]_appVars PROVE AppTypeOK'
    OBVIOUS
  <2>1. station' \in Stations /\ lastWifiStatus' \in Stations
    BY DEF AppTypeOK, Stations, AppNext, Station, Associate, LoseWifi, wifi_check_ip, appVars
  <2>2. [Next]_vars \/ RecvConnackGreet \/ MQTT_Connect \/ MQTT_Disconnect
    BY DEF AppNext, Station, wifi_check_ip, wifiConnectCb, ClientStep, Next,
       Callbacks, mqtt_tcpclient_recv, appVars
  <2>3. TypeOK'
    BY <2>2, NextType, GreetType, ConnectType DEF AppTypeOK
  <2> QED BY <2>1, <2>3 DEF AppTypeOK
<1> QED BY <1>1, <1>2, PTL DEF AppSpec

-----------------------------------------------------------------------------
\* The session is wanted only while the last news was an address.
Agrees == TimerWanted /\ (wanted => lastWifiStatus = "GOT_IP")

LEMMA InitAgrees == AppInit => Agrees
  BY InitWanted DEF AppInit, Agrees, Init

\* What the client does by itself neither starts nor ends a session.
LEMMA ClientKeepsWanted ==
  ClientStep \/ mqtt_timer => wanted' = wanted
<1> SUFFICES ASSUME ClientStep \/ mqtt_timer PROVE wanted' = wanted
  OBVIOUS
<1> USE DEF clock
<1>1. CASE LinkEvents
  BY <1>1 DEF LinkEvents, DnsFails, DnsZero, DnsFound, mqtt_tcpclient_connect_cb,
              mqtt_tcpclient_recon_cb, mqtt_tcpclient_discon_cb, ClosedUntold,
              mqtt_tcpclient_sent_cb, PeerCloses, LinkFails
<1>2. CASE RecvConnackGreet \/ RecvRequest \/ RecvOther
  BY <1>2 DEF RecvConnackGreet, Connack, RecvRequest, RecvOther, Heard
<1>3. CASE MQTT_Task
  BY <1>3 DEF MQTT_Task, SendKeepAlive, SendQueued, Reconnect, AskToClose, Free,
              NothingToDo
<1>4. CASE mqtt_timer
  BY <1>4 DEF mqtt_timer
<1> QED BY <1>1, <1>2, <1>3, <1>4 DEF ClientStep

LEMMA NextAgrees == Agrees /\ [AppNext]_appVars => Agrees'
<1> SUFFICES ASSUME Agrees, [AppNext]_appVars PROVE Agrees'
  OBVIOUS
<1>1. TimerWanted /\ (wanted => lastWifiStatus = "GOT_IP")
  BY DEF Agrees
<1>2. CASE UNCHANGED <<vars, lastWifiStatus>>
  <2>1. TimerWanted'
    BY <1>1, <1>2, NextWanted
  <2> QED BY <1>1, <1>2, <2>1 DEF Agrees, vars, clock
<1>3. CASE ~stale /\ wifi_check_ip
  <2>1. CASE station = "GOT_IP" /\ wifiConnectCb(station)
    <3>1. MQTT_Connect /\ lastWifiStatus' = "GOT_IP"
      BY <1>3, <2>1 DEF wifi_check_ip, wifiConnectCb
    <3> QED BY <3>1 DEF Agrees, TimerWanted, NoRedial, MQTT_Connect, Open
  <2>2. CASE station # "GOT_IP" /\ wifiConnectCb(station)
    <3>1. MQTT_Disconnect
      BY <2>2 DEF wifiConnectCb
    <3> QED BY <3>1 DEF Agrees, TimerWanted, NoRedial, MQTT_Disconnect
  <2>3. CASE station = lastWifiStatus /\ UNCHANGED vars
    <3>1. UNCHANGED <<vars, lastWifiStatus>>
      BY <1>3, <2>3 DEF wifi_check_ip
    <3> QED BY <3>1, <1>2
  <2> QED BY <1>3, <2>1, <2>2, <2>3 DEF wifi_check_ip
<1>4. CASE ~stale /\ (ClientStep \/ mqtt_timer) /\ lastWifiStatus' = lastWifiStatus
  <2>1. CASE RecvConnackGreet
    BY <1>1, <1>4, <2>1 DEF RecvConnackGreet, Connack, Heard, clock, Agrees,
                            TimerWanted, NoRedial
  <2>2. CASE ~RecvConnackGreet
    <3>1. Next
      BY <1>4, <2>2 DEF ClientStep, Next, Callbacks, mqtt_tcpclient_recv
    <3>2. TimerWanted'
      BY <1>1, <3>1, NextWanted
    <3> QED BY <1>1, <1>4, <3>2, ClientKeepsWanted DEF Agrees
  <2> QED BY <2>1, <2>2
<1> QED BY <1>2, <1>3, <1>4 DEF AppNext, Station, appVars

\* While the last news from the station is not an address, no retry of the
\* client dials, whatever callbacks of the old connection are still to come.
THEOREM NeverRetriesOffline == AppSpec => []NoRetryOffline
<1>1. Agrees => NoRetryOffline
  BY DEF Agrees, TimerWanted, NoRedial, NoRetryOffline
<1> QED BY <1>1, InitAgrees, NextAgrees, PTL DEF AppSpec
=============================================================================
