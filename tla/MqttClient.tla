----------------------------- MODULE MqttClient -----------------------------
(***************************************************************************)
(* The MQTT client of esp_mqtt_proj, mqtt/mqtt.c: one connection state     *)
(* machine driven by the application's calls, by the callbacks of the      *)
(* SDK's espconn layer, by a one-second timer and by MQTT_Task.            *)
(*                                                                         *)
(* Every handler runs to completion; between two of them anything may      *)
(* happen.  MQTT_Task has a queue of one event (MQTT_TASK_QUEUE_SIZE), and *)
(* system_os_post on a full queue is refused; all events carry the same    *)
(* client, so "posted" is all there is to it.                              *)
(*                                                                         *)
(* The espconn layer (lwip/app/espconn.c, espconn_tcp.c) is modelled by    *)
(* what it does to one client connection: link.  The outgoing queue is the *)
(* message queue that module ProtoQueue implements.                        *)
(***************************************************************************)
EXTENDS Integers, Sequences

CONSTANTS
  KeepAlive,         \* connect_info->keepalive, in seconds
  SendTimeout,       \* MQTT_SEND_TIMOUT
  ReconnectTimeout,  \* MQTT_RECONNECT_TIMEOUT
  QueueCap,          \* how many packets the ring of the queue holds
  UseDns             \* the broker is given by name, not by address

ASSUME ClientAssumption ==
  /\ KeepAlive \in Nat /\ SendTimeout \in Nat \ {0} /\ ReconnectTimeout \in Nat
  /\ QueueCap \in Nat \ {0}
  /\ UseDns \in BOOLEAN

VARIABLES
  connState,
  posted,         \* an event waits in mqtt_procTaskQueue
  timer,          \* mqttTimer is armed
  keepAliveTick,
  reconnectTick,
  sendTimeout,
  pending,        \* mqtt_state.pending_msg_type
  queue,          \* msgQueue, packet types oldest first
  link,           \* what espconn does for client->pCon
  reg,            \* connect_cb has registered the other callbacks of pCon
  inflight,       \* the packet espconn has taken and TCP not acknowledged,
                  \* "stuck" if TCP never got it
  age,            \* seconds since it was taken, up to MaxAge
  lossy,          \* espconn refused a packet since the last sent callback
  wanted,         \* history: MQTT_Connect was called and the session not ended
  stale,          \* pCon was freed while espconn still used it
  deleted         \* mqtt_client_delete has run

client == <<connState, keepAliveTick, reconnectTick, sendTimeout, pending>>
sdk    == <<link, reg, inflight, age, lossy>>
freed  == <<stale, deleted>>
clock  == <<timer, wanted>>
vars   == <<client, sdk, freed, posted, clock, queue>>

ConnStates == {"WIFI_INIT", "TCP_DISCONNECTING", "TCP_DISCONNECTED",
               "TCP_RECONNECT_DISCONNECTING", "TCP_RECONNECT_REQ",
               "TCP_RECONNECT", "TCP_CONNECTING", "MQTT_CONNECT_SENDING",
               "MQTT_DATA", "MQTT_KEEPALIVE_SEND", "MQTT_DELETING",
               "MQTT_DELETED"}

\* What the queue holds: a PUBLISH, another request (SUBSCRIBE, UNSUBSCRIBE,
\* PINGREQ of MQTT_Ping) or a reply to the broker.
Queued == {"PUBLISH", "REQUEST", "REPLY"}
Packets == Queued \cup {"CONNECT", "PINGREQ"}

\* none: pCon = NULL.  idle: allocated, espconn has no connection for it.
\* dns: a name query refers to it.  syn, up: TCP_SYN_SENT, ESTABLISHED.
\* closing, err: SIG_ESPCONN_CLOSE or _ERRER is posted to espconn_Task.
Links == {"none", "idle", "dns", "syn", "up", "closing", "err"}

\* espconn or the resolver still holds a pointer to pCon.
InUse == link \notin {"none", "idle"}

\* Only the model needs a bound on age.
MaxAge == KeepAlive + SendTimeout

Flags ==
  /\ posted \in BOOLEAN /\ timer \in BOOLEAN /\ wanted \in BOOLEAN /\ reg \in BOOLEAN
  /\ lossy \in BOOLEAN /\ stale \in BOOLEAN /\ deleted \in BOOLEAN

Ranges ==
  /\ connState \in ConnStates
  /\ keepAliveTick \in 0 .. KeepAlive + 1
  /\ connState = "MQTT_DATA" => keepAliveTick <= KeepAlive
  /\ reconnectTick \in 0 .. ReconnectTimeout
  /\ sendTimeout \in 0 .. SendTimeout
  /\ pending \in Packets \cup {"none"}
  /\ queue \in Seq(Queued) /\ Len(queue) <= QueueCap
  /\ link \in Links
  /\ inflight \in Packets \cup {"none", "stuck"}
  /\ age \in 0 .. MaxAge

\* The counters stay in range: a keep-alive tick beyond KeepAlive has left
\* MQTT_DATA, and the ring holds at most QueueCap packets.
TypeOK == Flags /\ Ranges

\* MQTT_InitConnection clears the client; MQTT_InitClient posts one event.
Init ==
  /\ connState = "WIFI_INIT" /\ posted = TRUE /\ timer = FALSE /\ wanted = FALSE
  /\ keepAliveTick = 0 /\ reconnectTick = 0 /\ sendTimeout = 0
  /\ pending = "none" /\ queue = << >>
  /\ link = "none" /\ reg = FALSE /\ inflight = "none" /\ age = 0
  /\ lossy = FALSE /\ stale = FALSE /\ deleted = FALSE

Post == posted' = TRUE

-----------------------------------------------------------------------------
\* The espconn layer.

\* espconn_connect: a connection attempt, or an error code nobody looks at.
Dial == link' \in {"syn", "idle"}

\* espconn_disconnect: without a connection it is an error; one being closed
\* is left alone; tcp_close may fail for want of memory.
Hangup == \/ link \in {"syn", "up"} /\ link' = "closing"
          \/ link # "syn" /\ UNCHANGED link

\* espconn_send takes one packet at a time (pbuf_num = 1, else ESPCONN_MAXNUM)
\* on an open connection, if there is memory.
\* In "err" the pcb is freed memory: it may look open.
Taken(p) == /\ link \in {"up", "err"} /\ inflight = "none"
            /\ inflight' = p /\ age' = 0
            /\ UNCHANGED lossy

\* Else the packet is lost.  When tcp_write fails espconn keeps it, and takes
\* no other, but does not try again.
Refused == /\ lossy' = TRUE
           /\ \/ UNCHANGED <<inflight, age>>
              \/ inflight = "none" /\ inflight' = "stuck" /\ age' = 0

-----------------------------------------------------------------------------
\* The application's calls.

\* mqtt_tcpclient_delete: espconn_delete does nothing for a client connection,
\* then pCon is freed.
FreeCon == stale' = (stale \/ InUse)

\* The body of MQTT_Connect.
Open ==
  /\ FreeCon
  /\ IF UseDns THEN link' = "dns" ELSE Dial
  /\ reg' = FALSE /\ inflight' = "none" /\ age' = 0 /\ lossy' = FALSE
  /\ keepAliveTick' = 0 /\ reconnectTick' = 0
  /\ timer' = TRUE
  /\ connState' = "TCP_CONNECTING"
  /\ UNCHANGED <<sendTimeout, pending, queue, deleted>>

MQTT_Connect == Open /\ wanted' = TRUE /\ UNCHANGED posted

\* Mutant: the timer is left running.
DisconnectKeepsTimer ==
  /\ connState' = "TCP_DISCONNECTING"
  /\ Post
  /\ wanted' = FALSE
  /\ UNCHANGED <<keepAliveTick, reconnectTick, sendTimeout, pending, timer, sdk,
                 freed, queue>>

MQTT_Disconnect ==
  /\ connState' = "TCP_DISCONNECTING"
  /\ Post
  /\ timer' = FALSE /\ wanted' = FALSE
  /\ UNCHANGED <<keepAliveTick, reconnectTick, sendTimeout, pending, sdk, freed, queue>>

MQTT_DeleteClient ==
  /\ connState' = "MQTT_DELETING"
  /\ Post
  /\ timer' = FALSE /\ wanted' = FALSE
  /\ UNCHANGED <<keepAliveTick, reconnectTick, sendTimeout, pending, sdk, freed, queue>>

\* MQTT_Publish and its like, with room in the ring.
Enqueue(p) ==
  /\ Len(queue) < QueueCap
  /\ queue' = Append(queue, p)
  /\ Post
  /\ UNCHANGED <<client, sdk, freed, clock>>

\* Without room for a packet of that length: the oldest ones make way ...
EnqueueDropping(p) ==
  /\ \E k \in 1 .. Len(queue) : queue' = Append(SubSeq(queue, k + 1, Len(queue)), p)
  /\ Post
  /\ UNCHANGED <<client, sdk, freed, clock>>

\* ... or all is dropped in vain: "Serious buffer error".
EnqueueFails ==
  /\ queue' = << >>
  /\ UNCHANGED <<client, sdk, freed, posted, clock>>

Calls == /\ ~deleted
         /\ \/ MQTT_Connect \/ MQTT_Disconnect \/ MQTT_DeleteClient
            \/ \E p \in {"PUBLISH", "REQUEST"} : Enqueue(p) \/ EnqueueDropping(p)
            \/ EnqueueFails

-----------------------------------------------------------------------------
\* Callbacks of espconn and the resolver.

\* mqtt_dns_found without an address.  Nothing is posted.
DnsFails ==
  /\ link = "dns"
  /\ link' = "idle"
  /\ connState' = "TCP_RECONNECT_REQ"
  /\ UNCHANGED <<keepAliveTick, reconnectTick, sendTimeout, pending, reg, inflight,
                 age, lossy, freed, posted, clock, queue>>

\* The name has the address 0.0.0.0: the client goes on waiting.
DnsZero ==
  /\ link = "dns"
  /\ link' = "idle"
  /\ Post
  /\ UNCHANGED <<client, reg, inflight, age, lossy, freed, clock, queue>>

DnsFound ==
  /\ link = "dns"
  /\ Dial
  /\ connState' = "TCP_CONNECTING"
  /\ Post
  /\ UNCHANGED <<keepAliveTick, reconnectTick, sendTimeout, pending, reg, inflight,
                 age, lossy, freed, clock, queue>>

\* Mutant: the pending type of the connection before stays.
ConnectedKeepsPending ==
  /\ link = "syn"
  /\ link' = "up" /\ reg' = TRUE
  /\ sendTimeout' = SendTimeout
  /\ inflight' = "CONNECT" /\ age' = 0
  /\ connState' = "MQTT_CONNECT_SENDING"
  /\ Post
  /\ UNCHANGED <<keepAliveTick, reconnectTick, pending, lossy, freed, clock, queue>>

mqtt_tcpclient_connect_cb ==
  /\ link = "syn"
  /\ link' = "up" /\ reg' = TRUE
  /\ pending' = "CONNECT"
  /\ sendTimeout' = SendTimeout
  /\ \/ inflight' = "CONNECT" /\ age' = 0 /\ UNCHANGED lossy
     \/ Refused
  /\ connState' = "MQTT_CONNECT_SENDING"
  /\ Post
  /\ UNCHANGED <<keepAliveTick, reconnectTick, freed, clock, queue>>

\* espconn has forgotten the connection when it calls back.
Forget == link' = "idle" /\ inflight' = "none" /\ age' = 0 /\ lossy' = FALSE

\* Mutant: an error while the client hangs up to reconnect is ignored.
ReconnectErrorIgnored ==
  /\ link = "err"
  /\ Forget
  /\ connState' = IF connState = "TCP_RECONNECT_DISCONNECTING" THEN connState
                  ELSE "TCP_RECONNECT_REQ"
  /\ Post
  /\ UNCHANGED <<keepAliveTick, reconnectTick, sendTimeout, pending, reg, freed,
                 clock, queue>>

mqtt_tcpclient_recon_cb ==
  /\ link = "err"
  /\ Forget
  /\ connState' = "TCP_RECONNECT_REQ"
  /\ Post
  /\ UNCHANGED <<keepAliveTick, reconnectTick, sendTimeout, pending, reg, freed,
                 clock, queue>>

mqtt_tcpclient_discon_cb ==
  /\ link = "closing" /\ reg
  /\ Forget
  /\ \/ connState = "TCP_DISCONNECTING" /\ connState' = "TCP_DISCONNECTED"
     \/ connState = "MQTT_DELETING" /\ connState' = "MQTT_DELETED"
     \/ /\ connState \notin {"TCP_DISCONNECTING", "MQTT_DELETING"}
        /\ connState' = "TCP_RECONNECT_REQ"
  /\ Post
  /\ UNCHANGED <<keepAliveTick, reconnectTick, sendTimeout, pending, reg, freed,
                 clock, queue>>

\* A connection closed before it was established: the disconnect callback is
\* registered in connect_cb only, so the client is not told.
ClosedUntold ==
  /\ link = "closing" /\ ~reg
  /\ Forget
  /\ UNCHANGED <<client, reg, freed, posted, clock, queue>>

\* Any data restarts the keep-alive time.
Heard ==
  /\ link = "up"
  /\ keepAliveTick' = 0
  /\ Post
  /\ UNCHANGED <<reconnectTick, sendTimeout, pending, reg, inflight, age, lossy,
                 freed, clock>>

\* The answer to CONNECT, whatever its return code, up to connectedCb.
Connack ==
  /\ Heard
  /\ connState = "MQTT_CONNECT_SENDING"
  /\ IF pending = "CONNECT" THEN connState' = "MQTT_DATA" /\ UNCHANGED link
     ELSE Hangup /\ UNCHANGED connState                     \* "Invalid packet"

\* What connectedCb and the other callbacks of the application call follows as
\* actions of Calls.
RecvConnack == Connack /\ UNCHANGED queue

\* PUBLISHes with QoS, PUBREC, PUBREL or PINGREQ: the replies there is room for
\* are queued.
RecvRequest ==
  /\ Heard
  /\ connState \in {"MQTT_DATA", "MQTT_KEEPALIVE_SEND"}
  /\ \E k \in 0 .. QueueCap - Len(queue) : queue' = queue \o [i \in 1 .. k |-> "REPLY"]
  /\ UNCHANGED <<connState, link>>

\* Anything else, and anything in another state.
RecvOther ==
  /\ Heard
  /\ UNCHANGED <<connState, link, queue>>

mqtt_tcpclient_recv == RecvConnack \/ RecvRequest \/ RecvOther

Published == connState \in {"MQTT_DATA", "MQTT_KEEPALIVE_SEND"} /\ pending = "PUBLISH"

\* Mutant: the sent callback does not wake MQTT_Task.
SentNotPosted ==
  /\ link = "up" /\ inflight \in Packets
  /\ inflight' = "none" /\ age' = 0 /\ lossy' = FALSE
  /\ sendTimeout' = 0 /\ keepAliveTick' = 0
  /\ UNCHANGED <<connState, reconnectTick, pending, link, reg, freed, posted, clock, queue>>

mqtt_tcpclient_sent_cb ==
  /\ link = "up" /\ inflight \in Packets
  /\ inflight' = "none" /\ age' = 0 /\ lossy' = FALSE
  /\ sendTimeout' = 0 /\ keepAliveTick' = 0
  /\ Post
  /\ UNCHANGED <<connState, reconnectTick, pending, link, reg, freed, clock, queue>>

\* The network: the broker closes, or the connection (or the attempt) fails.
PeerCloses == /\ link = "up" /\ link' = "closing"
              /\ UNCHANGED <<client, reg, inflight, age, lossy, freed, posted, clock, queue>>

LinkFails == /\ link \in {"syn", "up"} /\ link' = "err"
             /\ UNCHANGED <<client, reg, inflight, age, lossy, freed, posted, clock, queue>>

LinkEvents == \/ DnsFails \/ DnsZero \/ DnsFound
              \/ mqtt_tcpclient_connect_cb \/ mqtt_tcpclient_recon_cb
              \/ mqtt_tcpclient_discon_cb \/ ClosedUntold
              \/ mqtt_tcpclient_sent_cb
              \/ PeerCloses \/ LinkFails

Callbacks == LinkEvents \/ mqtt_tcpclient_recv

-----------------------------------------------------------------------------
\* mqtt_timer, every second while armed.

\* Mutant: the tick is compared before it is counted.
KeepAliveDueLate == keepAliveTick > KeepAlive

KeepAliveDue == keepAliveTick + 1 > KeepAlive
RetryDue     == reconnectTick + 1 > ReconnectTimeout

\* Counting towards the next PINGREQ.
TickData ==
  /\ connState = "MQTT_DATA"
  /\ keepAliveTick' = keepAliveTick + 1
  /\ IF KeepAliveDue THEN connState' = "MQTT_KEEPALIVE_SEND" /\ Post
     ELSE UNCHANGED <<connState, posted>>
  /\ UNCHANGED reconnectTick

\* Counting towards the next connection attempt.
TickRetry ==
  /\ connState = "TCP_RECONNECT_REQ"
  /\ IF RetryDue THEN reconnectTick' = 0 /\ connState' = "TCP_RECONNECT" /\ Post
     ELSE reconnectTick' = reconnectTick + 1 /\ UNCHANGED <<connState, posted>>
  /\ UNCHANGED keepAliveTick

TickOther ==
  /\ connState \notin {"MQTT_DATA", "TCP_RECONNECT_REQ"}
  /\ UNCHANGED <<connState, keepAliveTick, reconnectTick, posted>>

mqtt_timer ==
  /\ timer
  /\ sendTimeout' = IF sendTimeout > 0 THEN sendTimeout - 1 ELSE 0
  /\ age' = IF inflight # "none" /\ age < MaxAge THEN age + 1 ELSE age
  /\ TickData \/ TickRetry \/ TickOther
  /\ UNCHANGED <<pending, link, reg, inflight, lossy, freed, clock, queue>>

-----------------------------------------------------------------------------
\* MQTT_Task.

\* Mutant: a refused PINGREQ goes straight to the reconnect timer.
KeepAliveGivesUp ==
  /\ connState = "MQTT_KEEPALIVE_SEND"
  /\ pending' = "PINGREQ"
  /\ sendTimeout' = SendTimeout
  /\ Refused
  /\ connState' = "TCP_RECONNECT_REQ"
  /\ Post
  /\ UNCHANGED <<keepAliveTick, reconnectTick, link, reg, freed, clock, queue>>

\* Mutant: pending_msg_type is left as it is.
SendKeepAliveUntyped ==
  /\ connState = "MQTT_KEEPALIVE_SEND"
  /\ sendTimeout' = SendTimeout
  /\ \/ Taken("PINGREQ") /\ keepAliveTick' = 0 /\ connState' = "MQTT_DATA"
     \/ Refused /\ connState' = "TCP_RECONNECT_DISCONNECTING" /\ UNCHANGED keepAliveTick
  /\ Post
  /\ UNCHANGED <<pending, reconnectTick, link, reg, freed, clock, queue>>

\* mqtt_send_keepalive: the only send whose result is looked at.
SendKeepAlive ==
  /\ connState = "MQTT_KEEPALIVE_SEND"
  /\ pending' = "PINGREQ"
  /\ sendTimeout' = SendTimeout
  /\ \/ /\ Taken("PINGREQ")
        /\ keepAliveTick' = 0
        /\ connState' = "MQTT_DATA"
     \/ /\ Refused
        /\ connState' = "TCP_RECONNECT_DISCONNECTING"
        /\ UNCHANGED keepAliveTick
  /\ Post
  /\ UNCHANGED <<reconnectTick, link, reg, freed, clock, queue>>

\* Mutant: the packet goes out although the one before may be under way.
SendQueuedAtOnce ==
  /\ connState = "MQTT_DATA" /\ queue # << >>
  /\ queue' = Tail(queue) /\ pending' = Head(queue)
  /\ sendTimeout' = SendTimeout
  /\ Taken(Head(queue)) \/ Refused
  /\ posted' = FALSE
  /\ UNCHANGED <<connState, keepAliveTick, reconnectTick, link, reg, freed, clock>>

SendQueued ==
  /\ connState = "MQTT_DATA" /\ queue # << >> /\ sendTimeout = 0
  /\ queue' = Tail(queue) /\ pending' = Head(queue)
  /\ sendTimeout' = SendTimeout
  /\ Taken(Head(queue)) \/ Refused
  /\ posted' = FALSE
  /\ UNCHANGED <<connState, keepAliveTick, reconnectTick, link, reg, freed, clock>>

Reconnect ==
  /\ connState = "TCP_RECONNECT"
  /\ Open
  /\ posted' = FALSE
  /\ UNCHANGED wanted

AskToClose ==
  /\ connState \in {"MQTT_DELETING", "TCP_DISCONNECTING", "TCP_RECONNECT_DISCONNECTING"}
  /\ Hangup
  /\ posted' = FALSE
  /\ UNCHANGED <<client, reg, inflight, age, lossy, freed, clock, queue>>

\* TCP_DISCONNECTED frees the connection, MQTT_DELETED all the client owns.
Free ==
  /\ connState \in {"TCP_DISCONNECTED", "MQTT_DELETED"}
  /\ FreeCon
  /\ deleted' = (deleted \/ connState = "MQTT_DELETED")
  /\ link' = "none" /\ reg' = FALSE /\ inflight' = "none" /\ age' = 0 /\ lossy' = FALSE
  /\ posted' = FALSE
  /\ UNCHANGED <<client, clock, queue>>

NothingToDo ==
  /\ \/ connState \in {"WIFI_INIT", "TCP_RECONNECT_REQ", "TCP_CONNECTING",
                       "MQTT_CONNECT_SENDING"}
     \/ connState = "MQTT_DATA" /\ (queue = << >> \/ sendTimeout # 0)
  /\ posted' = FALSE
  /\ UNCHANGED <<client, sdk, freed, clock, queue>>

MQTT_Task == /\ posted
             /\ \/ SendKeepAlive \/ SendQueued \/ Reconnect \/ AskToClose
                \/ Free \/ NothingToDo

-----------------------------------------------------------------------------
\* Once memory espconn still uses is freed, anything may happen: the model
\* ends there.
Next == /\ ~stale
        /\ Calls \/ Callbacks \/ mqtt_timer \/ MQTT_Task

Spec == Init /\ [][Next]_vars

\* Posted events are run and an armed timer fires.  A connection attempt and
\* a name query are answered one way or the other.  TCP acknowledges a packet
\* or gives the connection up.  A broker drops a client that is silent beyond
\* its keep-alive time, so a connection that carries no traffic ends.
Answered    == ~stale /\ link = "syn" /\ (mqtt_tcpclient_connect_cb \/ LinkFails)
Resolved    == ~stale /\ (DnsFails \/ DnsZero \/ DnsFound)
AckedOrLost == ~stale /\ inflight \in Packets /\ (mqtt_tcpclient_sent_cb \/ LinkFails)
Dropped     == /\ ~stale /\ connState \notin {"MQTT_DATA", "MQTT_KEEPALIVE_SEND"}
               /\ PeerCloses \/ LinkFails
Told        == /\ ~stale
               /\ mqtt_tcpclient_recon_cb \/ mqtt_tcpclient_discon_cb \/ ClosedUntold

PromptTick == /\ ~stale /\ ~posted
              /\ inflight \in Packets => age < KeepAlive
              /\ mqtt_timer

Fairness == /\ WF_vars(~stale /\ MQTT_Task) /\ SF_vars(PromptTick)
            /\ WF_vars(Answered) /\ WF_vars(Resolved) /\ WF_vars(AckedOrLost)
            /\ WF_vars(Dropped) /\ WF_vars(Told)

\* A posted event is run within milliseconds: no second passes before.  TCP
\* needs less than the keep-alive time (120 s) for an acknowledgement.
PromptNext == \/ ~stale /\ (Calls \/ Callbacks \/ MQTT_Task)
              \/ PromptTick

FairSpec == Init /\ [][PromptNext]_vars /\ Fairness

-----------------------------------------------------------------------------
\* The state machine and the connection agree, whatever interleaving of calls,
\* callbacks and ticks led here: while a reconnect waits for its time espconn
\* has let go of the old connection, and a session has a connection.
LinkAgrees ==
  /\ connState \in {"TCP_RECONNECT_REQ", "TCP_RECONNECT", "TCP_DISCONNECTED",
                    "MQTT_DELETED", "WIFI_INIT"} => ~InUse
  /\ connState \in {"MQTT_CONNECT_SENDING", "MQTT_DATA", "MQTT_KEEPALIVE_SEND",
                    "TCP_RECONNECT_DISCONNECTING"} => link \in {"up", "closing", "err"} /\ reg

\* MQTT_Task never frees a connection espconn still uses, neither when it
\* reconnects nor when it cleans up after MQTT_Disconnect; only the application
\* can, by calling MQTT_Connect at the wrong time.
TaskFreesNothingInUse == [][MQTT_Task => stale' = stale]_vars

\* TCP_RECONNECT, where MQTT_Task connects anew, is reached only by a client
\* whose application still wants a session: callbacks that come after
\* MQTT_Disconnect or MQTT_DeleteClient may set TCP_RECONNECT_REQ (recon_cb), but
\* no tick turns that into a reconnection.  It does not speak of an attempt that
\* is already under way: a name query that is pending at MQTT_Disconnect dials
\* when its answer comes (mqtt_dns_found, DnsFound), and may open a session.
NoRedial == connState = "TCP_RECONNECT" => wanted

\* A CONNACK is never taken for an "Invalid packet": nothing changes the
\* pending type between CONNECT and its answer.
PendingConnect == connState = "MQTT_CONNECT_SENDING" => pending = "CONNECT"

\* A packet taken from the queue is lost to the one before only when that one
\* has had its whole send timeout.
RefusedAfterTimeout ==
  [][MQTT_Task /\ connState = "MQTT_DATA" /\ queue' # queue /\ inflight # "none"
     => age >= SendTimeout]_vars

\* The published callback means a PUBLISH was acknowledged, unless espconn
\* refused a packet before.
PublishedHonest ==
  [][mqtt_tcpclient_sent_cb /\ Published => inflight = "PUBLISH" \/ lossy]_vars

\* While the session lasts, queued packets leave the queue again and again,
\* even when the sent callback that should trigger the next send never comes.
QueueMoves ==
  \/ []<>(connState \notin {"MQTT_DATA", "MQTT_KEEPALIVE_SEND"} \/ queue = << >> \/ ~wanted)
  \/ []<><<MQTT_Task /\ connState = "MQTT_DATA" /\ queue' # queue>>_vars
  \/ <>stale

\* A lost connection is dialled again unless the application ended it.
Redials ==
  wanted /\ connState \in {"TCP_RECONNECT_DISCONNECTING", "TCP_RECONNECT_REQ", "TCP_RECONNECT"}
    ~> ~wanted \/ stale \/ connState = "TCP_CONNECTING"
=============================================================================
