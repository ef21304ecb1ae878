# Verification of ESP8266-LUA-NODEMCU

TLA+ modules, TLC configurations and TLAPS proofs for the programs of this
repository that have a protocol of their own: the MQTT client of the SDK's
`esp_mqtt_proj`, the DHCP client, DHCP server and TCP of the SDK's
`lwip_open_src_template_proj`, the climate logger in Lua and the serial flasher
in Pascal.

To repeat the checks, in this directory:

    tlc -config MqttClient.cfg MCMqttClient     # one run; PROJECT.json lists all
    tlapm MqttProofs.tla                        # one module of proofs

Paths below are shortened: `esp_mqtt_proj/` is
`nodemcu-flasher-master/Resources/Binaries/new-bob/ESP8266_NONOS_SDK-2.1.0/examples/esp_mqtt_proj/`,
and `lwip/` is `lwip_open_src_template_proj/lwip/` beside it.

## 1. Inventory

The repository is a collection. Most of its 668 files are vendored (the
Espressif SDK, the editor ESPlorer, saved manuals, firmware images). Three parts
are programs of their own with state worth a specification; under them lies the
lwIP that Espressif changed for this chip (espconn, the DHCP server, the
retransmission of segments the Wi-Fi driver still holds), on which the logger's
web server and the MQTT client rest.

| Component | State | Operations | Who calls it | Hard behaviour | What makes it correct |
|---|---|---|---|---|---|
| Byte ring `mqtt/ringbuf.c` | buffer, two pointers, `fill_cnt` | `RINGBUF_Init/Put/Get` | `proto.c` | wrap-around, full, empty | it is a bounded queue of bytes |
| Framed queue `mqtt/queue.c`, `mqtt/proto.c` | the ring, a parser on the stack | `QUEUE_Puts/Gets`, `PROTO_AddRb/ParseRb` | `mqtt.c`, `user_main.c` | a put that fails half-way leaves a fragment; the loop of `MQTT_Publish` drops old messages and puts again; the parser's `isBegin` is uninitialized | messages come out whole and in order; the loop ends; a message is refused only by an empty ring |
| MQTT client `mqtt/mqtt.c` | `connState`, three counters, `pending_msg_type`, the queue, `pCon` | eleven `MQTT_*` calls, five espconn callbacks, the DNS callback, a one-second timer, `MQTT_Task` | application, espconn, OS | all handlers interleave; a task queue of one event; results of sends ignored; `pCon` freed by hand | state and connection agree; nothing in use is freed; no redial after a disconnect; the queue moves on; a lost connection is dialled again |
| Configuration `modules/config.c` | two sectors and a flag sector, `sysCfg` | `CFG_Load`, `CFG_Save` | `user_main.c` | power failure inside or between flash operations | the configuration is replaced atomically, no torn sector is loaded |
| Application `user/user_main.c`, `modules/wifi.c` | `lastWifiStatus`, a polling timer | `wifi_check_ip`, `wifiConnectCb`, `mqttConnectedCb` | timer, client | polling misses changes; a disconnect whose callback never comes | no dialling while offline; back online with the network |
| Climate logger `sd-rtc-dht-http-v2/*.lua` | Lua globals, `package.loaded`, log file, connections | boot, Wi-Fi polling, SNTP, cron entry, web server | firmware callbacks | restart on boot, lost network, cached modules, idle connections | services start once; pages are fresh; the station reconnects |
| Flasher `nodemcu-flasher-master/UnitFormMain.pas`, `SPComm.pas` | `RunState`, `BurnOK`, `IsThreadStarted`, `LastOperationSuccess`, the port | Flash/Stop click, 50 ms timer, `ReceiveData`, `FlashImage` thread | user, Windows, serial port | two threads share flags; answers name no packet; re-entrant ticks; lost bytes; timeouts | success is shown only for a flash that was written; one thread burns; a burn ends |
| MQTT formats `mqtt/mqtt_msg.c`, `utils.c` | none | encoders, decoders | `mqtt.c` | lengths, truncated buffers | decode inverts encode (planned) |
| DHCP client `lwip/core/dhcp.c` | `struct dhcp`: state, tries, three timers, the offer | start, stop, messages, two timers, link changes, ARP answers | Wi-Fi library, UDP, timers | lost and late messages; timers of an older lease; a counter of one byte | it always waits for something that comes; the interface is up only with a lease |
| DHCP server `lwip/app/dhcpserver.c` | `plist`, the leases in order of address | messages, the minute timer, stations that leave | UDP, Wi-Fi library, timer | stations come, go and ask in any order while leases run out; the list is walked, cut and re-ordered by hand | no address is given twice; a lease outlives the client's use of it |
| TCP `lwip/core/tcp.c`, `tcp_in.c`, `tcp_out.c` | `struct tcp_pcb`: state, numbers, windows, three queues of segments, timers | connect, listen, write, close, `tcp_input`, `tcp_slowtmr`, `tcp_fasttmr` | espconn, IP, timers | loss, delay, reordering, retransmission, shut windows, segments the driver still holds | the stream arrives intact and whole; nothing stalls; no connection ends without a word |
| espconn `lwip/app/espconn*.c` | connection lists, one `espconn_msg` a connection | `espconn_*`, callbacks of TCP | application, TCP | closes and errors are posted to a task | environment of the client; the application side of TCP |
| Rest of lwIP | ARP, DNS, buffers, IP, UDP | | everything | | the network of the models |

How they interact. `user_main.c` loads the configuration, initializes the
client and gives `wifi.c` a callback; that callback calls `MQTT_Connect` or
`MQTT_Disconnect`. The client keeps outgoing packets in the framed queue, which
keeps its bytes in the byte ring. espconn calls the client back and posts to its
own task; the client posts to `MQTT_Task`. The logger's three scripts are
started once from the Wi-Fi poll and share globals. A station gets its address
from the DHCP client, the access point's DHCP server keeps the leases; both are
driven by messages and by lwIP's timers. espconn calls TCP
(`tcp_write`, `tcp_close`, `tcp_recved`) and is called back from `tcp_input` and
`tcp_slowtmr`. The flasher's GUI thread
and burn thread share flags and hand each other procedures
(`TThread.Synchronize`).

PROJECT.json lists every component, those that are not modelled too, and the
hazards: each at its line, with the properties that guard against it or the
reason why none does.

## 2. Modules

```
ByteFifo      <- RingBuf      <- MCRingBuf
MessageQueue  <- ProtoQueue   <- MCProtoQueue,   ProtoQueueProofs (of both)
                 MqttClient   <- MCMqttClient
                   MqttApp    <- MCMqttApp,      MqttProofs (of both)
AtomicConfig  <- ConfigStore  <- MCConfigStore,  ConfigStoreProofs
DhcpServer, DhcpClient <- DhcpNet <- MCDhcp,    DhcpProofs
TcpEnd <- TcpInput <- TcpNet  <- MCTcp,      TcpProofs <- TcpLineProofs
                 Logger       <- MCLogger,       LoggerProofs
                 Flasher      <- MCFlasher,      FlasherProofs
```

`ByteFifo`, `MessageQueue` and `AtomicConfig` are the abstract specifications
that `RingBuf`, `ProtoQueue` and `ConfigStore` implement. The layers are cut
where the code cuts them: `ProtoQueue` uses the ring by what `ByteFifo`
promises (a sequence of at most `Size` bytes), `MqttClient` uses the queue by
what `MessageQueue` promises (a sequence of packets that drops the oldest ones).
`MqttApp` extends the client with the Wi-Fi side.

**RingBuf** has the fields of `RINGBUF`, pointers as offsets. Each call is one
action. Refinement: the queue is `fill_cnt` bytes from `p_r` on. Its definitions
have names of their own (`RINGBUF_Put`, `ringVars`, `RingSpec`), so that one
module can hold the proofs of the ring and of the queue.

**ProtoQueue** takes one step per ring call, so that a ring that fills up may
cut `PROTO_AddRb` short anywhere, between `7D` and the byte it escapes included.
`caller` says for whom the put or get runs: `MQTT_Publish` (and `MQTT_Subscribe`
and so on), which drops messages until its own fits, the acknowledgements of
`mqtt_tcpclient_recv`, which give up when the queue is full, or `MQTT_Task`.
The parser's `isBegin` starts with an arbitrary value as in the code
(`PROTO_Init` forgets it). Refinement: the queue is what the parser would return
from the bytes in the ring (`Scan`); a fragment is not part of it because the next
`7E` restarts the parser.

**MqttClient** is the state machine of `mqtt.c`. `connState`, `keepAliveTick`,
`reconnectTick`, `sendTimeout`, `pending` and `queue` are fields of
`MQTT_Client`; a packet is its type. All events posted to `MQTT_Task` carry the
same client and the queue has one place, so `posted` is a Boolean. `link`,
`reg`, `inflight`, `age` and `lossy` stand for what espconn does with one client
connection, translated from the open-source template of it
(`lwip/app/espconn.c`, `espconn_tcp.c`). `wanted` is a history variable,
`stale` records that `pCon` was freed while espconn or the resolver still points
to it; as anything may happen afterwards, the model ends there. An application
callback that calls back into the client is modelled as a call that follows.

| Action | Code |
|---|---|
| `MQTT_Connect`, `MQTT_Disconnect`, `MQTT_DeleteClient` | the calls of that name |
| `Enqueue`, `EnqueueDropping`, `EnqueueFails` | `MQTT_Publish`, `_Subscribe`, `_UnSubscribe`, `_Ping` |
| `DnsFails`, `DnsZero`, `DnsFound` | `mqtt_dns_found` |
| `mqtt_tcpclient_connect_cb`, `_recon_cb`, `_discon_cb`, `_sent_cb` | the callbacks of that name |
| `RecvConnack`, `RecvRequest`, `RecvOther` | the cases of `mqtt_tcpclient_recv` |
| `PeerCloses`, `LinkFails`, `ClosedUntold` | espconn, outside `mqtt.c` |
| `mqtt_timer` | the one-second timer |
| `SendKeepAlive`, `SendQueued`, `Reconnect`, `AskToClose`, `Free`, `NothingToDo` | the cases of `MQTT_Task` |

**MqttApp** adds the station, which changes on its own, and `wifi_check_ip`,
which looks now and then, tells `wifiConnectCb` and, through it, calls
`MQTT_Connect` or `MQTT_Disconnect` in the same step. The greeting of
`mqttConnectedCb` (three subscriptions, three messages) belongs to the step that
takes the CONNACK, as in the code.

**ConfigStore** takes one step per flash operation; `PowerFails` may come before
any of them, and in the middle of an erase or a write it leaves the sector torn.
Refinement: the stored configuration is what the flag selects.

**DhcpServer** is the lease list and what each kind of message does to it. The
list is modelled as a set, because it is kept in order of address; the walk of
`wifi_softap_dhcps_client_update`, which stops at the first gap, is `Scan`.
`Update`, `Released`, `ClientLeave`, `CoarseTmr` and `DhcpsStop` are what may
happen to the list, whoever sends what: `PoolSpec`, the specification the proof
is about.

**DhcpClient** has one operator per function of `dhcp.c`: it takes `struct dhcp`
and gives the new one, the messages, and whether the exchange gets a new
transaction number. `armed` is `request_timeout # 0`.

**DhcpNet** composes them: one station that runs `dhcp.c`, one that asks for,
releases and leaves what it likes, messages that are lost, overtake each other or
belong to an older exchange (`stale`: the `xid` differs).

| Action | Code |
|---|---|
| `Start`, `Stop` | `dhcp_start`, in a client that is off or in any other state; `dhcp_release` and `dhcp_stop` |
| `SetMaxTry` | `wifi_station_dhcpc_set_maxtry`, the library's setter of `DHCP_MAXRTX` |
| `FineTmr`, `ClientTick` | `dhcp_fine_tmr` with `dhcp_timeout`; `dhcp_coarse_tmr` with T1 and T2 |
| `ClientReceives`, `ArpReply` | `dhcp_recv`; `dhcp_arp_reply` |
| `ServerReceives`, `ServerTick` | `handle_dhcp`; `dhcps_coarse_tmr` |
| `Leave`, `Return` | the Wi-Fi link: `wifi_softap_dhcps_client_leave`; `netif_set_link_up` and `dhcp_network_changed` |
| `OtherStation`, `Lose` | other stations, the radio |

**TcpEnd**, **TcpInput** are operators from `struct tcp_pcb` to `struct tcp_pcb`
(with the espconn connection above it), **TcpNet** two hosts and the network.
A byte is its place in what the application wrote, so that a segment shows which
bytes it holds whatever its sequence number says: a wrong trim, cut or
retransmission shows as a wrong stream. The two receive windows have 16 bits and
wrap as in the code. `drv` is the queue of the Wi-Fi driver:
a segment in it has `p->ref` above one and `p->eb` set, so `tcp_output` stops at
it and `tcp_rexmit_rto` leaves it in `unacked`. The loops over the queues are
recursive functions of a pcb, so that they can be proved about.

| Action | Code |
|---|---|
| `TcpConnect`, `EspconnWrite`, `EspconnClose` | `espconn_connect`, `espconn_tcp_write`, `espconn_disconnect` with `tcp_connect`, `tcp_write`, `tcp_close` |
| `EspconnRecvHold`, `EspconnRecvUnhold` | the calls of that name, with `tcp_recved` |
| `TcpInputAction` | `tcp_input`: listening, TIME-WAIT, `tcp_process`, `tcp_receive`, the callbacks of espconn, and the final `tcp_output` |
| `RetransmissionTimeout`, `Persist`, `RemovePcb`, `OoseqTimeout`, `Poll`, `TimeWaitEnds` | the parts of `tcp_slowtmr`, at any time their conditions hold; `Poll` with `espconn_server_poll`, which closes again (`Polled`) |
| `DelayedAck` | `tcp_fasttmr` |
| `DriverDone`, `Lose` | the driver and the network: a full network drops, any segment in it may come next |

**Logger** models all scripts of version 2. `package.loaded` is kept because
`webserver.lua` requires its page modules on every request and clears the entry
by hand. `adcMode` is kept in flash across the restart of `start.lua`. The
firmware's modules are external and do what the scripts rely on.

**Flasher** has the flags of `TFormMain`, the serial line as two sequences and
the burn threads as program counters. What one burn sends is a chain of packets:
the register read (one stands for the four), then for each image its address and
its blocks; `at` is the packet under way, `After(p)` the one that follows `p`.
`tick` is where a tick that resets the chip calls
`Application.ProcessMessages`; everything else of the GUI thread may run there.
The serial port component (`SPComm.pas`) is the two sequences: a write is dropped
while the port is closed, a close purges what is under way. The chip's boot
loader is external: it answers what it executes, and packets and
answers may be lost.

## 3. Runs

| Run | Checks | States | Bounds and why they are enough |
|---|---|---|---|
| `ring` | `PointersAgree`, refinement `FifoSpec` | 704 | 2 bytes, 4 slots: every fill level at every offset, several wraps |
| `proto_queue` | `TypeOK`, `FramesAligned`, `CallsKeepTheirWord`, `CallsReturn`, refinement `QueueSpec` | 16 101 | 8 slots, messages `<<1>>`, `<<7E>>`, `<<5E,7F>>`: escapes, bytes that look like a flipped one, two whole messages and a fragment at a time, a message that fits only an empty ring |
| `mqtt` | `TypeOK`, `LinkAgrees`, `NoRedial`, `PendingConnect`, `TaskFreesNothingInUse`, `RefusedAfterTimeout`, `PublishedHonest`, `QueueMoves`, `Redials` | 111 871 | keep-alive 1, send timeout 2, reconnect 1 s, queue of 2: each counter below, at and beyond its limit; a full queue |
| `app` | `NoRetryOffline`, `BackOnline` | 258 806 | all times 1 s, queue of 6: the greeting just fits and drops older packets |
| `app_clean` (violated) | `OldConnectionCleanedUp` | | see Findings |
| `config` | refinement `AtomicSpec` | 431 | 3 configurations: old, new and one more; any number of saves and power failures |
| `logger` | `StartsOnce`, `FreshPages`, `Reconnects` | 142 516 | 2 connections, 2 sensor values, idle time 1 s |
| `dhcp` | `TypeOK`, `PoolUnique`, `LeaseBacked`, `NeverStuck`, `UpOnlyWithLease` | 2 060 000 | 2 stations, 2 addresses: the range can be exhausted; every address the run knows lies in the range (a claim beyond `end_ip` is met by the proof of `PoolUnique`, for any set of addresses); leases of 4 minutes (see below); 2 messages of the client in the air; a counter of tries that wraps at 4 instead of 256 with retries of 1 and 2; no limit of tries (`MaxTries` 0) or one of 3, set at any time; one departure, release or restart |
| `tcp` | `TypeOK`, `WindowKept`, `AppendsAtEnd`, `StreamIntact`, `EofIsTheEnd`, `NothingForgotten`, `NeverStalled`, `NoSilentEnd` | 882 473 | 3 bytes in segments of 1, window of 2: the window fills, shuts and opens, a middle segment may be lost while the next is queued; fast retransmission after 2 duplicates, one timeout before the limit; 1 segment under way one way, 2 the other; see below |
| `tcp_stream` (violated) | `StreamIntact` | | see Findings |
| `tcp_ooseq` (violated) | `OoseqFits` | | see Findings |
| `flasher` | `TypeOK`, `SuccessMeansWritten`, `OneBurner`, `FailSticks`, `BurnEnds` | 61 511 | 2 images of 2 blocks: block after block, image after image, a block for the wrong image; 2 threads; 3 packets and answers under way; any number of burns |

What they show, in the order of importance:

* *The client's state and its connection agree* (`LinkAgrees`): while a reconnect
  waits, espconn has let go of the old connection; in a session there is one.
  From it follows that `MQTT_Task` never frees what espconn uses
  (`TaskFreesNothingInUse`). Only the application can, see Findings.
* *Sessions end when asked to* (`NoRedial`, `NoRetryOffline`): callbacks that come
  after `MQTT_Disconnect` do set `TCP_RECONNECT_REQ`; that the client does not get
  to `TCP_RECONNECT`, where the task connects anew, depends on the disarmed timer.
  `NoRedial` says no more than that: a name query that is pending at
  `MQTT_Disconnect` is not called off, and its answer dials (`mqtt_dns_found`,
  mqtt.c:89; `DnsFound`) and may open a session nobody wants.
* *Sent packets* (`RefusedAfterTimeout`, `PublishedHonest`, `QueueMoves`): a queued
  packet is lost to its predecessor only after a whole send timeout, the
  published callback belongs to a PUBLISH unless espconn has refused a packet,
  and a lost sent callback does not stop the queue.
* *The queue* (`QueueSpec`): messages come out whole and in order whatever
  fragments lie between them. When `MQTT_Publish` returns TRUE its packet
  stands whole behind all others, after any number of failed puts and drops, and
  when it returns FALSE no message is left; an acknowledgement takes no message
  away (`CallsKeepTheirWord`). Every call returns (`CallsReturn`).
* *The network* (`Redials`, `BackOnline`, `Reconnects`).
* *The flasher* (`SuccessMeansWritten`, `FailSticks`, `OneBurner`, `BurnEnds`):
  success means that every block is in its place, although answers do not name
  the packet they answer; it rests on one packet under way and on
  `LastOperationSuccess` being cleared before each.

* *Addresses* (`PoolUnique`, `LeaseBacked`): no two stations have one address, and
  a bound station still has a lease with enough time left, although the two sides
  count minutes from different moments and retransmitted requests move the lease
  between addresses. `NeverStuck` says
  that after any loss, restart, wrap of `tries` or late timer the client still has a
  timer that moves it, unless the limit of tries its application has set
  (`DHCP_MAXRTX`) is reached: then `dhcp_fine_tmr` calls `dhcp_event` at every tick
  and counts no more, and what follows is up to the Wi-Fi library.
  `UpOnlyWithLease` says that only `dhcp_start`, in a client that is bound, leaves
  the interface up with an address it no longer has a lease for (dhcp.c:684-696);
  no message, timer, release or lost link does.
* *The stream* (`StreamIntact`, `EofIsTheEnd`, `NothingForgotten`): what the
  receive callbacks get is a prefix of what was written, an orderly end comes
  after the last byte, and no acknowledgement or timeout drops a byte that did
  not arrive. `AppendsAtEnd` is what all that rests on when an
  application writes while segments are repeated. `WindowKept`: the peer's window,
  as the sender knows it, never moves back over what is under way, whatever order
  its announcements arrive in, as long as the peer sends no data itself. `NeverStalled` says that a sender
  always has a timer or a segment under way, or gets one from the next poll; it
  fails as soon as the persist timer is not started. `NoSilentEnd`: a connection
  that goes tells its application, also one whose close has failed for want of room
  for the FIN: it keeps its callbacks and `TF_RXCLOSED`, the next data aborts it, and
  the error callback says so.

Bounds that hide something, and what lies beyond them:

* `dhcp`: with leases of 1 to 3 minutes `LeaseBacked` fails, for then T1 may come
  after the server's last minute and a client is bound that has no lease (the
  default is 120). The server's list stays below `MAX_STATION_NUM`, so
  `KillOldest` is not reached in this run: with it a live lease is dropped and
  `LeaseBacked` fails by design; `PoolUnique` is proved with it. Other stations
  claim no address below `start_ip` (`Ciaddr`), which the server
  would accept (dhcpserver.c:1077): the walk then gives `start_ip` away twice. The
  theorem `LeasesStayUnique` has the same premise.
* `dhcp`: the limit of tries is 3. A limit of 1 or 2 never lets the ARP check
  finish, which counts `tries` to 2 (dhcp.c:230, 443): such a client is never bound.
  `SetMaxTry` does not change a limit during an ARP check: raising one that has
  stopped the check would let the client take an address whose lease may long be
  over, and `LeaseBacked` would fail.
* `tcp`: the sender's driver keeps no segment (`SlotsA = 0`), the receiver's one.
  With one on the sender's side `AppendsAtEnd` fails, and with it the stream (the
  finding of `tcp_stream`) and `NeverStalled` (see Observations). Only the connecting
  host writes: where both do `WindowKept` fails (see Observations). Sequence numbers
  do not wrap and allocation does not fail. The window of two segments is the one that
  shuts; the theorems hold for every window of a segment or more, the program's
  `4 * TCP_MSS` (init.c:263) included.
* `tcp`: a close fails when `snd_buf` is 0 (`tcp_enqueue_flags`, tcp_out.c:759): with
  two bytes unacknowledged and none unsent, which the run reaches in ESTABLISHED. In
  CLOSE_WAIT it takes a reader that closes while two bytes of the writer are under
  way, which this run leaves out; with `Closer = {a, b}`, `DataA = 3`, `SlotsB = 0`
  the same properties hold (1 190 000 states, checked once, not a run).

`CHECK_DEADLOCK FALSE` stands where the model ends for good: the client after
`stale`, a TCP connection that both sides have let go.

## 4. Fairness and timing

The run of TCP assumes nothing about time: callbacks and timers come in any order.
The run of the client (`mqtt`) uses `FairSpec`, so that its invariants are checked
under the timing described below (`PromptNext`: a tick comes only when no event is
posted); its theorems are about `Spec`, where ticks, tasks and callbacks come in any
order. The run of the application (`app`) assumes only
that the Wi-Fi timer fires (`FairAppSpec`), `app_clean` also that posted events are
run before the next poll (`PromptAppSpec`). The DHCP run has the minute timers tick in
turn, at one rate from different moments, and lets no message live for more than a
minute; a phase that the fine timer ends within a minute sees at most one tick.
Both network runs check safety only: under loss without bound nothing is
promised, and with fair delivery TCP's persist timer can still keep a lost
segment from being repeated (section 6).

`MqttClient!FairSpec` (liveness): posted tasks are run (the OS's scheduler), the
armed timer fires (strongly fair, because a tick waits while an event is
posted), an attempt to connect, a name query and a packet are answered or fail
(TCP's and the resolver's timeouts), a broker drops a silent client (MQTT's
keep-alive rule), espconn's posted close is run. A tick comes only when no event
is posted, for an event needs milliseconds and a tick is a second; and a packet
is acknowledged or its connection lost within the keep-alive time (120 s).
`MqttApp!FairAppSpec` needs only that the Wi-Fi timer fires: it rearms itself.
`ProtoQueue!FairSpec`: a call that has begun goes on.
`Logger!FairSpec`: the cron entry is called and the station associates with an
access point in reach. `Flasher!FairSpec`: the timer, the burn thread, the GUI
thread's messages and the line go on.

`Flasher!Prompt` is a timing assumption of the *safety* run also: a new thread
sets `IsThreadStarted` within one 50 ms tick; a stopped thread ends before the
two clicks that restart a burn; Windows delivers posted messages and
synchronized procedures before clicks. Without the first `OneBurner` does not
hold (listed as a hazard), without the others `SuccessMeansWritten` does not.

## 5. Proofs

All theorems hold for every value of the constants that satisfies the modules'
assumptions; where one has a further premise, the table names it.

| Module | Theorems | Argument |
|---|---|---|
| `ProtoQueueProofs` | of the ring `RingTypeCorrect`, `PointersCorrect`, `RingImplementsFifo`; of the queue `TypeCorrect`, `AlwaysAligned`, `RingImplementsQueue`, `CallsKeepWord` | The ring: `RingTypeOK /\ PointersAgree` is inductive: without the second conjunct a get might move the read pointer off the data. `RINGBUF_Put` writes a slot that no queued byte occupies; `RINGBUF_Get` drops the first. The queue: `FramesAligned` needs `Writing`: while a put is inside a frame the ring's last byte is not `7F`, and the byte after `7D` is a flipped one, which is never `7F`. The refinement: `ScanLoop` shows by well-founded induction that the recursive function of `Scan` exists, `ScanAppend` and `ScanHead` what a byte more at the end, or one less at the front, does to its messages; `Building` says that while a message is put the parser would stand, at the end of the ring, exactly at what has been put of it, whatever fragments lie before. Then `PutEnd` is `Accept`, `ParseEnd` is `Deliver` or `Drop`, and everything else stutters. `CallsKeepWord` adds `Calling`, which relates what a call has put so far to the messages in the ring. |
| `MqttProofs` | `TypeCorrect`, `LinkAlwaysAgrees`, `TaskSafe`, `NeverRedials`, `ConnectStaysPending`, `RefusalsAreLate`, `PublishedIsHonest` (of the client); `AppTypeCorrect`, `NeverRetriesOffline` (of the application) | `TypeOK`, then `LinkAgrees` relative to it, then the others relative to both. `NeverRedials` (of reconnections, not of the answer to a name query that was already pending) needs that the armed timer and `TCP_RECONNECT` imply `wanted`; `RefusalsAreLate` that a packet's age and the remaining send timeout add up to at least `SendTimeout`; `PublishedIsHonest` that the packet under way is the pending one unless one was refused. The client's invariant is carried through the application's steps, with `wanted => lastWifiStatus = "GOT_IP"`. |
| `ConfigStoreProofs` | `TypeCorrect`, `StoreIsAtomic` | `Target` (the sector being written is not the current one and, once written, equals `sysCfg`) and `Current` (the current sector is good or the device is new). |
| `DhcpProofs` | `LeasesStayUnique`, `LeasesWellFormed` (of the lease list alone, `PoolSpec`); `ImplementsPool`, `NetworkLeasesUnique`, `NetworkTyped`, `ClientsNeverStuck`, `InterfaceHasLease`, `LeaseIsBacked` (of the network, `Spec`) | The list: uniqueness alone is not inductive, for the walk looks from `start_ip` upwards, so the invariant adds that no lease lies below it, and that leases are well formed (the minute timer drops them before zero). `ScanIsFree` shows that the address found is free or the station's own, `FewerLeases` that every removal keeps the invariant, `UpdateGood`, `KillGood` and `AgedGood` are the three ways the list changes. It holds while no request claims an address below `start_ip` (`Ciaddr`). The network: one lemma per function of dhcp.c says that from a well-formed client it leaves one that waits for something (`Fine`). Restarts and the limit of tries are part of it: `NeverStuck` promises a running retry or a limit that is reached, and `InterfaceHasLease` that only `dhcp_start` leaves the interface up without a lease. `NeverStuck` is not inductive: the invariant adds that T1 comes before T2 or not at all (or a renewal could start with T2 off) and that T2 is ahead in RENEWING even while the retry timer runs, for the retries are counted by a byte whose wrap leaves that timer off; rebinding and rebooting are given up before it wraps. The messages in the air claim only addresses in range (`NetTyped`, `ReplyTyped`), which makes every step of the network one of the lease list (`PoolSteps`), so uniqueness carries over. That holds for any number of stations, `KillOldest` included. `LeaseIsBacked` has two premises: leases of at least four minutes (`LongLease`; TLC shows the property violated at three) and fewer stations than the list holds (`Roomy`, so that `KillOldest` is not reached). Its invariant `LeaseInv` follows the lease from the grant: an ACK in the air stands for a lease of full length (`InAir`), for no message lives through a tick of the server; a station that has taken it has a lease with at most `Lag` minutes less than it counts (`Backed`), one or two, depending on whose timer ticks next; and what T1 still counts fits into the lease (`Counts`). |
| `LoggerProofs` | `ServicesStartOnce`, `PagesAreFresh` | the poll excludes running services and a boot excludes both; `package.loaded` holds no page between two steps. |
| `FlasherProofs` | `TypesCorrect`, `OneThreadBurns`, `FailureSticks`, `SuccessIsWritten` | `Seen` (a thread past its first step has `IsThreadStarted` set) makes a tick start a thread only when there is none; `Stopped` (the fail icon, and a thread about to show it, imply `BurnOK`) leaves only a click on Flash. `SuccessIsWritten` needs `BurnInv`: while a burn goes on, the line holds no packet or answer of it except the one of the thread's current packet (`NoOps`, `Asked`, `Answered`), the rest are handshakes; everything before that packet is in the flash, and with the packet executed also the packet itself (`Progress`); so an answer that sets `LastOperationSuccess` is the one to the packet at `at`, never a late one (`Waiting`). All but the first under `PromptSpec`. |
| `TcpProofs` | `ConnectionKept`, `TypeCorrect`, `StreamIsIntact`, `EofComesLast`, `NothingIsForgotten`, `EndIsTold` | One invariant for both ends and the network (`Connection`). Every segment in a queue or in the air holds bytes of the stream under the numbers that belong to them (`Genuine`), whatever was cut, filled up or sent again, and acknowledges no more than its sender has taken (`Reach`, `OnTheWay`). The receiver has a prefix of the stream, `rcv_nxt` is where it ends, and what waits in `ooseq` is genuine, in order, with a FIN only at the end (`Stream`, `Placed`, `Sorted`). The sender's queues cover every byte its peer does not have (`AllCovered`). One lemma per handler shows `Moves`: a good pcb becomes a good one, with no less written or taken; the loops of `tcp_output` and `tcp_receive` are followed with well-founded induction. The window is any from one segment up to 65535 bytes, the program's `4 * TCP_MSS` among them (`TcpAssumption`). Premise of all six: `[]AppendsAtEnd`, what `tcp_write` takes for granted. It is false with a driver slot at the sender; `TcpLineProofs` proves it where a host that writes has none and the peer's window is kept; run `tcp_stream` shows that without it the stream is not intact. |
| `TcpLineProofs` | `AllStayInLine`, `WritesAtTheEnd`, `NothingStalls`, `ConnectionHolds` | What `TcpProofs` takes as its premise, and `NeverStalled`, from the order of a sender's queues: `unacked` followed by `unsent` is sorted (`Straight`), each segment begins where another ends or at the last acknowledgement (`Adjoins`), and the last one ends at `snd_lbb` (`Meets`). No single function keeps this: fast retransmission puts the first segment of `unacked` in front of `unsent` (`Bent`), and only the `tcp_output` that ends the same `tcp_input` sends it again and straightens the queues, provided that it still fits the window (`BentFits`). That is the premise `[]WindowKept`, and why the driver must keep no segment. One lemma per handler (`...Poised`, `...Ordered`, `...Lines`) carries the shape through `tcp_input`; `OutputLines` and `OutputStirs` are about the end of `tcp_output`: what stays behind is straight, and something is in flight, or the retransmission or persist timer runs. |

The definitions that the inductive invariants consist of were first checked as
invariants by TLC.

Only model-checked: all liveness (`CallsReturn`, `QueueMoves`, `Redials`,
`BackOnline`, `Reconnects`, `BurnEnds`), and of the invariants `WindowKept` of TCP.

`WindowKept` is therefore a premise of the theorems of `TcpLineProofs`; the other one
is about the driver (below). `ConnectionHolds` has both. `WindowKept` is not idle:
run `tcp` checks it, with a window that shuts and opens and announcements that
overtake each other, where one host writes. Nor can it be dropped: where both write it does not hold, and then
`AppendsAtEnd` does not either (`Tcp.cfg` with `DataA = 4`, `DataB = 1`, `SlotsB = 0`,
`Closer = {}`; see Observations).

The hypotheses on the driver are weaker than in the run where they can be.
`WritesAtTheEnd` and `ConnectionHolds` ask that a host that writes keeps no segment
in its driver (the values of run `tcp`: the receiver's driver has a slot);
`NothingStalls` that no host does. With a slot at the writing host all three are
false: that is the finding of `tcp_stream` and the observation about
`tcp_rexmit_rto` below. With a slot at the receiver only, `NeverStalled` is
model-checked, not proved.

## 6. Findings

1. `app_clean`: `MQTT_Connect` (mqtt.c:790) says it cleans up the old connection
   forcefully. `espconn_delete` does nothing for client connections, so the
   `pCon` it frees is still in espconn's list. The run shows the application
   getting there: the connection is established while `MQTT_Disconnect` waits in
   the task queue, `connect_cb` overwrites `TCP_DISCONNECTING`, and the next
   address calls `MQTT_Connect` on the open connection.
2. `tcp_stream`: `tcp_write` (tcp_out.c:424) fills up the last segment of `unsent`,
   "Chain a new pbuf to the end of pcb->unsent" (tcp_out.c:465), without asking
   whether that segment is the end of the stream. It is not when `tcp_rexmit` has
   put the first unacknowledged segment there while the Wi-Fi driver holds it
   (`tcp_output`, tcp_out.c:963, leaves it in `unsent`) and a later one stays in
   `unacked`. The new bytes get the numbers of the later segment, and the receiver
   hands them on in its place, against "this data is passed to the application"
   of data "that is the next in-sequence" (tcp_in.c:1162). One duplicate
   acknowledgement in the run (three in the code): bytes 1 and 2 are sent, 1 is to
   be repeated and waits in the driver, 3 is written; the other side gets 1, 3.
3. `tcp_ooseq`: `tcp_receive` asserts "tcp_receive: ooseq tcplen > rcv_wnd"
   (tcp_in.c:1376) of what it takes out of `ooseq`; the assertion compiles to
   nothing (cc.h:83) and does not hold. `tcp_output` counts a segment's length
   without the FIN against the window (tcp_out.c:962), and an empty `ooseq` takes
   the first segment untrimmed (tcp_in.c:1413), so the FIN lies one beyond the
   window. When the gap is filled the 16-bit `rcv_wnd` goes below zero, wraps to
   65535 and is announced.

Observations that no run is spent on:

* The web server's idle time is 10 s, its comment says 30 s (webserver.lua:54).
  The log's `h=` is the temperature (cron.lua:8). For DOUT the image header gets
  `$15` (UnitFormMain.pas:336); the comment of `FlashStream`
  (UnitFormMain.pas:251) and the SDK's Makefile say 3.
* DHCP: T1 and T2 of an earlier lease are cleared neither by a NAK nor by a
  release or a reboot. When one fires in REQUESTING, the client is in RENEWING and
  the ACK for the new offer binds it at once, without the ARP check, under the
  comment "already bound to the given lease address?" (dhcp.c:1658). An exhausted
  pool answers with the address 0.0.0.0, which the client binds. `DHCPRELEASE`
  is sent with `ciaddr` 0, so the server renews the lease instead of dropping it;
  a `DHCPDECLINE` leads to the same offer again.
* TCP: LAST_ACK and FIN_WAIT_1 take `ackno == snd_nxt` for the acknowledgement of
  the FIN, also when data and the FIN wait unsent (tcp_in.c:815, 842). The persist
  timer also starts with data in flight and then replaces the retransmission
  timer (tcp_out.c:1042, tcp.c:809). `nrtx` is also counted by fast
  retransmission, and compared with `==` (tcp.c:805).
* TCP: `tcp_rexmit` says "Keep the unsent queue sorted." (tcp_out.c:1328).
  `tcp_rexmit_rto` (tcp_out.c:1256-1285, changed so that segments the driver holds
  are left alone) puts what it takes back in front of the queue. When the driver
  holds a later segment at the first timeout and has let it go at the second, the
  queue is out of order; with a full window the head may then never fit it again
  while neither the retransmission nor the persist timer runs (`NeverStalled` with
  a driver slot at the sender).
* TCP: `tcp_receive` takes the window of a segment only if its number is not below the
  last one it took a window from (tcp_in.c:929), but its acknowledgement in any case.
  Where both sides write, a repeated segment has an old number, a new acknowledgement
  and perhaps a shut window: the sender then counts the old window from the new
  acknowledgement and sends beyond what the receiver announced. The next segment
  takes that back, below what is in flight (`WindowKept`). After as many duplicates as
  fast retransmission wants, `tcp_rexmit` puts the first segment into `unsent`, where
  the shut window keeps it while the later ones are in flight: the state `tcp_write`
  does not expect, as in `tcp_stream` but without the driver.
* TCP: an acknowledgement that is due (`TF_ACK_NOW`) makes `tcp_output` send it and
  return before it looks at the persist timer (tcp_out.c:926); the timer starts
  with the next poll, which is why `NeverStalled` looks one `tcp_output` ahead.
* TCP: after a `tcp_close` that failed, espconn says "closing failed, try again later"
  (espconn_tcp.c:569, 1049). A server does, at the next poll (`espconn_server_poll`,
  which in ESTABLISHED waits for its timeout). A client has no poll callback: one
  that is left in CLOSE_WAIT stays there, and the try again never comes; one that is
  left in ESTABLISHED has `TF_RXCLOSED` set and aborts at the next data
  (`Finish`), or closes at the peer's FIN. No run is spent on it: the statement is
  about one client that nothing else happens to.
* DHCP: once `tries` reaches `DHCP_MAXRTX`, `dhcp_fine_tmr` breaks out of its loop over
  the interfaces (dhcp.c:386-393): `request_timeout` stands still for this interface
  and for those behind it, until the library reacts to `dhcp_event`.
* MQTT: `MQTT_Disconnect` does not call off a name query; its answer dials
  (mqtt.c:89) and may open a session after the disconnect.
* MQTT: no timeout for a CONNACK, an ignored error of `espconn_connect`; logger:
  one attempt at SNTP. These are in PROJECT.json as hazards.

## 7. Not modelled

* Packet contents and the byte stream of TCP: the client's packets are types, and
  a segment holds one packet.
* Two MQTT clients, which share the task queue's single place.
* Failing flash operations, failing allocation (a full send buffer is no failing
  allocation: writes that do not fit and closes that fail by it are modelled).
* espconn beyond one client and one server connection: its lists, several
  connections, the buffer counts of `espconn_buf.c`, the sent callback.
* TCP: congestion avoidance and round-trip times (`cwnd` is kept only where it
  decides what may be sent, a timer may fire whenever it runs), keep-alive,
  options, wrapping sequence numbers, `refused_data` (espconn
  takes everything), half-closes and simultaneous opens (espconn makes neither).
* The rest of lwIP: ARP, DNS, IP, UDP and buffers are the network of the models;
  `sockets.c`, `api_*.c` and `sys.c` are not compiled (`NO_SYS` 1, `LWIP_SOCKET` 0,
  `LWIP_NETCONN` 0 in `lwipopts.h`), nor are AutoIP and IP reassembly.
* Drivers and the SDK's other examples (vendored, or demonstrations of single
  calls).
* Version 1 of the logger: the same structure as version 2.
* The flasher's settings, QR code and choice of files, and its progress bar: for an
  image shorter than 100 bytes `MemoryStream.Size div 100` is 0 and the `mod` by it
  (UnitFormMain.pas:469) raises in the burn thread, which leaves `IsThreadStarted`
  set. The model's images have whole blocks, as firmware images do, so neither this
  end of a burn nor what follows it is checked.

## 8. Plan

Done: the modules above, in that order. Next:

1. Proofs: `WindowKept` where one host writes; `NeverStalled` with a driver slot at the
   receiver.
2. `MqttPair`: two clients on the one-place task queue, with the property that an
   event of one is not lost for ever because of the other.
3. `MqttStream`: `mqtt_tcpclient_recv` on segments with several packets and on
   packets in several segments; `MqttMsg`: lengths of `mqtt_msg.c` as operators
   checked against the format.
4. `EspconnServer`: connection lists of espconn, several connections and the sent
   callback on top of `TcpInput`; `MqttClient`'s link shown to be one client's view
   of it.
5. `Dns`: the table of `dns.c` with retries and name collisions under the MQTT
   client's lookups. `AtUpgrade`: the upgrade state machine of the AT example.
