------------------------------- MODULE DhcpNet -------------------------------
(***************************************************************************)
(* Stations that run core/dhcp.c on an access point that runs              *)
(* app/dhcpserver.c.  Messages are lost and reordered, stations leave and  *)
(* come back, and other stations, not modelled, send what they like.       *)
(*                                                                         *)
(* Time: the minute timers tick in turn, in the order of Phases, for they  *)
(* run at one rate from different moments; no message lives through a tick *)
(* of the server; and the phases of the client that its fine timer ends    *)
(* within a minute (an ARP check takes 1 s, rebinding 45 s, rebooting 3 s) *)
(* see at most one (late).                                                 *)
(***************************************************************************)
EXTENDS DhcpServer, DhcpClient, Sequences

CONSTANTS Clients,   \* the stations of Mac that run dhcp.c
          Phases,    \* the devices, "server" and the clients, each once
          MaxTries,  \* limits of tries an application sets, 0 for none
          MaxNet,    \* messages of one station in the air
          MaxLeaves  \* times stations leave, give up their address or start over

ASSUME NetAssumption ==
  /\ Clients \subseteq Mac /\ "server" \notin Clients
  /\ Phases \in Seq({"server"} \cup Clients)
  /\ \A x \in {"server"} \cup Clients :
       \E i \in 1 .. Len(Phases) : \A j \in 1 .. Len(Phases) : Phases[j] = x <=> j = i
  /\ MaxTries \subseteq Nat
  /\ MaxLeaves \in Nat

VARIABLES cl,      \* struct dhcp and the interface of each station
          net,     \* the messages in the air
          assoc,   \* the stations the access point has
          turn,    \* the device in Phases whose minute timer ticks next
          late,    \* the stations that are in a short phase since the last one
          maxtry,  \* DHCP_MAXRTX of each station
          leaves

vars == <<plist, cl, net, assoc, turn, late, maxtry, leaves>>

Brief == {"CHECKING", "REBINDING", "REBOOTING"}

\* The leases, the clients and the bookkeeping of the composition.
TypeOK ==
  /\ PoolTypeOK
  /\ cl \in [Clients -> [state : States, tries : 0 .. TriesMod - 1, armed : BOOLEAN,
                     t1 : 0 .. LeaseTime, t2 : 0 .. LeaseTime, t0 : {0, LeaseTime},
                     offered : Addr \cup {NoIp}, ip : Addr \cup {NoIp}, up : BOOLEAN]]
  /\ assoc \subseteq Clients /\ late \subseteq Clients
  /\ turn \in 1 .. Len(Phases)
  /\ maxtry \in [Clients -> MaxTries]
  /\ leaves \in 0 .. MaxLeaves

Init ==
  /\ PoolInit
  /\ cl = [c \in Clients |-> Fresh]
  /\ net = {}
  /\ assoc = Clients
  /\ turn = 1 /\ late = {}
  /\ maxtry \in [Clients -> MaxTries]
  /\ leaves = 0

Of(c) == {m \in net : m.mac = c}
Up(m) == m.type \in {"DISCOVER", "REQUEST", "RELEASE", "DECLINE"}

\* What is in the air after station c has sent msgs, with a new xid or not.
Air(c, newXid, msgs) ==
  LET old  == IF newXid THEN {[m EXCEPT !.stale = TRUE] : m \in Of(c)} ELSE Of(c)
      new  == {[type |-> m.type, mac |-> c, ciaddr |-> m.ciaddr, req |-> m.req,
                stale |-> FALSE] : m \in msgs}
      all  == old \cup (IF c \in assoc THEN new ELSE {})
  IN  (net \ Of(c)) \cup (IF Cardinality(all) <= MaxNet THEN all ELSE old)

\* Station c runs one function of dhcp.c, with m taken off the air.
Does(c, out, m) ==
  /\ cl' = [cl EXCEPT ![c] = out.d]
  /\ net' = Air(c, out.newXid, out.msgs) \ m
  /\ late' = IF out.d.state = cl[c].state THEN late ELSE late \ {c}

Idle == UNCHANGED <<plist, assoc, turn, maxtry, leaves>>

Leaving == leaves < MaxLeaves /\ leaves' = leaves + 1

-----------------------------------------------------------------------------
\* dhcp_start, by the Wi-Fi library: in a client that is already attached,
\* whatever its state, it clears struct dhcp and starts over.  The interface
\* keeps its address and stays up.
Start(c) == /\ c \in assoc
            /\ \/ cl[c].state = "OFF" /\ UNCHANGED leaves
               \/ cl[c].state # "OFF" /\ Leaving
            /\ Does(c, Discover([Fresh EXCEPT !.ip = cl[c].ip, !.up = cl[c].up]), {})
            /\ UNCHANGED <<plist, assoc, turn, maxtry>>

\* dhcp_release and dhcp_stop.
Stop(c) == /\ cl[c].state # "OFF" /\ Leaving
           /\ Does(c, Release(cl[c]), {})
           /\ UNCHANGED <<plist, assoc, turn, maxtry>>

\* wifi_station_dhcpc_set_maxtry.  Not during an ARP check: a limit that is
\* raised under a client which waits there lets it take an address whose lease
\* may long be over.
SetMaxTry(c, n) == /\ cl[c].state # "CHECKING"
                   /\ maxtry' = [maxtry EXCEPT ![c] = n]
                   /\ UNCHANGED <<plist, cl, net, assoc, turn, late, leaves>>

\* dhcp_fine_tmr calls dhcp_event and counts no more.
AtLimit(c) == maxtry[c] # 0 /\ cl[c].tries >= maxtry[c]

\* request_timeout is counted down.
Runs(c) == cl[c].armed /\ ~AtLimit(c)

\* dhcp_fine_tmr, when request_timeout reaches 0.
FineTmr(c) == /\ Runs(c)
              /\ Does(c, Timeout([cl[c] EXCEPT !.armed = FALSE]), {})
              /\ Idle

Tick(x) == /\ Phases[turn] = x
           /\ turn' = (turn % Len(Phases)) + 1

\* dhcp_coarse_tmr.
ClientTick(c) == /\ Tick(c)
                 /\ Does(c, Coarse(cl[c]), {})
                 /\ UNCHANGED <<plist, assoc, maxtry, leaves>>

\* dhcps_coarse_tmr.
ServerTick == /\ Tick("server")
              /\ \A c \in late : cl[c].state \notin Brief \/ AtLimit(c)
              /\ plist' = AgedPool
              /\ net' = {}
              /\ late' = {c \in Clients : cl[c].state \in Brief}
              /\ UNCHANGED <<cl, assoc, maxtry, leaves>>

\* handle_dhcp.
ServerReceives(m) ==
  /\ Up(m)
  /\ plist' = PoolAfter(m)
  /\ net' = (net \ {m}) \cup Reply(m)
  /\ UNCHANGED <<cl, assoc, turn, late, maxtry, leaves>>

\* dhcp_recv.  A reply of another exchange has another xid.
ClientReceives(m) ==
  /\ ~Up(m)
  /\ Does(m.mac, IF m.stale THEN Silent(cl[m.mac])
                 ELSE Receive(cl[m.mac], m.type, m.yiaddr, LeaseTime), {m})
  /\ Idle

Lose(m) == /\ net' = net \ {m}
           /\ UNCHANGED <<plist, cl, assoc, turn, late, maxtry, leaves>>

\* dhcp_arp_reply: a host on the segment has the address.
ArpReply(c) == /\ cl[c].state = "CHECKING" /\ c \in assoc
               /\ Does(c, Decline(cl[c]), {})
               /\ Idle

\* Another station asks, releases its address or leaves.
OtherStation(mac) ==
  /\ \/ \E ciaddr \in Ciaddr : Update(mac, ciaddr)
     \/ \E ciaddr \in Ciaddr \ {NoIp} : Released(mac, ciaddr)
     \/ \E n \in LeaseOf(mac) : ClientLeave(mac, n.ip, FALSE)
  /\ UNCHANGED <<cl, net, assoc, turn, late, maxtry, leaves>>

InUse(c) == cl[c].up /\ c \in assoc /\ cl[c].ip # NoIp

\* The station's Wi-Fi link is lost; the library tells the server ...
Leave(c) == /\ c \in assoc /\ Leaving
            /\ assoc' = assoc \ {c}
            /\ \/ LeaseOf(c) = {} /\ UNCHANGED plist
               \/ \E n \in LeaseOf(c) : ClientLeave(c, n.ip, FALSE)
            /\ net' = net \ Of(c)
            /\ UNCHANGED <<cl, turn, late, maxtry>>

\* ... and calls netif_set_link_up when it is there again.
Return(c) == /\ c \notin assoc
             /\ assoc' = assoc \cup {c}
             /\ cl' = [cl EXCEPT ![c] = NetworkChanged(cl[c]).d]
             /\ late' = late \ {c}
             /\ net' = net \cup {[type |-> m.type, mac |-> c, ciaddr |-> m.ciaddr,
                                  req |-> m.req, stale |-> FALSE] :
                                   m \in NetworkChanged(cl[c]).msgs}
             /\ UNCHANGED <<plist, turn, maxtry, leaves>>

Next ==
  \/ \E c \in Clients : \/ Start(c) \/ Stop(c) \/ FineTmr(c) \/ ClientTick(c)
                    \/ ArpReply(c) \/ Leave(c) \/ Return(c)
                    \/ \E n \in MaxTries : SetMaxTry(c, n)
  \/ ServerTick
  \/ \E mac \in Mac \ Clients : OtherStation(mac)
  \/ \E m \in net : ServerReceives(m) \/ ClientReceives(m) \/ Lose(m)

Spec == Init /\ [][Next]_vars

-----------------------------------------------------------------------------
\* The client stops or renews before the server gives its address away: a
\* bound station has a lease, with at most two minutes less to run than the
\* client counts (the timers of dhcp_bind and of
\* wifi_softap_dhcps_client_update start at different moments and are moved by
\* different messages).  The lease need not be for the station's address: a
\* delayed REQUEST with no ciaddr moves it when a lower address has become
\* free, until the client renews.
LeaseBacked ==
  \A c \in Clients : cl[c].state = "BOUND" /\ InUse(c) =>
    \E n \in LeaseOf(c) : n.lease_timer + 2 >= cl[c].t2

\* The client is never left waiting for what will not come: in every state
\* with an exchange under way request_timeout is counted, a bound one has T1 or
\* T2 ahead, and a renewal has its retry or T2, whichever messages were lost,
\* whichever timers of an older lease fired meanwhile and whenever the client
\* was started over (dhcp_timeout, the wrap of tries, dhcp_set_state).  The one
\* exception is a limit of tries that has been reached: then dhcp_fine_tmr
\* calls dhcp_event at every tick, and what follows is up to the Wi-Fi library.
NeverStuck ==
  \A c \in Clients : LET d == cl[c] IN
    \/ d.state = "OFF"
    \/ d.state = "BOUND" /\ (d.t1 > 0 \/ d.t2 > 0)
    \/ d.state = "RENEWING" /\ (Runs(c) \/ d.t2 > 0)
    \/ d.state \notin {"BOUND", "RENEWING"} /\ (Runs(c) \/ AtLimit(c))

\* The interface is up and the client has no lease.
Exposed(d) == d.up /\ d.state \notin {"BOUND", "RENEWING", "REBINDING"}

\* Only dhcp_start takes the lease and leaves the interface up: a NAK, a
\* release, a lost link and the failures of rebinding and rebooting all take it
\* down before a new address is asked for, and no answer, however late, and no
\* timer, of whatever lease, brings it up without one.
UpOnlyWithLease ==
  [][\A c \in Clients : Exposed(cl[c])' => Exposed(cl[c]) \/ Start(c)]_vars
=============================================================================
