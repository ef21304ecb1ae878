----------------------------- MODULE DhcpServer -----------------------------
(***************************************************************************)
(* app/dhcpserver.c: the DHCP server of the soft access point.  It keeps a *)
(* list of leases ordered by address; what it does with a message depends  *)
(* on the list, the sender and the address (ciaddr) the sender says it     *)
(* has.  The list is modelled as a set: its order is that of the addresses.*)
(***************************************************************************)
EXTENDS Integers, FiniteSets, FiniteSetsExt

CONSTANTS Mac,        \* the stations
          Addr,       \* the last byte of the addresses of the segment
          StartIp,    \* dhcps_lease.start_ip and
          EndIp,      \* end_ip
          LeaseTime,  \* dhcps_lease_time, in minutes
          MaxStation  \* MAX_STATION_NUM, 8

NoIp == 0             \* IPADDR_ANY

ASSUME ServerAssumption ==
  /\ Addr \subseteq 1 .. 254
  /\ StartIp \in Addr /\ EndIp \in Addr
  /\ LeaseTime \in Nat \ {0}
  /\ MaxStation \in Nat \ {0, 1}

VARIABLE plist        \* the leases

\* struct dhcps_pool.
Lease == [ip : Addr, mac : Mac, lease_timer : 1 .. LeaseTime,
          type : {"DYNAMIC", "STATIC"}, state : {"ONLINE", "OFFLINE"}]

PoolTypeOK == plist \subseteq Lease

PoolInit == plist = {}

-----------------------------------------------------------------------------
LeaseOf(mac) == {n \in plist : n.mac = mac}
HolderOf(ip) == {n \in plist : n.ip = ip}

\* Mutant: a lease whose station is away does not count as taken.
FreeWhileAway == {a \in Addr : a >= StartIp
                               /\ \A n \in plist : n.ip = a => n.state = "OFFLINE"}

Free == {a \in Addr : a >= StartIp /\ HolderOf(a) = {}}

\* The first loop of wifi_softap_dhcps_client_update for a station without an
\* address: it walks up the list as long as the addresses follow each other,
\* and stops at the station's own lease.  A lease below start_ip ends the walk
\* at once, with start_ip.
Scan(mac) ==
  IF \E n \in plist : n.ip < StartIp THEN StartIp
  ELSE Min(Free \cup {n.ip : n \in LeaseOf(mac)})

Wanted(mac, ciaddr) == IF ciaddr = NoIp THEN Scan(mac) ELSE ciaddr

Others(mac, ciaddr) == HolderOf(ciaddr) \ LeaseOf(mac)

\* The exits that return IPADDR_ANY.
Refused(mac, ciaddr) ==
  IF Others(mac, ciaddr) # {}
  THEN \E n \in Others(mac, ciaddr) : n.state # "OFFLINE"
  ELSE LeaseOf(mac) = {} /\ (Free = {} \/ Wanted(mac, ciaddr) > EndIp)

\* renew: the sender's own lease is for the address it says it has.
Renew(mac, ciaddr) == HolderOf(ciaddr) \cap LeaseOf(mac) # {}

\* Mutant: the lease timer of a renewed lease is not started again.
GrantedForTheRest(mac, ciaddr) ==
  [ip |-> Wanted(mac, ciaddr), mac |-> mac,
   lease_timer |-> Min({LeaseTime} \cup {n.lease_timer : n \in LeaseOf(mac)}),
   type |-> IF ciaddr = NoIp \/ Renew(mac, ciaddr) THEN "DYNAMIC" ELSE "STATIC",
   state |-> "ONLINE"]

Granted(mac, ciaddr) ==
  [ip |-> Wanted(mac, ciaddr), mac |-> mac, lease_timer |-> LeaseTime,
   type |-> IF ciaddr = NoIp \/ Renew(mac, ciaddr) THEN "DYNAMIC" ELSE "STATIC",
   state |-> "ONLINE"]

\* wifi_softap_dhcps_client_update: the address it returns ...
UpdatedIp(mac, ciaddr) ==
  IF Refused(mac, ciaddr) THEN NoIp ELSE Wanted(mac, ciaddr)

\* ... and the list it leaves.
UpdatedPool(mac, ciaddr) ==
  IF Refused(mac, ciaddr) THEN plist
  ELSE (plist \ (LeaseOf(mac) \cup HolderOf(ciaddr))) \cup {Granted(mac, ciaddr)}

\* wifi_softap_dhcps_client_leave, with force from a DHCPRELEASE and without
\* it from the Wi-Fi library when the station goes.
LeftPool(pool, mac, ip, force) ==
  LET gone == {n \in pool : n.mac = mac /\ n.ip = ip}
  IN  (pool \ gone) \cup
      {[n EXCEPT !.state = "OFFLINE"] :
         n \in {g \in gone : g.type = "DYNAMIC" /\ ~force}}

\* The lease list after a message (parse_msg): every message of a station, a
\* DHCPDECLINE and a DHCPRELEASE too, first renews or moves its lease.
PoolAfter(m) ==
  IF m.type = "RELEASE"
  THEN LeftPool(UpdatedPool(m.mac, m.ciaddr), m.mac, m.ciaddr, TRUE)
  ELSE UpdatedPool(m.mac, m.ciaddr)

\* The answers (parse_options, send_offer, send_ack, send_nak).
Answer(type, m, ip) == [type |-> type, mac |-> m.mac, yiaddr |-> ip, stale |-> m.stale]

Reply(m) ==
  LET ip == UpdatedIp(m.mac, m.ciaddr)
  IN  CASE m.type = "DISCOVER" -> {Answer("OFFER", m, ip)}
        [] m.type = "REQUEST" /\ m.req = ip -> {Answer("ACK", m, ip)}
        [] m.type = "REQUEST" /\ m.req # ip -> {Answer("NAK", m, ip)}
        [] m.type \in {"RELEASE", "DECLINE"} -> {}

\* kill_oldest_dhcps_pool.  It never looks at the first lease of the list, and
\* marks the last one as away, whichever it frees.
KillOldest(pool) ==
  LET head   == CHOOSE n \in pool : \A o \in pool : n.ip <= o.ip
      rest   == pool \ {head}
      oldest == CHOOSE n \in rest :
                  \A o \in rest : \/ n.lease_timer < o.lease_timer
                                  \/ n.lease_timer = o.lease_timer /\ n.ip <= o.ip
      last   == CHOOSE n \in rest : \A o \in rest : o.ip <= n.ip
  IN  (pool \ {oldest, last}) \cup
      (IF last = oldest THEN {} ELSE {[last EXCEPT !.state = "OFFLINE"]})

\* The loop of dhcps_coarse_tmr.
Aged ==
  {[n EXCEPT !.lease_timer = IF n.type = "DYNAMIC" THEN @ - 1 ELSE @] :
     n \in {o \in plist : o.type = "STATIC" \/ o.lease_timer > 1}}

AgedPool == IF Cardinality(Aged) >= MaxStation THEN KillOldest(Aged) ELSE Aged

-----------------------------------------------------------------------------
\* What may happen to the list, whoever sends what.
Update(mac, ciaddr) == plist' = UpdatedPool(mac, ciaddr)
Released(mac, ciaddr) ==
  plist' = LeftPool(UpdatedPool(mac, ciaddr), mac, ciaddr, TRUE)
ClientLeave(mac, ip, force) == plist' = LeftPool(plist, mac, ip, force)
CoarseTmr == plist' = AgedPool
DhcpsStop == plist' = {}

\* The addresses senders claim: none below start_ip (see Scan).
Ciaddr == {NoIp} \cup {a \in Addr : a >= StartIp}

PoolNext ==
  \/ \E mac \in Mac, ciaddr \in Ciaddr : Update(mac, ciaddr) \/ Released(mac, ciaddr)
  \/ \E mac \in Mac, ip \in Addr : ClientLeave(mac, ip, FALSE)
  \/ CoarseTmr
  \/ DhcpsStop

PoolSpec == PoolInit /\ [][PoolNext]_plist

\* No address is leased to two stations, and no station has two leases,
\* whatever the order in which stations ask, leave and come back while leases
\* run out (the walk of wifi_softap_dhcps_client_update, the moves of a lease
\* between list nodes and the removals of dhcps_coarse_tmr).  The senders claim no
\* address below start_ip or outside the segment (Ciaddr): the server accepts such
\* a claim (dhcpserver.c:1077), and its walk may then give start_ip away twice.
PoolUnique == \A m, n \in plist : m.ip = n.ip \/ m.mac = n.mac => m = n
=============================================================================
