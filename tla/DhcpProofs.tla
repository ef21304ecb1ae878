----------------------------- MODULE DhcpProofs -----------------------------
(***************************************************************************)
(* For every set of stations, every range of addresses, every lease time   *)
(* and every limit of tries: the DHCP server never leases an address to    *)
(* two stations, nor two addresses to one station; and its clients are     *)
(* never left without a timer, and have an interface that is up without a  *)
(* lease only after they were started over.                                *)
(***************************************************************************)
EXTENDS DhcpNet, FiniteSetTheorems, WellFoundedInduction, TLAPS

\* What PoolUnique needs to be kept: the leases lie at or above start_ip, where
\* the walk of Scan begins (see the hazard of a lease below it).
InRange(n) == n.ip \in Addr /\ n.ip >= StartIp
Unique(pool) == \A m, n \in pool : m.ip = n.ip \/ m.mac = n.mac => m = n
Good(pool) == pool \subseteq Lease /\ Unique(pool) /\ \A n \in pool : InRange(n)
Inv == Good(plist)

\* Addresses are numbers, and none of them is IPADDR_ANY.
LEMMA Addresses == /\ \A a \in Addr : a \in 1 .. 254 /\ a # NoIp
                   /\ StartIp \in Nat
  BY ServerAssumption DEF NoIp

\* A set of addresses has a least element ...
LEMMA LeastExists ==
  ASSUME NEW S \in SUBSET Nat, S # {}
  PROVE  \E x \in S : \A y \in S : x <= y
<1> DEFINE less == OpToRel(<, Nat)
<1>1. \E x \in S : \A y \in S : ~ (<<y, x>> \in less)
  <2>1. IsWellFoundedOn(less, Nat)
    BY NatLessThanWellFounded
  <2> HIDE DEF less
  <2> QED BY <2>1, WFMin, Zenon
<1>2. \A x, y \in S : ~ (<<y, x>> \in less) => x <= y
  BY DEF OpToRel
<1> HIDE DEF less
<1> QED BY <1>1, <1>2, Zenon

\* ... so Min is a member.
LEMMA MinIsMember ==
  ASSUME NEW S \in SUBSET Nat, S # {}
  PROVE  Min(S) \in S
  BY LeastExists, Zenon DEF Min

\* The walk of wifi_softap_dhcps_client_update ends at an address in range that
\* no other station holds.
LEMMA ScanIsFree ==
  ASSUME Inv, NEW mac \in Mac, Free # {} \/ LeaseOf(mac) # {}
  PROVE  /\ Scan(mac) \in Addr /\ Scan(mac) >= StartIp
         /\ \A n \in plist : n.ip = Scan(mac) => n.mac = mac
<1> DEFINE own == {n.ip : n \in LeaseOf(mac)}
           open == Free \cup own
<1>1. \A n \in plist : InRange(n)
  BY DEF Inv, Good
<1>2. ~ \E n \in plist : n.ip < StartIp
  BY <1>1, Addresses DEF InRange
<1>3. Scan(mac) = Min(open)
  BY <1>2, Zenon DEF Scan
<1>4. \A x \in own : \E n \in plist : n.mac = mac /\ n.ip = x
  BY DEF LeaseOf
<1>5. \A x \in open : x \in Addr /\ x >= StartIp
  BY <1>1, <1>4 DEF InRange, Free
<1>6. open \in SUBSET Nat
  BY <1>5, Addresses
<1>7. open # {}
  BY DEF LeaseOf
<1>8. Scan(mac) \in open
  BY <1>3, <1>6, <1>7, MinIsMember, Zenon
<1>9. \A x \in open, n \in plist : n.ip = x => n.mac = mac
  <2>1. \A x \in Free, n \in plist : n.ip # x
    BY DEF Free, HolderOf
  <2>2. \A x \in own, n \in plist : n.ip = x => n.mac = mac
    BY <1>4 DEF Inv, Good, Unique
  <2> QED BY <2>1, <2>2
<1> QED BY <1>5, <1>8, <1>9

\* Taking leases away, or changing them in nothing but their timer and state,
\* leaves no two that clash.
LEMMA FewerLeases ==
  ASSUME NEW pool, Good(pool), NEW left \in SUBSET Lease,
         \A x \in left : \E n \in pool : n.ip = x.ip /\ n.mac = x.mac,
         \A x, y \in left : x.ip = y.ip /\ x.mac = y.mac => x = y
  PROVE  Good(left)
<1>1. \A x, y \in left : x.ip = y.ip \/ x.mac = y.mac => x.ip = y.ip /\ x.mac = y.mac
  BY DEF Good, Unique
<1> QED BY <1>1 DEF Good, Unique, InRange

\* wifi_softap_dhcps_client_update keeps the leases apart.
LEMMA UpdateGood ==
  ASSUME Inv, NEW mac \in Mac, NEW ciaddr \in Ciaddr
  PROVE  Good(UpdatedPool(mac, ciaddr))
<1>1. CASE Refused(mac, ciaddr)
  BY <1>1 DEF UpdatedPool, Inv
<1>2. CASE ~Refused(mac, ciaddr)
  <2> DEFINE new  == Granted(mac, ciaddr)
             kept == plist \ (LeaseOf(mac) \cup HolderOf(ciaddr))
  <2>1. UpdatedPool(mac, ciaddr) = kept \cup {new}
    BY <1>2 DEF UpdatedPool
  <2>2. new.ip = Wanted(mac, ciaddr) /\ new.mac = mac
    BY DEF Granted
  <2>3. /\ new.ip \in Addr /\ new.ip >= StartIp
        /\ \A n \in kept : n.ip # new.ip
    <3>1. CASE ciaddr = NoIp
      <4>1. Others(mac, ciaddr) = {}
        BY <3>1, Addresses DEF Others, HolderOf, Inv, Good, InRange
      <4>2. Free # {} \/ LeaseOf(mac) # {}
        BY <1>2, <4>1 DEF Refused
      <4>3. new.ip = Scan(mac)
        BY <2>2, <3>1 DEF Wanted
      <4>4. \A n \in kept : n \in plist /\ n.mac # mac
        BY DEF LeaseOf
      <4> QED BY <4>2, <4>3, <4>4, ScanIsFree
    <3>2. CASE ciaddr # NoIp
      <4>1. new.ip = ciaddr
        BY <2>2, <3>2 DEF Wanted
      <4> QED BY <3>2, <4>1 DEF Ciaddr, HolderOf
    <3> QED BY <3>1, <3>2
  <2>4. \A n \in kept : n \in plist /\ n.mac # new.mac
    BY <2>2 DEF LeaseOf
  <2> HIDE DEF new, kept
  <2>5. Unique(kept \cup {new})
    BY <2>3, <2>4 DEF Inv, Good, Unique
  <2>7. new \in Lease
    BY <2>2, <2>3, ServerAssumption DEF new, Granted, Lease
  <2>8. kept \cup {new} \subseteq Lease
    BY <2>4, <2>7 DEF Inv, Good
  <2>6. \A n \in kept \cup {new} : InRange(n)
    BY <2>3, <2>4 DEF Inv, Good, InRange
  <2> QED BY <2>1, <2>5, <2>6, <2>8 DEF Good
<1> QED BY <1>1, <1>2

\* wifi_softap_dhcps_client_leave takes one lease away or marks it.
LEMMA LeaveGood ==
  ASSUME NEW pool, Good(pool), NEW mac, NEW ip, NEW force
  PROVE  Good(LeftPool(pool, mac, ip, force))
<1> DEFINE left == LeftPool(pool, mac, ip, force)
           Away(n) == [n EXCEPT !.state = "OFFLINE"]
           Its(n) == n.mac = mac /\ n.ip = ip
<1>1. \A x \in left : \E n \in pool : (x = n /\ ~Its(n)) \/ (x = Away(n) /\ Its(n))
  BY DEF LeftPool
<1>2. \A n \in pool : Away(n) \in Lease /\ Away(n).ip = n.ip /\ Away(n).mac = n.mac
  BY DEF Lease, Good
<1> HIDE DEF left, Away
<1>3. left \in SUBSET Lease
  BY <1>1, <1>2 DEF Good
<1>4. \A x \in left : \E n \in pool : n.ip = x.ip /\ n.mac = x.mac
  BY <1>1, <1>2
<1>5. ASSUME NEW x \in left, NEW y \in left, x.ip = y.ip, x.mac = y.mac
      PROVE  x = y
  <2>1. PICK n \in pool : (x = n /\ ~Its(n)) \/ (x = Away(n) /\ Its(n))
    BY <1>1
  <2>2. PICK o \in pool : (y = o /\ ~Its(o)) \/ (y = Away(o) /\ Its(o))
    BY <1>1
  <2>3. n.ip = o.ip
    BY <1>2, <1>5, <2>1, <2>2
  <2>4. n = o
    BY <2>3 DEF Good, Unique
  <2> QED BY <2>1, <2>2, <2>4
<1>6. Good(left)
  BY <1>3, <1>4, <1>5, FewerLeases
<1> QED BY <1>6 DEF left

\* A list with leases has a last one.
LEMMA LastExists ==
  ASSUME NEW pool, \A n \in pool : n.ip \in Addr, pool # {}
  PROVE  \E n \in pool : \A o \in pool : o.ip <= n.ip
<1> DEFINE below == {254 - n.ip : n \in pool}
<1>1. below \in SUBSET Nat /\ below # {}
  BY Addresses
<1>2. \E x \in below : \A y \in below : x <= y
  <2> HIDE DEF below
  <2> QED BY <1>1, LeastExists, Zenon
<1>3. PICK n \in pool : \A y \in below : 254 - n.ip <= y
  BY <1>2
<1>4. \A o \in pool : 254 - n.ip <= 254 - o.ip
  BY <1>3
<1>5. \A o \in pool : o.ip \in Int
  BY Addresses
<1>6. ASSUME NEW o \in pool PROVE o.ip <= n.ip
  <2>1. o.ip \in Int /\ n.ip \in Int /\ 254 - n.ip <= 254 - o.ip
    BY <1>4, <1>5
  <2> QED BY <2>1
<1> QED BY <1>6

\* kill_oldest_dhcps_pool frees leases and marks one.
LEMMA KillGood ==
  ASSUME NEW pool, Good(pool), Cardinality(pool) >= MaxStation
  PROVE  Good(KillOldest(pool))
<1> DEFINE left == KillOldest(pool)
           Away(n) == [n EXCEPT !.state = "OFFLINE"]
           head == CHOOSE n \in pool : \A o \in pool : n.ip <= o.ip
           rest == pool \ {head}
           oldest == CHOOSE n \in rest :
                       \A o \in rest : \/ n.lease_timer < o.lease_timer
                                       \/ n.lease_timer = o.lease_timer /\ n.ip <= o.ip
           last == CHOOSE n \in rest : \A o \in rest : o.ip <= n.ip
<1>1. left = (pool \ {oldest, last}) \cup (IF last = oldest THEN {} ELSE {Away(last)})
  BY DEF KillOldest
<1>2. last \in pool
  <2>1. rest # {}
    <3>1. CASE pool = {}
      BY <3>1, FS_EmptySet, ServerAssumption
    <3>2. CASE pool = {head}
      <4> HIDE DEF head
      <4> QED BY <3>2, FS_Singleton, ServerAssumption
    <3> HIDE DEF head
    <3> QED BY <3>1, <3>2
  <2>2. \A n \in rest : n.ip \in Addr
    BY DEF Good, InRange
  <2> HIDE DEF rest
  <2>3. \E n \in rest : \A o \in rest : o.ip <= n.ip
    BY <2>1, <2>2, LastExists, Zenon
  <2>4. last \in rest
    BY <2>3, Zenon
  <2> QED BY <2>4 DEF rest
<1> HIDE DEF left, head, oldest, last, Away
<1>3. \A x \in left : (x \in pool /\ x # last) \/ x = Away(last)
  BY <1>1
<1>4. Away(last) \in Lease /\ Away(last).ip = last.ip /\ Away(last).mac = last.mac
  BY <1>2 DEF Lease, Good, Away
<1>5. left \in SUBSET Lease
  BY <1>3, <1>4 DEF Good
<1>6. \A x \in left : \E n \in pool : n.ip = x.ip /\ n.mac = x.mac
  BY <1>2, <1>3, <1>4
<1>7. \A x, y \in left : x.ip = y.ip /\ x.mac = y.mac => x = y
  BY <1>2, <1>3, <1>4 DEF Good, Unique
<1>8. Good(left)
  BY <1>5, <1>6, <1>7, FewerLeases
<1> QED BY <1>8 DEF left

\* dhcps_coarse_tmr ages the leases and makes room when there are too many.
LEMMA AgedGood == ASSUME Inv PROVE Good(AgedPool)
<1> DEFINE Older(n) == [n EXCEPT !.lease_timer = IF n.type = "DYNAMIC" THEN @ - 1 ELSE @]
<1>1. \A x \in Aged : \E n \in plist :
        (n.type = "STATIC" \/ n.lease_timer > 1) /\ x = Older(n)
  BY DEF Aged
<1>2. \A n \in plist : n.type = "STATIC" \/ n.lease_timer > 1 =>
        Older(n) \in Lease /\ Older(n).ip = n.ip /\ Older(n).mac = n.mac
  BY ServerAssumption DEF Inv, Good, Lease
<1> HIDE DEF Older
<1>3. Aged \in SUBSET Lease
  BY <1>1, <1>2
<1>4. \A x \in Aged : \E n \in plist : n.ip = x.ip /\ n.mac = x.mac
  BY <1>1, <1>2
<1>5. ASSUME NEW x \in Aged, NEW y \in Aged, x.ip = y.ip, x.mac = y.mac
      PROVE  x = y
  <2>1. PICK n \in plist : (n.type = "STATIC" \/ n.lease_timer > 1) /\ x = Older(n)
    BY <1>1
  <2>2. PICK o \in plist : (o.type = "STATIC" \/ o.lease_timer > 1) /\ y = Older(o)
    BY <1>1
  <2>3. n.ip = o.ip
    BY <1>2, <1>5, <2>1, <2>2
  <2>4. n = o
    BY <2>3 DEF Inv, Good, Unique
  <2> QED BY <2>1, <2>2, <2>4
<1>6. Good(Aged)
  BY <1>3, <1>4, <1>5, FewerLeases DEF Inv
<1> QED BY <1>6, KillGood DEF AgedPool

-----------------------------------------------------------------------------
\* No lease, no clash.
LEMMA InitInv == PoolInit => Inv
  BY DEF PoolInit, Inv, Good, Unique

\* Whatever the server does keeps the leases apart.
LEMMA NextInv == Inv /\ [PoolNext]_plist => Inv'
<1> SUFFICES ASSUME Inv, [PoolNext]_plist PROVE Good(plist')
  BY DEF Inv, Good, Unique, InRange
<1>1. ASSUME NEW mac \in Mac, NEW ciaddr \in Ciaddr, Update(mac, ciaddr)
      PROVE  Good(plist')
  BY <1>1, UpdateGood DEF Update
<1>2. ASSUME NEW mac \in Mac, NEW ciaddr \in Ciaddr, Released(mac, ciaddr)
      PROVE  Good(plist')
  <2>1. Good(UpdatedPool(mac, ciaddr))
    BY UpdateGood
  <2> QED BY <1>2, <2>1, LeaveGood DEF Released
<1>3. ASSUME NEW mac \in Mac, NEW ip \in Addr, ClientLeave(mac, ip, FALSE)
      PROVE  Good(plist')
  BY <1>3, LeaveGood DEF ClientLeave, Inv
<1>4. CASE CoarseTmr
  BY <1>4, AgedGood DEF CoarseTmr
<1>5. CASE DhcpsStop
  BY <1>5 DEF DhcpsStop, Good, Unique
<1>6. CASE UNCHANGED plist
  BY <1>6 DEF Inv
<1> QED BY <1>1, <1>2, <1>3, <1>4, <1>5, <1>6 DEF PoolNext

\* The DHCP server never leases an address to two stations, nor two addresses
\* to one station, in whatever order they ask, renew, release and leave, while
\* leases run out and are taken away to make room, as long as no station claims
\* an address below start_ip (Ciaddr): the server would accept it, and uniqueness
\* does not hold then.
THEOREM LeasesStayUnique == PoolSpec => []PoolUnique
<1>1. Inv => PoolUnique
  BY DEF Inv, Good, Unique, PoolUnique
<1> QED BY <1>1, InitInv, NextInv, PTL DEF PoolSpec

\* The leases are always well formed: a lease timer never runs below one minute
\* and every address lies in the segment.
THEOREM LeasesWellFormed == PoolSpec => []PoolTypeOK
<1>1. Inv => PoolTypeOK
  BY DEF Inv, Good, PoolTypeOK
<1> QED BY <1>1, InitInv, NextInv, PTL DEF PoolSpec

-----------------------------------------------------------------------------
(* The client, one function of dhcp.c after the other.                     *)

Client == [state : States, tries : 0 .. TriesMod - 1, armed : BOOLEAN,
           t1 : 0 .. LeaseTime, t2 : 0 .. LeaseTime, t0 : {0, LeaseTime},
           offered : Ciaddr, ip : Ciaddr, up : BOOLEAN]

\* T1 comes before T2 or not at all: dhcp_bind, and both count down together.
Typed(d) == d \in Client /\ (d.t1 = 0 \/ d.t1 < d.t2)

\* What NeverStuck says of one client, and that T2 is still ahead in RENEWING
\* even while the retry timer runs: its retries are counted by a byte that wraps
\* and then leaves that timer off.
Waits(d) == /\ d.state \in {"BOUND", "RENEWING"} => d.t2 > 0
            /\ d.state \notin {"OFF", "BOUND", "RENEWING"} => d.armed
Live(d) == Typed(d) /\ Waits(d)

Asked(msgs) == \A m \in msgs : /\ m.type \in {"DISCOVER", "REQUEST", "RELEASE", "DECLINE"}
                               /\ m.ciaddr \in Ciaddr /\ m.req \in Ciaddr
Fine(out) == Live(out.d) /\ Asked(out.msgs)

\* A function that is fine, and that does not leave the interface up without a
\* lease when it was not so before.
Covers(d, out) == Fine(out) /\ (Exposed(out.d) => Exposed(d))

LEMMA Constants == /\ TriesMod \in Nat /\ TriesMod >= 3
                   /\ RequestTries \in 1 .. TriesMod - 2
                   /\ RebindTries \in 1 .. TriesMod - 2
                   /\ RebootTries \in 1 .. TriesMod - 2
                   /\ CheckTries = 1
                   /\ LeaseTime \in Nat /\ LeaseTime >= 1
                   /\ NoIp = 0 /\ 0 \in Ciaddr
  BY ClientAssumption, ServerAssumption DEF NoIp, Ciaddr, CheckTries

\* Counting tries: a byte, which reaches zero only after its last value.
LEMMA Counting ==
  ASSUME NEW n \in 0 .. TriesMod - 1
  PROVE  /\ (n + 1) % TriesMod \in 0 .. TriesMod - 1
         /\ n <= TriesMod - 2 => (n + 1) % TriesMod = n + 1
<1>1. CASE n <= TriesMod - 2
  <2>1. n + 1 \in 0 .. TriesMod - 1
    BY <1>1, Constants
  <2>2. (n + 1) % TriesMod = n + 1
    BY <2>1, Constants
  <2> QED BY <2>1, <2>2
<1>2. CASE n = TriesMod - 1
  <2>1. (n + 1) % TriesMod = 0
    BY <1>2, Constants
  <2> QED BY <1>2, <2>1, Constants
<1> QED BY <1>1, <1>2, Constants

\* The state, the tries and the timer change with no effect on the rest.
Timed(d, s, n)   == [d EXCEPT !.state = s, !.tries = n, !.armed = TRUE]
Untimed(d, s, n) == [d EXCEPT !.state = s, !.tries = n, !.armed = FALSE]

LEMMA TimedTyped ==
  ASSUME NEW d, Typed(d), NEW s \in States, NEW n \in 0 .. TriesMod - 1
  PROVE  \A c \in {Timed(d, s, n), Untimed(d, s, n)} :
           /\ Typed(c) /\ c.state = s /\ c.tries = n
           /\ c.t1 = d.t1 /\ c.t2 = d.t2 /\ c.up = d.up
           /\ c = Timed(d, s, n) => c.armed
  BY DEF Timed, Untimed, Typed, Client

\* A try changes the count and the timer, which starts unless the count wraps.
LEMMA RetryTyped ==
  ASSUME NEW d, Typed(d)
  PROVE  /\ Typed(Retry(d))
         /\ d.tries <= TriesMod - 2 => Retry(d).armed
         /\ Retry(d).state = d.state /\ Retry(d).t2 = d.t2 /\ Retry(d).t1 = d.t1
         /\ Retry(d).up = d.up
<1> DEFINE n == (d.tries + 1) % TriesMod
<1>1. n \in 0 .. TriesMod - 1 /\ (d.tries <= TriesMod - 2 => n # 0)
  BY Counting DEF Typed, Client
<1>2. d.state \in States /\ d = [d EXCEPT !.state = d.state]
  BY DEF Typed, Client
<1>3. Retry(d) = [[d EXCEPT !.state = d.state] EXCEPT !.tries = n, !.armed = n # 0]
  BY <1>2 DEF Retry
<1> HIDE DEF n
<1>4. CASE n = 0
  <2>1. Retry(d) = Untimed(d, d.state, n)
    BY <1>3, <1>4 DEF Untimed
  <2> QED BY <1>1, <1>2, <1>4, <2>1, TimedTyped
<1>5. CASE n # 0
  <2>1. Retry(d) = Timed(d, d.state, n)
    BY <1>3, <1>5 DEF Timed
  <2> QED BY <1>1, <1>2, <2>1, TimedTyped
<1> QED BY <1>4, <1>5

LEMMA AgainTyped ==
  ASSUME NEW d, Typed(d)
  PROVE  /\ Typed(Again(d)) /\ Again(d).armed
         /\ Again(d).state = d.state /\ Again(d).t2 = d.t2 /\ Again(d).t1 = d.t1
         /\ Again(d).up = d.up
  BY RetryTyped DEF Again, Typed, Client

\* dhcp_set_state forgets the tries and the timer of another state.
LEMMA EnterTyped ==
  ASSUME NEW d, Typed(d), NEW s \in States
  PROVE  /\ Typed(Enter(d, s)) /\ Enter(d, s).state = s
         /\ Enter(d, s).tries = IF d.state = s THEN d.tries ELSE 0
         /\ Enter(d, s).t1 = d.t1 /\ Enter(d, s).t2 = d.t2
         /\ Enter(d, s).up = d.up
<1>1. CASE d.state = s
  BY <1>1 DEF Enter
<1>2. CASE d.state # s
  <2>1. Enter(d, s) = Untimed(d, s, 0)
    BY <1>2 DEF Enter, Untimed
  <2>2. 0 \in 0 .. TriesMod - 1
    BY Constants
  <2> QED BY <1>2, <2>1, <2>2, TimedTyped
<1> QED BY <1>1, <1>2

LEMMA SentAsked ==
  ASSUME NEW d, Typed(d), NEW counted,
         NEW type \in {"DISCOVER", "REQUEST", "RELEASE", "DECLINE"}
  PROVE  Asked(Sent(d, type, counted).msgs) /\ Sent(d, type, counted).d = counted
  BY Constants DEF Sent, Message, Ci, Asked, Typed, Client

LEMMA SilentFine ==
  ASSUME NEW d, Live(d) PROVE Fine(Silent(d)) /\ Silent(d).d = d
  BY DEF Silent, Fine, Asked

LEMMA DiscoverFine ==
  ASSUME NEW d, Typed(d)
  PROVE  Fine(Discover(d)) /\ Discover(d).d.up = d.up
<1> DEFINE c == [d EXCEPT !.offered = 0]
           e == Enter(c, "SELECTING")
<1>1. Typed(c) /\ c.up = d.up
  BY Constants DEF Typed, Client
<1> HIDE DEF c
<1>2. Typed(e) /\ e.state = "SELECTING" /\ e.up = d.up
  BY <1>1, EnterTyped DEF States
<1>3. Discover(d) = Sent(e, "DISCOVER", Again(e))
  BY DEF Discover, c
<1> HIDE DEF e
<1> QED BY <1>2, <1>3, AgainTyped, SentAsked DEF Fine, Live, Waits

\* dhcp_select, dhcp_decline and dhcp_check start a timer that is never zero.
LEMMA SelectFine ==
  ASSUME NEW d, Typed(d) PROVE Fine(Select(d)) /\ Select(d).d.up = d.up
<1> DEFINE e == Enter(d, "REQUESTING")
<1>1. Typed(e) /\ e.state = "REQUESTING" /\ e.up = d.up
  BY EnterTyped DEF States
<1>2. Select(d) = Sent(e, "REQUEST", Again(e))
  BY DEF Select
<1> HIDE DEF e
<1> QED BY <1>1, <1>2, AgainTyped, SentAsked DEF Fine, Live, Waits

LEMMA DeclineFine ==
  ASSUME NEW d, Typed(d) PROVE Fine(Decline(d)) /\ Decline(d).d.up = d.up
<1> DEFINE e == Enter(d, "BACKING_OFF")
<1>1. Typed(e) /\ e.state = "BACKING_OFF" /\ e.up = d.up
  BY EnterTyped DEF States
<1>2. Decline(d) = Sent(e, "DECLINE", Again(e))
  BY DEF Decline
<1> HIDE DEF e
<1> QED BY <1>1, <1>2, AgainTyped, SentAsked DEF Fine, Live, Waits

LEMMA CheckFine ==
  ASSUME NEW d, Typed(d) PROVE Fine(Check(d)) /\ Check(d).d.up = d.up
<1> DEFINE e == Enter(d, "CHECKING")
<1>1. Typed(e) /\ e.state = "CHECKING" /\ e.up = d.up
  BY EnterTyped DEF States
<1>2. Check(d) = Silent(Again(e))
  BY DEF Check
<1> HIDE DEF e
<1> QED BY <1>1, <1>2, AgainTyped, SilentFine DEF Live, Waits

\* A renewal may leave its retry timer off, for T2 is ahead.
LEMMA DhcpRenewFine ==
  ASSUME NEW d, Typed(d), d.t2 > 0
  PROVE  Fine(DhcpRenew(d)) /\ DhcpRenew(d).d.state = "RENEWING"
<1> DEFINE e == Enter(d, "RENEWING")
<1>1. Typed(e) /\ e.state = "RENEWING" /\ e.t2 > 0
  BY EnterTyped DEF States
<1>2. DhcpRenew(d) = Sent(e, "REQUEST", Retry(e))
  BY DEF DhcpRenew
<1> HIDE DEF e
<1> QED BY <1>1, <1>2, RetryTyped, SentAsked DEF Fine, Live, Waits

\* Rebinding and rebooting have no later timer, but are given up before the
\* tries wrap.
LEMMA RebindFine ==
  ASSUME NEW d, Typed(d), d.state = "REBINDING" => d.tries <= RebindTries
  PROVE  Fine(Rebind(d)) /\ Rebind(d).d.state = "REBINDING"
<1> DEFINE e == Enter(d, "REBINDING")
<1>1. Typed(e) /\ e.state = "REBINDING" /\ e.tries <= TriesMod - 2
  BY EnterTyped, Constants DEF States, Typed, Client
<1>2. Rebind(d) = Sent(e, "REQUEST", Retry(e))
  BY DEF Rebind
<1> HIDE DEF e
<1> QED BY <1>1, <1>2, RetryTyped, SentAsked DEF Fine, Live, Waits

LEMMA RebootFine ==
  ASSUME NEW d, Typed(d), d.state = "REBOOTING" => d.tries < RebootTries
  PROVE  Fine(Reboot(d)) /\ Reboot(d).d.up = d.up
<1> DEFINE e == Enter(d, "REBOOTING")
<1>1. Typed(e) /\ e.state = "REBOOTING" /\ e.up = d.up /\ e.tries <= TriesMod - 2
  BY EnterTyped, Constants DEF States, Typed, Client
<1>2. Reboot(d) = Sent(e, "REQUEST", Retry(e))
  BY DEF Reboot
<1> HIDE DEF e
<1> QED BY <1>1, <1>2, RetryTyped, SentAsked DEF Fine, Live, Waits

\* dhcp_release and dhcp_handle_nak give the address back and take the
\* interface down.
LEMMA ReleaseFine ==
  ASSUME NEW d, Typed(d)
  PROVE  Fine(Release(d)) /\ ~Release(d).d.up /\ Typed(Release(d).d)
<1> DEFINE e   == Enter(d, "OFF")
           off == [e EXCEPT !.offered = 0, !.t0 = 0]
           r   == Retry(off)
<1>1. Typed(e) /\ e.state = "OFF"
  BY EnterTyped DEF States
<1> HIDE DEF e
<1>2. Typed(off) /\ off.state = "OFF"
  BY <1>1, Constants DEF Typed, Client
<1>3. Release(d) = Sent(off, "RELEASE", NoAddress(r))
  BY DEF Release, e
<1> HIDE DEF off
<1>4. Typed(r) /\ r.state = "OFF"
  BY <1>2, RetryTyped
<1> HIDE DEF r
<1>5. Typed(NoAddress(r)) /\ NoAddress(r).state = "OFF" /\ ~NoAddress(r).up
  BY <1>4, Constants DEF NoAddress, Typed, Client
<1> QED BY <1>2, <1>3, <1>5, SentAsked DEF Fine, Live, Waits

LEMMA ReleaseAndDiscoverFine ==
  ASSUME NEW d, Typed(d)
  PROVE  Fine(ReleaseAndDiscover(d)) /\ ~ReleaseAndDiscover(d).d.up
<1> DEFINE released == Release(d)
           again    == Discover(released.d)
<1>1. Fine(released) /\ ~released.d.up /\ Typed(released.d)
  BY ReleaseFine
<1>2. Fine(again) /\ ~again.d.up
  BY <1>1, DiscoverFine
<1>3. ReleaseAndDiscover(d) =
        [again EXCEPT !.newXid = TRUE, !.msgs = again.msgs \cup released.msgs]
  BY DEF ReleaseAndDiscover
<1>4. again = [d |-> again.d, newXid |-> again.newXid, msgs |-> again.msgs]
  BY DEF Discover, Sent
<1> HIDE DEF released, again
<1>5. ReleaseAndDiscover(d).d = again.d
  BY <1>3, <1>4
<1>6. ReleaseAndDiscover(d).msgs = again.msgs \cup released.msgs
  BY <1>3, <1>4
<1> QED BY <1>1, <1>2, <1>5, <1>6 DEF Fine, Asked

LEMMA HandleNakFine ==
  ASSUME NEW d, Typed(d) PROVE Fine(HandleNak(d)) /\ ~HandleNak(d).d.up
<1>1. Typed(NoAddress(d)) /\ ~NoAddress(d).up
  BY Constants DEF NoAddress, Typed, Client
<1>2. Typed(Enter(NoAddress(d), "BACKING_OFF")) /\ ~Enter(NoAddress(d), "BACKING_OFF").up
  BY <1>1, EnterTyped DEF States
<1> QED BY <1>2, DiscoverFine DEF HandleNak

\* dhcp_bind always leaves T2 ahead, and T1 before it or off.
LEMMA BindLive == ASSUME NEW d, Typed(d) PROVE Live(Bind(d)) /\ Bind(d).state = "BOUND"
<1> DEFINE t2 == Whole(d.t0)
           t1 == IF Half(d.t0) >= t2 THEN 0 ELSE Half(d.t0)
           e  == [d EXCEPT !.t1 = t1, !.t2 = t2, !.ip = d.offered, !.up = TRUE]
<1>1. t2 \in 1 .. LeaseTime
  BY Constants DEF Whole, Typed, Client
<1>2. Half(d.t0) \in Nat
  BY Constants DEF Half, Typed, Client
<1>3. Bind(d) = Enter(e, "BOUND")
  BY DEF Bind
<1> HIDE DEF t2
<1>4. t1 \in 0 .. LeaseTime /\ (t1 = 0 \/ t1 < t2)
  BY <1>1, <1>2, Constants
<1> HIDE DEF t1
<1>5. Typed(e) /\ e.t2 > 0
  <2>1. t2 \in 0 .. LeaseTime /\ t2 > 0
    BY <1>1, Constants
  <2>2. /\ e.t1 = t1 /\ e.t2 = t2
        /\ e \in Client
    BY <1>4, <2>1 DEF Typed, Client
  <2> HIDE DEF e
  <2> QED BY <1>4, <2>1, <2>2 DEF Typed
<1> HIDE DEF e
<1> QED BY <1>3, <1>5, EnterTyped DEF Live, Waits, States

\* dhcp_timeout: the timer that has run out is started again, unless another
\* one is left.
LEMMA TimeoutFine ==
  ASSUME NEW d, Typed(d), d.state \in {"BOUND", "RENEWING"} => d.t2 > 0
  PROVE  Covers(d, Timeout(d))
<1> USE DEF Covers, Exposed, Silent
<1>1. CASE d.state \in {"BACKING_OFF", "SELECTING"}
  BY <1>1, DiscoverFine DEF Timeout
<1>2. CASE d.state = "REQUESTING"
  BY <1>2, SelectFine, ReleaseAndDiscoverFine DEF Timeout
<1>3. CASE d.state = "CHECKING"
  BY <1>3, CheckFine, BindLive, SilentFine DEF Timeout
<1>4. CASE d.state = "RENEWING"
  BY <1>4, DhcpRenewFine DEF Timeout
<1>5. CASE d.state = "REBINDING"
  BY <1>5, RebindFine, ReleaseAndDiscoverFine DEF Timeout
<1>6. CASE d.state = "REBOOTING"
  BY <1>6, RebootFine, DiscoverFine DEF Timeout
<1>7. CASE d.state \in {"OFF", "BOUND"}
  BY <1>7, SilentFine DEF Timeout, Live, Waits
<1> QED BY <1>1, <1>2, <1>3, <1>4, <1>5, <1>6, <1>7 DEF Typed, Client, States

\* dhcp_coarse_tmr: a minute less for both timers, whatever the state.
LEMMA CoarseFine == ASSUME NEW d, Live(d) PROVE Covers(d, Coarse(d))
<1> DEFINE e == [d EXCEPT !.t2 = Less(@)]
           f == [e EXCEPT !.t1 = Less(@)]
<1>1. CASE d.t2 = 1
  <2>1. Typed(e) /\ e.state = d.state /\ e.armed = d.armed /\ e.up = d.up
    BY <1>1 DEF Live, Typed, Client, Less
  <2>2. Coarse(d) = IF MayRenew(d) THEN Rebind(e) ELSE Silent(e)
    BY <1>1 DEF Coarse
  <2> HIDE DEF e
  <2>3. CASE MayRenew(d)
    <3>1. e.state # "REBINDING"
      BY <2>1, <2>3 DEF MayRenew
    <3> QED BY <2>1, <2>2, <2>3, <3>1, RebindFine DEF Covers, Exposed
  <2>4. CASE ~MayRenew(d)
    <3>1. Live(e)
      BY <2>1, <2>4 DEF MayRenew, Live, Waits
    <3> QED BY <2>1, <2>2, <2>4, <3>1, SilentFine DEF Covers, Exposed, Silent
  <2> QED BY <2>3, <2>4
<1>2. CASE d.t2 # 1
  <2> DEFINE r2 == Less(d.t2)
             r1 == Less(d.t1)
  <2>1. /\ r2 \in 0 .. LeaseTime /\ r1 \in 0 .. LeaseTime
        /\ r1 = 0 \/ r1 < r2
        /\ d.t2 > 0 \/ d.t1 = 1 => r2 > 0
    BY <1>2, Constants DEF Live, Typed, Client, Less
  <2>2. f = [d EXCEPT !.t2 = r2, !.t1 = r1]
    BY DEF Live, Typed, Client
  <2> HIDE DEF r1, r2
  <2>3. /\ Typed(f) /\ f.state = d.state /\ f.armed = d.armed /\ f.up = d.up
        /\ d.t2 > 0 => f.t2 > 0
        /\ d.t1 = 1 => f.t2 > 0
    BY <2>1, <2>2 DEF Live, Typed, Client
  <2>4. Live(f)
    BY <2>3 DEF Live, Waits
  <2>5. CASE d.t1 = 1 /\ MayRenew(d)
    <3>1. Coarse(d) = DhcpRenew(f)
      BY <1>2, <2>5 DEF Coarse
    <3> HIDE DEF f
    <3> QED BY <2>3, <2>5, <3>1, DhcpRenewFine DEF Covers, Exposed
  <2>6. CASE ~(d.t1 = 1 /\ MayRenew(d))
    <3>1. Coarse(d) = Silent(f)
      BY <1>2, <2>6 DEF Coarse
    <3> HIDE DEF f
    <3> QED BY <2>3, <2>4, <3>1, SilentFine DEF Covers, Exposed, Silent
  <2> QED BY <2>5, <2>6
<1> QED BY <1>1, <1>2

\* dhcp_recv: an answer to what was asked, or nothing.
LEMMA ReceiveFine ==
  ASSUME NEW d, Live(d), NEW type \in {"OFFER", "ACK", "NAK"}, NEW yiaddr \in Ciaddr
  PROVE  Covers(d, Receive(d, type, yiaddr, LeaseTime))
<1> USE DEF Covers, Exposed
<1>1. CASE ~Awaited(d, type)
  BY <1>1, SilentFine DEF Receive, Awaited, Silent
<1>2. CASE type = "OFFER" /\ Awaited(d, type)
  <2> DEFINE e == [d EXCEPT !.armed = FALSE, !.offered = yiaddr]
  <2>1. Typed(e) /\ e.up = d.up /\ d.state = "SELECTING"
    BY <1>2 DEF Awaited, Live, Typed, Client
  <2>2. Receive(d, type, yiaddr, LeaseTime) = Select(e)
    BY <1>2 DEF Receive, Awaited
  <2> HIDE DEF e
  <2> QED BY <2>1, <2>2, SelectFine
<1>3. CASE type = "ACK" /\ d.state = "REQUESTING"
  <2> DEFINE e == [d EXCEPT !.t0 = LeaseTime, !.offered = yiaddr]
  <2>1. Typed(e) /\ e.up = d.up
    BY <1>3 DEF Live, Typed, Client
  <2>2. Receive(d, type, yiaddr, LeaseTime) = Check(e)
    BY <1>3 DEF Receive, Awaited
  <2> HIDE DEF e
  <2> QED BY <1>3, <2>1, <2>2, CheckFine
<1>4. CASE type = "ACK" /\ d.state # "REQUESTING" /\ Awaited(d, type)
  <2>1. Receive(d, type, yiaddr, LeaseTime) = Silent(Bind(d))
    BY <1>4 DEF Receive
  <2> QED BY <2>1, BindLive, SilentFine DEF Live, Silent
<1>5. CASE type = "NAK" /\ Awaited(d, type)
  <2>1. Receive(d, type, yiaddr, LeaseTime) = HandleNak(d)
    BY <1>5 DEF Receive
  <2> QED BY <2>1, HandleNakFine DEF Live
<1> QED BY <1>1, <1>2, <1>3, <1>4, <1>5

\* dhcp_network_changed asks for the old address, or starts over.
LEMMA NetworkChangedFine == ASSUME NEW d, Live(d) PROVE Covers(d, NetworkChanged(d))
<1> USE DEF Covers, Exposed
<1>1. CASE d.state \in {"REBINDING", "RENEWING", "BOUND", "REBOOTING"}
  <2> DEFINE e == [d EXCEPT !.up = FALSE, !.tries = 0]
  <2>1. Typed(e) /\ ~e.up /\ e.tries < RebootTries
    <3>1. 0 \in 0 .. TriesMod - 1 /\ 0 < RebootTries
      BY Constants
    <3> QED BY <3>1 DEF Live, Typed, Client
  <2>2. NetworkChanged(d) = Reboot(e)
    BY <1>1 DEF NetworkChanged
  <2> HIDE DEF e
  <2> QED BY <2>1, <2>2, RebootFine
<1>2. CASE d.state = "OFF"
  BY <1>2, SilentFine DEF NetworkChanged, Silent
<1>3. CASE d.state \in {"SELECTING", "REQUESTING", "CHECKING", "BACKING_OFF"}
  <2> DEFINE e == [d EXCEPT !.tries = 0]
  <2>1. Typed(e) /\ e.up = d.up
    BY <1>3, Constants DEF Live, Typed, Client
  <2>2. NetworkChanged(d) = Discover(e)
    BY <1>3 DEF NetworkChanged
  <2> HIDE DEF e
  <2> QED BY <1>3, <2>1, <2>2, DiscoverFine
<1> QED BY <1>1, <1>2, <1>3 DEF Live, Typed, Client, States

-----------------------------------------------------------------------------
(* The access point and its stations.                                      *)

Request == [type : {"DISCOVER", "REQUEST", "RELEASE", "DECLINE"}, mac : Clients,
            ciaddr : Ciaddr, req : Ciaddr, stale : BOOLEAN]
Answers == [type : {"OFFER", "ACK", "NAK"}, mac : Clients, yiaddr : Ciaddr,
            stale : BOOLEAN]

ClientsLive == cl \in [Clients -> Client] /\ \A c \in Clients : Live(cl[c])
NetTyped == net \subseteq Request \cup Answers
Books == /\ assoc \subseteq Clients /\ late \subseteq Clients
         /\ turn \in 1 .. Len(Phases)
         /\ maxtry \in [Clients -> MaxTries]
         /\ leaves \in 0 .. MaxLeaves
NetInv == Inv /\ ClientsLive /\ NetTyped /\ Books

\* What is sent is well formed, and an older message stays so.
LEMMA AirTyped ==
  ASSUME NetTyped, NEW c \in Clients, NEW newXid, NEW msgs, Asked(msgs)
  PROVE  Air(c, newXid, msgs) \subseteq Request \cup Answers
<1> DEFINE all == Request \cup Answers
           old == IF newXid THEN {[m EXCEPT !.stale = TRUE] : m \in Of(c)} ELSE Of(c)
           new == {[type |-> m.type, mac |-> c, ciaddr |-> m.ciaddr, req |-> m.req,
                    stale |-> FALSE] : m \in msgs}
<1>1. Of(c) \subseteq all
  BY DEF Of, NetTyped
<1>2. ASSUME NEW m \in all PROVE [m EXCEPT !.stale = TRUE] \in all
  <2>1. CASE m \in Request
    BY <2>1 DEF Request
  <2>2. CASE m \in Answers
    BY <2>2 DEF Answers
  <2> QED BY <2>1, <2>2
<1>3. ASSUME NEW m \in msgs
      PROVE  [type |-> m.type, mac |-> c, ciaddr |-> m.ciaddr, req |-> m.req,
              stale |-> FALSE] \in all
  BY <1>3 DEF Asked, Request
<1> HIDE DEF all
<1>4. old \subseteq all
  BY <1>1, <1>2
<1>5. new \subseteq all
  BY <1>3
<1>6. \A m \in Air(c, newXid, msgs) : m \in net \/ m \in old \/ m \in new
  BY DEF Air
<1>7. net \subseteq all
  BY DEF NetTyped, all
<1> QED BY <1>4, <1>5, <1>6, <1>7 DEF all

\* A station that runs a function of dhcp.c.
LEMMA DoesKeeps ==
  ASSUME ClientsLive, NetTyped, Books, NEW c \in Clients, NEW out, Fine(out), NEW m,
         Does(c, out, m)
  PROVE  /\ ClientsLive' /\ NetTyped'
         /\ late' \subseteq Clients
<1>1. ClientsLive'
  <2>1. out.d \in Client /\ Live(out.d)
    BY DEF Fine, Live, Typed
  <2>2. cl' = [cl EXCEPT ![c] = out.d]
    BY DEF Does
  <2>3. cl' \in [Clients -> Client]
    BY <2>1, <2>2 DEF ClientsLive
  <2>4. \A x \in Clients : cl'[x] = IF x = c THEN out.d ELSE cl[x]
    BY <2>2 DEF ClientsLive
  <2>5. \A x \in Clients : Live(cl'[x])
    BY <2>1, <2>4 DEF ClientsLive
  <2> QED BY <2>3, <2>5 DEF ClientsLive, Live, Waits, Typed, Client, Ciaddr
<1>2. NetTyped'
  <2>1. Air(c, out.newXid, out.msgs) \subseteq Request \cup Answers
    BY AirTyped DEF Fine
  <2>2. net' \subseteq Request \cup Answers
    BY <2>1 DEF Does
  <2> QED BY <2>2 DEF NetTyped, Request, Answers, Ciaddr
<1>3. late' \subseteq Clients
  BY DEF Does, Books
<1> QED BY <1>1, <1>2, <1>3

\* What the server answers is well formed: the address is in range or none.
LEMMA ReplyTyped ==
  ASSUME Inv, NEW m \in Request
  PROVE  Reply(m) \subseteq Answers
<1> DEFINE ip == UpdatedIp(m.mac, m.ciaddr)
<1>1. m.mac \in Clients /\ m.mac \in Mac /\ m.ciaddr \in Ciaddr /\ m.stale \in BOOLEAN
  BY NetAssumption DEF Request
<1>2. ip \in Ciaddr
  <2>1. CASE Refused(m.mac, m.ciaddr)
    BY <2>1 DEF UpdatedIp, Ciaddr
  <2>2. CASE ~Refused(m.mac, m.ciaddr) /\ m.ciaddr # NoIp
    BY <1>1, <2>2 DEF UpdatedIp, Wanted
  <2>3. CASE ~Refused(m.mac, m.ciaddr) /\ m.ciaddr = NoIp
    <3>1. Others(m.mac, m.ciaddr) = {}
      BY <2>3, Addresses DEF Others, HolderOf, Inv, Good, InRange
    <3>2. Free # {} \/ LeaseOf(m.mac) # {}
      BY <2>3, <3>1 DEF Refused
    <3>3. Scan(m.mac) \in Addr /\ Scan(m.mac) >= StartIp
      BY <1>1, <3>2, ScanIsFree
    <3> QED BY <2>3, <3>3 DEF UpdatedIp, Wanted, Ciaddr
  <2> QED BY <2>1, <2>2, <2>3
<1> HIDE DEF ip
<1>3. \A type \in {"OFFER", "ACK", "NAK"} : Answer(type, m, ip) \in Answers
  BY <1>1, <1>2 DEF Answer, Answers
<1>4. \A x \in Reply(m) : \E type \in {"OFFER", "ACK", "NAK"} : x = Answer(type, m, ip)
  BY DEF Reply, Request, ip
<1> QED BY <1>3, <1>4

\* Whatever happens on the network, the lease list takes a step of its own
\* specification: the stations only claim addresses they were given.
LEMMA PoolSteps ==
  ASSUME NetInv, [Next]_vars
  PROVE  [PoolNext]_plist
<1>1. CASE UNCHANGED plist
  BY <1>1
<1>2. CASE ServerTick
  BY <1>2 DEF ServerTick, PoolNext, CoarseTmr
<1>3. ASSUME NEW mac \in Mac, OtherStation(mac) PROVE PoolNext
  <2>1. \A n \in LeaseOf(mac) : n.ip \in Addr
    BY DEF NetInv, Inv, Good, InRange, LeaseOf
  <2> QED BY <1>3, <2>1 DEF OtherStation, PoolNext
<1>4. ASSUME NEW m \in net, ServerReceives(m) PROVE PoolNext
  <2>1. m \in Request
    BY <1>4 DEF ServerReceives, Up, NetInv, NetTyped, Request, Answers
  <2>2. m.mac \in Mac /\ m.ciaddr \in Ciaddr
    BY <2>1, NetAssumption DEF Request
  <2>3. CASE m.type = "RELEASE"
    <3>1. Released(m.mac, m.ciaddr)
      BY <1>4, <2>3 DEF ServerReceives, PoolAfter, Released
    <3> QED BY <2>2, <3>1 DEF PoolNext
  <2>4. CASE m.type # "RELEASE"
    <3>1. Update(m.mac, m.ciaddr)
      BY <1>4, <2>4 DEF ServerReceives, PoolAfter, Update
    <3> QED BY <2>2, <3>1 DEF PoolNext
  <2> QED BY <2>3, <2>4
<1>5. ASSUME NEW c \in Clients, Leave(c) PROVE PoolNext \/ UNCHANGED plist
  <2>1. \A n \in LeaseOf(c) : n.ip \in Addr
    BY DEF NetInv, Inv, Good, InRange, LeaseOf
  <2> QED BY <1>5, <2>1, NetAssumption DEF Leave, PoolNext
<1>6. ASSUME NEW c \in Clients,
             \/ Start(c) \/ Stop(c) \/ FineTmr(c) \/ ClientTick(c)
             \/ ArpReply(c) \/ Return(c) \/ \E n \in MaxTries : SetMaxTry(c, n)
      PROVE  UNCHANGED plist
  BY <1>6 DEF Start, Stop, FineTmr, ClientTick, ArpReply, Return, SetMaxTry, Idle
<1>7. ASSUME NEW m \in net, ClientReceives(m) \/ Lose(m)
      PROVE  UNCHANGED plist
  BY <1>7 DEF ClientReceives, Lose, Idle
<1> QED BY <1>1, <1>2, <1>3, <1>4, <1>5, <1>6, <1>7 DEF Next, vars

-----------------------------------------------------------------------------
\* No lease, no message, and clients that have not begun.
LEMMA NetInitInv == Init => NetInv
<1> SUFFICES ASSUME Init PROVE NetInv
  OBVIOUS
<1>1. Inv
  BY InitInv DEF Init
<1>2. Fresh \in Client /\ Live(Fresh)
  BY Constants DEF Fresh, Live, Typed, Waits, Client, States
<1>3. ClientsLive
  BY <1>2 DEF Init, ClientsLive
<1>4. NetTyped
  BY DEF Init, NetTyped
<1>5. Books
  BY NetAssumption DEF Init, Books
<1> QED BY <1>1, <1>3, <1>4, <1>5 DEF NetInv

\* dhcp_start clears struct dhcp; the interface keeps what it has.
LEMMA RestartTyped ==
  ASSUME NEW ip \in Ciaddr, NEW up \in BOOLEAN
  PROVE  LET e == [Fresh EXCEPT !.ip = ip, !.up = up]
         IN  Typed(e) /\ e.state = "OFF" /\ e.up = up
<1> DEFINE e == [Fresh EXCEPT !.ip = ip, !.up = up]
<1>1. Typed(Fresh) /\ Fresh.state = "OFF"
  BY Constants DEF Fresh, Typed, Client, States
<1>2. Typed(e) /\ e.state = "OFF" /\ e.up = up
  <2> HIDE DEF Fresh
  <2> QED BY <1>1 DEF Typed, Client
<1> QED BY <1>2

\* What a station does alone keeps the invariant of the clients.
LEMMA StationKeeps ==
  ASSUME ClientsLive, NetTyped, Books, NEW c \in Clients,
         \/ Start(c) \/ Stop(c) \/ FineTmr(c) \/ ClientTick(c) \/ ArpReply(c)
  PROVE  ClientsLive' /\ NetTyped' /\ Books'
<1> DEFINE d == cl[c]
<1>1. Live(d) /\ Typed(d) /\ d \in Client
  BY DEF ClientsLive, Live
<1> HIDE DEF d
<1>2. CASE Start(c)
  <2> DEFINE e == [Fresh EXCEPT !.ip = d.ip, !.up = d.up]
  <2>1. /\ Does(c, Discover(e), {}) /\ UNCHANGED <<assoc, turn, maxtry>>
        /\ leaves' = leaves \/ (leaves < MaxLeaves /\ leaves' = leaves + 1)
    BY <1>2 DEF Start, Leaving, d
  <2>2. Typed(e)
    BY <1>1, RestartTyped DEF Client
  <2> HIDE DEF e
  <2>3. ClientsLive' /\ NetTyped' /\ late' \subseteq Clients
    BY <2>1, <2>2, DiscoverFine, DoesKeeps
  <2> QED BY <2>1, <2>3, NetAssumption DEF Books
<1>3. CASE Stop(c)
  <2>1. Does(c, Release(d), {}) /\ leaves < MaxLeaves /\ leaves' = leaves + 1
        /\ UNCHANGED <<assoc, turn, maxtry>>
    BY <1>3 DEF Stop, Leaving, d
  <2>2. ClientsLive' /\ NetTyped' /\ late' \subseteq Clients
    BY <1>1, <2>1, ReleaseFine, DoesKeeps
  <2> QED BY <2>1, <2>2, NetAssumption DEF Books
<1>4. CASE FineTmr(c)
  <2> DEFINE e == [d EXCEPT !.armed = FALSE]
  <2>1. Does(c, Timeout(e), {}) /\ Idle
    BY <1>4 DEF FineTmr, d
  <2>2. Typed(e) /\ e.state = d.state /\ e.t2 = d.t2 /\ e.up = d.up
    BY <1>1 DEF Typed, Client
  <2> HIDE DEF e
  <2>3. Fine(Timeout(e))
    BY <1>1, <2>2, TimeoutFine DEF Live, Waits, Covers
  <2> QED BY <2>1, <2>3, DoesKeeps DEF Idle, Books
<1>5. CASE ClientTick(c)
  <2>1. Does(c, Coarse(d), {}) /\ turn' = (turn % Len(Phases)) + 1
        /\ UNCHANGED <<assoc, maxtry, leaves>>
    BY <1>5 DEF ClientTick, Tick, d
  <2>2. ClientsLive' /\ NetTyped' /\ late' \subseteq Clients
    BY <1>1, <2>1, CoarseFine, DoesKeeps DEF Covers
  <2>3. turn' \in 1 .. Len(Phases)
    BY <2>1, NetAssumption DEF Books
  <2> QED BY <2>1, <2>2, <2>3 DEF Books
<1>6. CASE ArpReply(c)
  <2>1. Does(c, Decline(d), {}) /\ Idle
    BY <1>6 DEF ArpReply, d
  <2>3. Fine(Decline(d))
    BY <1>1, DeclineFine
  <2> QED BY <2>1, <2>3, DoesKeeps DEF Idle, Books
<1> QED BY <1>2, <1>3, <1>4, <1>5, <1>6

\* A station that is back has its client ask again, whatever it was doing.
LEMMA ReturnKeeps ==
  ASSUME ClientsLive, NetTyped, Books, NEW c \in Clients, Return(c)
  PROVE  ClientsLive' /\ NetTyped' /\ Books'
<1> DEFINE out == NetworkChanged(cl[c])
<1>1. Fine(out)
  BY NetworkChangedFine DEF ClientsLive, Covers
<1>2. /\ cl' = [cl EXCEPT ![c] = out.d]
      /\ net' = net \cup {[type |-> m.type, mac |-> c, ciaddr |-> m.ciaddr,
                           req |-> m.req, stale |-> FALSE] : m \in out.msgs}
      /\ Books'
  BY DEF Return, Books
<1> HIDE DEF out
<1>3. ClientsLive'
  <2>1. out.d \in Client /\ Live(out.d)
    BY <1>1 DEF Fine, Live, Typed
  <2>2. cl' \in [Clients -> Client]
    BY <1>2, <2>1 DEF ClientsLive
  <2>3. \A x \in Clients : cl'[x] = IF x = c THEN out.d ELSE cl[x]
    BY <1>2 DEF ClientsLive
  <2>4. \A x \in Clients : Live(cl'[x])
    BY <2>1, <2>3 DEF ClientsLive
  <2> QED BY <2>2, <2>4 DEF ClientsLive, Live, Waits, Typed, Client, Ciaddr
<1>4. net' \subseteq Request \cup Answers
  <2>1. ASSUME NEW m \in out.msgs
        PROVE  [type |-> m.type, mac |-> c, ciaddr |-> m.ciaddr, req |-> m.req,
                stale |-> FALSE] \in Request
    BY <1>1 DEF Fine, Asked, Request
  <2> QED BY <1>2, <2>1 DEF NetTyped
<1>5. NetTyped'
  BY <1>4 DEF NetTyped, Request, Answers, Ciaddr
<1> QED BY <1>2, <1>3, <1>5

\* Every step keeps the invariant: the server's part by the proof of its own
\* specification, the stations' part function by function.
LEMMA NetNextInv == NetInv /\ [Next]_vars => NetInv'
<1> SUFFICES ASSUME NetInv, [Next]_vars PROVE NetInv'
  OBVIOUS
<1>1. Inv'
  BY PoolSteps, NextInv DEF NetInv
<1>2. Inv /\ ClientsLive /\ NetTyped /\ Books
  BY DEF NetInv
<1>3. ASSUME NEW c \in Clients,
             \/ Start(c) \/ Stop(c) \/ FineTmr(c) \/ ClientTick(c) \/ ArpReply(c)
      PROVE  ClientsLive' /\ NetTyped' /\ Books'
  BY <1>2, <1>3, StationKeeps
<1>4. ASSUME NEW c \in Clients, Leave(c)
      PROVE  ClientsLive' /\ NetTyped' /\ Books'
  <2>1. UNCHANGED <<cl, turn, late, maxtry>> /\ net' \subseteq net
        /\ assoc' \subseteq assoc /\ leaves < MaxLeaves /\ leaves' = leaves + 1
    BY <1>4 DEF Leave, Leaving
  <2>2. ClientsLive'
    BY <1>2, <2>1 DEF ClientsLive, Live, Waits, Typed, Client, Ciaddr
  <2>3. NetTyped'
    BY <1>2, <2>1 DEF NetTyped, Request, Answers, Ciaddr
  <2> QED BY <1>2, <2>1, <2>2, <2>3, NetAssumption DEF Books
<1>5. ASSUME NEW c \in Clients, Return(c)
      PROVE  ClientsLive' /\ NetTyped' /\ Books'
  BY <1>2, <1>5, ReturnKeeps
<1>6. CASE ServerTick
  <2>1. UNCHANGED <<cl, assoc, maxtry, leaves>> /\ net' = {} /\ late' \subseteq Clients
        /\ turn' = (turn % Len(Phases)) + 1
    BY <1>6 DEF ServerTick, Tick
  <2>2. ClientsLive'
    BY <1>2, <2>1 DEF ClientsLive, Live, Waits, Typed, Client, Ciaddr
  <2>3. turn' \in 1 .. Len(Phases)
    BY <1>2, <2>1, NetAssumption DEF Books
  <2> QED BY <1>1, <1>2, <2>1, <2>2, <2>3 DEF NetTyped, Books, NetInv
<1>7. ASSUME NEW mac \in Mac, OtherStation(mac)
      PROVE  ClientsLive' /\ NetTyped' /\ Books'
  BY <1>2, <1>7 DEF OtherStation, ClientsLive, NetTyped, Books, Live, Waits, Typed,
                    Client, Request, Answers, Ciaddr
<1>8. ASSUME NEW m \in net, ServerReceives(m)
      PROVE  ClientsLive' /\ NetTyped' /\ Books'
  <2>1. UNCHANGED <<cl, assoc, turn, late, maxtry, leaves>>
        /\ net' = (net \ {m}) \cup Reply(m)
    BY <1>8 DEF ServerReceives
  <2>2. m \in Request
    BY <1>2, <1>8 DEF ServerReceives, Up, NetTyped, Request, Answers
  <2>3. NetTyped'
    BY <1>2, <2>1, <2>2, ReplyTyped DEF NetTyped, Request, Answers, Ciaddr
  <2>4. ClientsLive' /\ Books'
    BY <1>2, <2>1 DEF ClientsLive, Books, Live, Waits, Typed, Client, Ciaddr
  <2> QED BY <2>3, <2>4
<1>9. ASSUME NEW m \in net, ClientReceives(m)
      PROVE  ClientsLive' /\ NetTyped' /\ Books'
  <2> DEFINE out == IF m.stale THEN Silent(cl[m.mac])
                    ELSE Receive(cl[m.mac], m.type, m.yiaddr, LeaseTime)
  <2>1. Does(m.mac, out, {m}) /\ Idle
    BY <1>9 DEF ClientReceives
  <2>2. m \in Answers
    BY <1>2, <1>9 DEF ClientReceives, Up, NetTyped, Request, Answers
  <2>3. /\ m.mac \in Clients /\ m.type \in {"OFFER", "ACK", "NAK"} /\ m.yiaddr \in Ciaddr
        /\ Live(cl[m.mac])
    BY <1>2, <2>2 DEF Answers, ClientsLive
  <2>4. Fine(out)
    BY <2>3, SilentFine, ReceiveFine DEF Covers
  <2> HIDE DEF out
  <2> QED BY <1>2, <2>1, <2>3, <2>4, DoesKeeps DEF Idle, Books
<1>10. ASSUME NEW m \in net, Lose(m)
       PROVE  ClientsLive' /\ NetTyped' /\ Books'
  BY <1>2, <1>10 DEF Lose, ClientsLive, NetTyped, Books, Live, Waits, Typed,
                     Client, Request, Answers, Ciaddr
<1>11. ASSUME UNCHANGED vars
       PROVE  ClientsLive' /\ NetTyped' /\ Books'
  BY <1>2, <1>11 DEF vars, ClientsLive, NetTyped, Books, Live, Waits, Typed,
                     Client, Request, Answers, Ciaddr
<1>12. ASSUME NEW c \in Clients, NEW n \in MaxTries, SetMaxTry(c, n)
       PROVE  ClientsLive' /\ NetTyped' /\ Books'
  BY <1>2, <1>12 DEF SetMaxTry, ClientsLive, NetTyped, Books, Live, Waits, Typed,
                     Client, Request, Answers, Ciaddr
<1> QED BY <1>1, <1>3, <1>4, <1>5, <1>6, <1>7, <1>8, <1>9, <1>10, <1>11, <1>12
        DEF Next, NetInv

-----------------------------------------------------------------------------
LEMMA NetInvariant == Spec => []NetInv
  BY NetInitInv, NetNextInv, PTL DEF Spec

\* The access point among its stations does what the specification of its
\* lease list allows, with the addresses its clients really claim.
THEOREM ImplementsPool == Spec => PoolSpec
<1>1. Init => PoolInit
  BY DEF Init
<1> QED BY <1>1, NetInvariant, PoolSteps, PTL DEF Spec, PoolSpec

\* No address is leased to two stations, and no station has two leases, while
\* messages are lost, late and repeated and stations come and go.
THEOREM NetworkLeasesUnique == Spec => []PoolUnique
  BY ImplementsPool, LeasesStayUnique, PTL

\* The state stays well formed: tries within its byte, T1 and T2 within the
\* lease, and addresses in the range of the server or none.
THEOREM NetworkTyped == Spec => []TypeOK
<1> DEFINE Wide == [state : States, tries : 0 .. TriesMod - 1, armed : BOOLEAN,
                    t1 : 0 .. LeaseTime, t2 : 0 .. LeaseTime, t0 : {0, LeaseTime},
                    offered : Addr \cup {NoIp}, ip : Addr \cup {NoIp}, up : BOOLEAN]
<1>1. Client \subseteq Wide
  BY DEF Client, Ciaddr
<1>2. NetInv => TypeOK
  <2>1. NetInv => cl \in [Clients -> Wide]
    <3> HIDE DEF Wide
    <3> QED BY <1>1 DEF NetInv, ClientsLive
  <2> QED BY <2>1 DEF NetInv, Inv, Good, Books, TypeOK, PoolTypeOK
<1> QED BY <1>2, NetInvariant, PTL

\* A client always waits for something that comes: a retry, T1 or T2, whichever
\* messages are lost, whenever it is started over and for any limits of tries
\* that a byte can count past; or it has come to the limit of DHCP_MAXRTX, and
\* dhcp_event tells so at every tick.
THEOREM ClientsNeverStuck == Spec => []NeverStuck
<1>1. NetInv => NeverStuck
  BY DEF NetInv, ClientsLive, Live, Typed, Waits, Client, NeverStuck, Runs
<1> QED BY <1>1, NetInvariant, PTL

\* What a client does, unless it is started over, uncovers no interface.
LEMMA StationCovers ==
  ASSUME NetInv, NEW c \in Clients,
         \/ Stop(c) \/ FineTmr(c) \/ ClientTick(c) \/ ArpReply(c) \/ Return(c)
  PROVE  Exposed(cl'[c]) => Exposed(cl[c])
<1>1. PICK d : d = cl[c]
  OBVIOUS
<1>2. Live(d) /\ Typed(d) /\ d \in Client /\ cl \in [Clients -> Client]
  BY <1>1 DEF NetInv, ClientsLive, Live
<1>3. CASE Stop(c)
  <2>1. cl'[c] = Release(d).d /\ ~Release(d).d.up
    BY <1>1, <1>2, <1>3, ReleaseFine DEF Stop, Does
  <2> QED BY <2>1 DEF Exposed
<1>4. CASE FineTmr(c)
  <2>1. PICK e : e = [d EXCEPT !.armed = FALSE]
    OBVIOUS
  <2>2. Typed(e) /\ e.state = d.state /\ e.t2 = d.t2 /\ e.up = d.up
    BY <1>2, <2>1 DEF Typed, Client
  <2>3. cl'[c] = Timeout(e).d
    BY <1>1, <1>2, <1>4, <2>1 DEF FineTmr, Does
  <2>4. Exposed(Timeout(e).d) => Exposed(e)
    BY <1>2, <2>2, TimeoutFine DEF Live, Waits, Covers
  <2> QED BY <1>1, <2>2, <2>3, <2>4 DEF Exposed
<1>5. CASE ClientTick(c)
  <2>1. cl'[c] = Coarse(d).d
    BY <1>1, <1>2, <1>5 DEF ClientTick, Does
  <2> QED BY <1>1, <1>2, <2>1, CoarseFine DEF Covers
<1>6. CASE ArpReply(c)
  <2>1. cl'[c] = Decline(d).d /\ Decline(d).d.up = d.up /\ d.state = "CHECKING"
    BY <1>1, <1>2, <1>6, DeclineFine DEF ArpReply, Does
  <2> QED BY <1>1, <2>1 DEF Exposed
<1>7. CASE Return(c)
  <2>1. cl'[c] = NetworkChanged(d).d
    BY <1>1, <1>2, <1>7 DEF Return
  <2> QED BY <1>1, <1>2, <2>1, NetworkChangedFine DEF Covers
<1> QED BY <1>3, <1>4, <1>5, <1>6, <1>7

LEMMA NextCovers ==
  ASSUME NetInv, Next, NEW c \in Clients
  PROVE  Exposed(cl'[c]) => Exposed(cl[c]) \/ Start(c)
<1>1. cl \in [Clients -> Client] /\ Live(cl[c])
  BY DEF NetInv, ClientsLive
<1>2. ASSUME NEW x \in Clients, \/ Start(x) \/ Stop(x) \/ FineTmr(x) \/ ClientTick(x)
                                \/ ArpReply(x) \/ Return(x)
      PROVE  Exposed(cl'[c]) => Exposed(cl[c]) \/ Start(c)
  <2>1. CASE x = c
    BY <1>2, <2>1, StationCovers
  <2>2. CASE x # c
    BY <1>1, <1>2, <2>2
       DEF Start, Stop, FineTmr, ClientTick, ArpReply, Return, Does
  <2> QED BY <2>1, <2>2
<1>3. ASSUME NEW m \in net, ClientReceives(m)
      PROVE  Exposed(cl'[c]) => Exposed(cl[c])
  <2>1. PICK out : out = IF m.stale THEN Silent(cl[m.mac])
                         ELSE Receive(cl[m.mac], m.type, m.yiaddr, LeaseTime)
    OBVIOUS
  <2>2. m \in Answers
    BY <1>3 DEF ClientReceives, Up, NetInv, NetTyped, Request, Answers
  <2>3. m.mac \in Clients /\ cl' = [cl EXCEPT ![m.mac] = out.d]
    BY <1>3, <2>1, <2>2 DEF ClientReceives, Does, Answers
  <2>4. CASE m.mac # c
    BY <1>1, <2>3, <2>4
  <2>5. CASE m.mac = c
    <3>1. cl'[c] = out.d
      BY <1>1, <2>3, <2>5
    <3>2. CASE m.stale
      BY <2>1, <2>5, <3>1, <3>2 DEF Silent
    <3>3. CASE ~m.stale
      <4>1. m.type \in {"OFFER", "ACK", "NAK"} /\ m.yiaddr \in Ciaddr
        BY <2>2 DEF Answers
      <4>2. Covers(cl[c], out)
        BY <1>1, <2>1, <2>5, <3>3, <4>1, ReceiveFine
      <4> QED BY <3>1, <4>2 DEF Covers
    <3> QED BY <3>2, <3>3
  <2> QED BY <2>4, <2>5
<1>4. ASSUME \/ \E x \in Clients : Leave(x) \/ \E n \in MaxTries : SetMaxTry(x, n)
             \/ ServerTick
             \/ \E mac \in Mac \ Clients : OtherStation(mac)
             \/ \E m \in net : ServerReceives(m) \/ Lose(m)
      PROVE  cl' = cl
  BY <1>4 DEF Leave, SetMaxTry, ServerTick, OtherStation, ServerReceives, Lose
<1> QED BY <1>2, <1>3, <1>4 DEF Next

\* The interface of a client is up without a lease only from the moment the
\* client is started over while it has one.
THEOREM InterfaceHasLease == Spec => UpOnlyWithLease
<1>1. NetInv /\ [Next]_vars =>
        [\A c \in Clients : Exposed(cl[c])' => Exposed(cl[c]) \/ Start(c)]_vars
  BY NextCovers DEF Exposed
<1> QED BY <1>1, NetInvariant, PTL DEF Spec, UpOnlyWithLease

-----------------------------------------------------------------------------
(* A bound station has a lease.                                            *)

\* Between a tick of the server and the next one of client c, its timer is one
\* minute behind.
Spot(x) == CHOOSE i \in 1 .. Len(Phases) : Phases[i] = x
Behind(c) ==
  LET s == Spot("server")
      p == Spot(c)
  IN  IF s < p THEN turn > s /\ turn <= p ELSE turn > s \/ turn <= p

\* Station c has a lease that it keeps while it is there, for k minutes more.
Safe(pool, c, k) == \E n \in pool : n.mac = c /\ n.state = "ONLINE" /\ n.lease_timer >= k

\* The messages in the air: a granted address is leased, a reply in time is for
\* the address that was asked for, and only stations that are there have some.
Granting(m) == m.type = "ACK" /\ m.yiaddr # NoIp => Safe(plist, m.mac, LeaseTime)
Matching(m) ==
  ~m.stale /\ m.type \in {"REQUEST", "ACK"} =>
    /\ cl[m.mac].state # "SELECTING"
    /\ (IF m.type = "ACK" THEN m.yiaddr ELSE m.req) = cl[m.mac].offered
InAir == \A m \in net : /\ Granting(m) /\ Matching(m) /\ m.mac \in assoc
                        /\ m.type = "RELEASE" => m.ciaddr = NoIp

\* The timers of a bound client.  t0 is 0 in one that was bound after its T2 of
\* an older lease had fired in REQUESTING: it renews at its next tick.
Counts(d) ==
  /\ d.state = "BOUND" => IF d.t0 = 0 THEN d.t2 = 1
                          ELSE d.t1 > 0 /\ d.t2 = d.t1 + LeaseTime - Half(LeaseTime)
  /\ d.state = "CHECKING" => d.t0 = LeaseTime

\* How much longer the lease of c has to run than the client may count on it.
Late(c) == IF c \in late THEN 1 ELSE 0
Lag(c) == IF Behind(c) THEN 2 ELSE 1

\* A client that has come to its limit in the ARP check will not be bound.
Rest(d) == IF d.t0 = 0 THEN LeaseTime ELSE d.t2
Backed(c) ==
  /\ cl[c].state = "CHECKING" /\ ~AtLimit(c) /\ cl[c].offered # NoIp =>
       Safe(plist, c, LeaseTime - Late(c))
  /\ cl[c].state = "BOUND" /\ cl[c].ip # NoIp => Safe(plist, c, Rest(cl[c]) - Lag(c))

LeaseInv == /\ NetInv /\ InAir
            /\ \A c \in Clients : Counts(cl[c])
            /\ \A c \in assoc : Backed(c)

\* What the theorem asks of the configuration: the list never grows to the
\* length at which the server frees the lease of a station that is there, and
\* T1 comes at least two minutes before the client counts its lease as over.
Roomy == IsFiniteSet(Mac) /\ Cardinality(Mac) < MaxStation
LongLease == LeaseTime >= 4

LEMMA SpotIs ==
  ASSUME NEW x \in {"server"} \cup Clients
  PROVE  /\ Spot(x) \in 1 .. Len(Phases)
         /\ \A j \in 1 .. Len(Phases) : Phases[j] = x <=> j = Spot(x)
<1>1. PICK i \in 1 .. Len(Phases) : \A j \in 1 .. Len(Phases) : Phases[j] = x <=> j = i
  BY NetAssumption
<1>2. Spot(x) = i
  BY <1>1 DEF Spot
<1> QED BY <1>1, <1>2

\* When the server ticks no client is behind, and then all are; a client that
\* ticks was behind and is not any more; nobody else's tick matters to it.
LEMMA TickMoves ==
  ASSUME NEW c \in Clients, NEW x \in {"server"} \cup Clients, turn \in 1 .. Len(Phases), Tick(x)
  PROVE  /\ x = "server" => ~Behind(c) /\ Behind(c)'
         /\ x = c => Behind(c) /\ ~Behind(c)'
         /\ x \notin {c, "server"} => Behind(c)' = Behind(c)
<1> DEFINE s == Spot("server")
           p == Spot(c)
           n == Len(Phases)
<1>1. n \in Nat /\ s \in 1 .. n /\ p \in 1 .. n
  <2>1. n \in Nat
    BY NetAssumption
  <2>2. s \in 1 .. n /\ p \in 1 .. n
    BY SpotIs
  <2> QED BY <2>1, <2>2
<1>2. s # p
  BY SpotIs, NetAssumption
<1>3. /\ turn = s <=> x = "server"
      /\ turn = p <=> x = c
  BY SpotIs, NetAssumption DEF Tick
<1>4. turn' = IF turn = n THEN 1 ELSE turn + 1
  <2>1. turn' = (turn % n) + 1 /\ turn \in 1 .. n
    BY DEF Tick
  <2>2. CASE turn = n
    <3> HIDE DEF n, s, p
    <3>1. n % n = 0
      BY <1>1
    <3> QED BY <2>1, <2>2, <3>1
  <2>3. CASE turn # n
    <3> HIDE DEF n, s, p
    <3>1. turn % n = turn
      BY <1>1, <2>1, <2>3
    <3> QED BY <2>1, <2>3, <3>1
  <2> QED BY <2>2, <2>3
<1>5. /\ Behind(c) <=> IF s < p THEN turn > s /\ turn <= p ELSE turn > s \/ turn <= p
      /\ Behind(c)' <=> IF s < p THEN turn' > s /\ turn' <= p ELSE turn' > s \/ turn' <= p
  BY DEF Behind, Spot
<1>6. Behind(c) \in BOOLEAN /\ Behind(c)' \in BOOLEAN
  BY DEF Behind
<1>7. turn \in 1 .. n
  OBVIOUS
<1> HIDE DEF s, p, n
<1>8. x = "server" => ~Behind(c) /\ Behind(c)'
  BY <1>1, <1>2, <1>3, <1>4, <1>5, <1>7
<1>9. x = c => Behind(c) /\ ~Behind(c)'
  BY <1>1, <1>2, <1>3, <1>4, <1>5, <1>7
<1>10. x \notin {c, "server"} => (Behind(c)' <=> Behind(c))
  BY <1>1, <1>2, <1>3, <1>4, <1>5, <1>7
<1> QED BY <1>6, <1>8, <1>9, <1>10

\* Whoever's lease is made or moved, a station that is there keeps one.
LEMMA UpdateSafe ==
  ASSUME Inv, NEW mac \in Mac, NEW ciaddr, NEW c, NEW k \in Int, k <= LeaseTime,
         Safe(plist, c, k)
  PROVE  Safe(UpdatedPool(mac, ciaddr), c, k)
<1>1. PICK n \in plist : n.mac = c /\ n.state = "ONLINE" /\ n.lease_timer >= k
  BY DEF Safe
<1>2. CASE Refused(mac, ciaddr)
  BY <1>2 DEF UpdatedPool
<1>3. CASE ~Refused(mac, ciaddr) /\ mac = c
  <2>1. Granted(mac, ciaddr) \in UpdatedPool(mac, ciaddr)
    BY <1>3 DEF UpdatedPool
  <2>2. /\ Granted(mac, ciaddr).mac = c /\ Granted(mac, ciaddr).state = "ONLINE"
        /\ Granted(mac, ciaddr).lease_timer = LeaseTime
    BY <1>3 DEF Granted
  <2>3. LeaseTime >= k
    BY ServerAssumption
  <2> QED BY <2>1, <2>2, <2>3 DEF Safe
<1>4. CASE ~Refused(mac, ciaddr) /\ mac # c
  <2>1. n \notin LeaseOf(mac)
    BY <1>1, <1>4 DEF LeaseOf
  <2>2. n \notin HolderOf(ciaddr)
    BY <1>1, <1>4, <2>1 DEF Refused, Others
  <2>3. n \in UpdatedPool(mac, ciaddr)
    BY <1>4, <2>1, <2>2 DEF UpdatedPool
  <2> QED BY <1>1, <2>3 DEF Safe
<1> QED BY <1>2, <1>3, <1>4

\* A station that leaves takes no lease but its own.
LEMMA LeaveSafe ==
  ASSUME NEW pool, NEW mac, NEW ip, NEW force, NEW c, NEW k,
         mac # c \/ (\A n \in pool : n.ip # ip), Safe(pool, c, k)
  PROVE  Safe(LeftPool(pool, mac, ip, force), c, k)
<1>1. PICK n \in pool : n.mac = c /\ n.state = "ONLINE" /\ n.lease_timer >= k
  BY DEF Safe
<1>2. n \in LeftPool(pool, mac, ip, force)
  BY <1>1 DEF LeftPool
<1> QED BY <1>1, <1>2 DEF Safe

\* No more leases than stations: none is freed to make room.
LEMMA AgedIsPool ==
  ASSUME Inv, Roomy
  PROVE  AgedPool = Aged
<1>1. /\ \A x \in Aged : x.mac \in Mac
      /\ \A x, y \in Aged : x.mac = y.mac => x = y
  <2>1. \A x \in Aged : \E n \in plist :
          x = [n EXCEPT !.lease_timer = IF n.type = "DYNAMIC" THEN @ - 1 ELSE @]
    BY DEF Aged
  <2>2. \A n \in plist : n \in Lease
    BY DEF Inv, Good
  <2>3. \A x \in Aged : \E n \in plist :
          /\ x = [n EXCEPT !.lease_timer = IF n.type = "DYNAMIC" THEN @ - 1 ELSE @]
          /\ x.mac = n.mac
    BY <2>1, <2>2 DEF Lease
  <2> QED BY <2>2, <2>3 DEF Inv, Good, Unique, Lease
<1> DEFINE f == [x \in Aged |-> x.mac]
<1>2. f \in Injection(Aged, Mac)
  BY <1>1 DEF Injection, IsInjective
<1>3. IsFiniteSet(Aged) /\ Cardinality(Aged) <= Cardinality(Mac)
  BY <1>2, FS_Injection DEF Roomy, ExistsInjection
<1>4. Cardinality(Aged) \in Nat /\ Cardinality(Mac) \in Nat
  BY <1>3, FS_CardinalityType DEF Roomy
<1>5. ~ (Cardinality(Aged) >= MaxStation)
  BY <1>3, <1>4, ServerAssumption DEF Roomy
<1> QED BY <1>5 DEF AgedPool

LEMMA AgedSafe ==
  ASSUME Inv, Roomy, NEW c, NEW k \in Int, k >= 2, Safe(plist, c, k)
  PROVE  Safe(AgedPool, c, k - 1)
<1>1. PICK n \in plist : n.mac = c /\ n.state = "ONLINE" /\ n.lease_timer >= k
  BY DEF Safe
<1>2. n \in Lease
  BY DEF Inv, Good
<1> DEFINE x == [n EXCEPT !.lease_timer = IF n.type = "DYNAMIC" THEN @ - 1 ELSE @]
<1>3. n.lease_timer \in Int /\ n.lease_timer >= 2
  BY <1>1, <1>2, ServerAssumption DEF Lease
<1>4. x \in Aged
  BY <1>1, <1>3 DEF Aged
<1>5. x.mac = c /\ x.state = "ONLINE" /\ x.lease_timer >= k - 1
  BY <1>1, <1>2, <1>3 DEF Lease
<1> QED BY <1>4, <1>5, AgedIsPool DEF Safe
\* What the function out of a client in the state d0 leaves and sends: a REQUEST
\* is for the address offered; and when that changes, or another one will be
\* asked for, the exchange gets a new xid, unless there was no REQUEST yet.
Tied(d0, out) ==
  /\ \A m \in out.msgs : /\ m.type = "REQUEST" => /\ m.req = out.d.offered
                                                  /\ out.d.state # "SELECTING"
                         /\ m.type = "RELEASE" => m.ciaddr = NoIp
  /\ \/ out.newXid = TRUE \/ d0.state = "SELECTING"
     \/ out.d.offered = d0.offered /\ out.d.state # "SELECTING"
Elsewhere(out) == out.d.state \notin {"CHECKING", "BOUND"}

\* Counting tries and entering a state leave the rest alone.
LEMMA CountsSame ==
  ASSUME NEW d, Typed(d), NEW s \in States
  PROVE  \A e \in {Enter(d, s), Retry(d), Again(d)} :
           /\ e.offered = d.offered /\ e.t0 = d.t0 /\ e.t1 = d.t1 /\ e.t2 = d.t2
           /\ e.ip = d.ip
  BY DEF Enter, Retry, Again, Typed, Client

LEMMA RequestTied ==
  ASSUME NEW d, Typed(d), NEW s \in States \ {"SELECTING", "CHECKING", "BOUND"}, NEW d0,
         d0.state = "SELECTING" \/ d0.offered = d.offered,
         NEW counted \in {Retry(Enter(d, s)), Again(Enter(d, s))}
  PROVE  LET out == Sent(Enter(d, s), "REQUEST", counted)
         IN  Tied(d0, out) /\ Elsewhere(out) /\ out.d.offered = d.offered
<1> DEFINE e == Enter(d, s)
           out == Sent(e, "REQUEST", counted)
<1>1. Typed(e) /\ e.state = s /\ e.offered = d.offered
  BY EnterTyped, CountsSame
<1> HIDE DEF e
<1>2. counted.state = s /\ counted.offered = d.offered
  BY <1>1, CountsSame, RetryTyped, AgainTyped DEF e
<1>3. out.d = counted /\ \A m \in out.msgs : m.type = "REQUEST" /\ m.req = e.offered
  BY DEF Sent, Message
<1> HIDE DEF out
<1>4. Tied(d0, out) /\ Elsewhere(out) /\ out.d.offered = d.offered
  BY <1>1, <1>2, <1>3 DEF Tied, Elsewhere
<1> QED BY <1>4 DEF out, e

\* The five functions that send a REQUEST.
LEMMA AskTied ==
  ASSUME NEW d, Typed(d), NEW d0, d0.state = "SELECTING" \/ d0.offered = d.offered
  PROVE  \A out \in {Select(d), DhcpRenew(d), Rebind(d), Reboot(d)} :
           Tied(d0, out) /\ Elsewhere(out) /\ out.d.offered = d.offered
<1>1. \A s \in States \ {"SELECTING", "CHECKING", "BOUND"} :
      \A counted \in {Retry(Enter(d, s)), Again(Enter(d, s))} :
        LET out == Sent(Enter(d, s), "REQUEST", counted)
        IN  Tied(d0, out) /\ Elsewhere(out) /\ out.d.offered = d.offered
  BY RequestTied
<1>2. /\ Select(d) = Sent(Enter(d, "REQUESTING"), "REQUEST", Again(Enter(d, "REQUESTING")))
      /\ DhcpRenew(d) = Sent(Enter(d, "RENEWING"), "REQUEST", Retry(Enter(d, "RENEWING")))
      /\ Rebind(d) = Sent(Enter(d, "REBINDING"), "REQUEST", Retry(Enter(d, "REBINDING")))
      /\ Reboot(d) = Sent(Enter(d, "REBOOTING"), "REQUEST", Retry(Enter(d, "REBOOTING")))
  BY DEF Select, DhcpRenew, Rebind, Reboot
<1>3. {"REQUESTING", "RENEWING", "REBINDING", "REBOOTING"} \subseteq
        States \ {"SELECTING", "CHECKING", "BOUND"}
  BY DEF States
<1> QED BY <1>1, <1>2, <1>3

\* dhcp_discover: a new exchange, or the same one that has asked for nothing.
LEMMA DiscoverTied ==
  ASSUME NEW d, Typed(d)
  PROVE  /\ Elsewhere(Discover(d)) /\ Discover(d).d.state = "SELECTING"
         /\ Discover(d).newXid = TRUE \/ d.state = "SELECTING"
         /\ \A m \in Discover(d).msgs : m.type = "DISCOVER"
<1> DEFINE c == [d EXCEPT !.offered = 0]
           e == Enter(c, "SELECTING")
<1>1. Typed(c) /\ c.state = d.state
  BY Constants DEF Typed, Client
<1> HIDE DEF c
<1>2. Typed(e) /\ e.state = "SELECTING" /\ (d.state # "SELECTING" => e.tries = 0)
  BY <1>1, EnterTyped DEF States
<1>3. Discover(d) = Sent(e, "DISCOVER", Again(e))
  BY DEF Discover, c
<1> HIDE DEF e
<1>4. Again(e).state = "SELECTING"
  BY <1>2, AgainTyped
<1>5. /\ Discover(d).d = Again(e) /\ Discover(d).newXid = (e.tries = 0)
      /\ \A m \in Discover(d).msgs : m.type = "DISCOVER"
  BY <1>3 DEF Sent, Message
<1> QED BY <1>2, <1>4, <1>5 DEF Elsewhere

LEMMA DiscoverIsTied ==
  ASSUME NEW d, Typed(d), NEW d0, d0.state = d.state \/ d.state # "SELECTING"
  PROVE  Tied(d0, Discover(d)) /\ Elsewhere(Discover(d))
  BY DiscoverTied DEF Tied

LEMMA DeclineTied ==
  ASSUME NEW d, Typed(d), d.state # "BACKING_OFF"
  PROVE  Tied(d, Decline(d)) /\ Elsewhere(Decline(d))
<1> DEFINE e == Enter(d, "BACKING_OFF")
<1>1. Typed(e) /\ e.state = "BACKING_OFF" /\ e.tries = 0
  BY EnterTyped DEF States
<1>2. Decline(d) = Sent(e, "DECLINE", Again(e))
  BY DEF Decline
<1> HIDE DEF e
<1>3. Again(e).state = "BACKING_OFF"
  BY <1>1, AgainTyped
<1>4. /\ Decline(d).d = Again(e) /\ Decline(d).newXid = (e.tries = 0)
      /\ \A m \in Decline(d).msgs : m.type = "DECLINE"
  BY <1>2 DEF Sent, Message
<1> QED BY <1>1, <1>3, <1>4 DEF Tied, Elsewhere

\* dhcp_release: the message claims no address, so it takes no lease.
LEMMA ReleaseMessages ==
  ASSUME NEW d, Typed(d)
  PROVE  \A m \in Release(d).msgs : m.type = "RELEASE" /\ m.ciaddr = NoIp
  BY DEF Release, Sent, Message, Ci, NoIp

LEMMA ReleaseTied ==
  ASSUME NEW d, Typed(d), d.state # "OFF"
  PROVE  Tied(d, Release(d)) /\ Elsewhere(Release(d))
<1> DEFINE e   == Enter(d, "OFF")
           off == [e EXCEPT !.offered = 0, !.t0 = 0]
           r   == Retry(off)
<1>1. Typed(e) /\ e.state = "OFF" /\ e.tries = 0
  BY EnterTyped DEF States
<1> HIDE DEF e
<1>2. Typed(off) /\ off.state = "OFF" /\ off.tries = 0
  BY <1>1, Constants DEF Typed, Client
<1>3. Release(d) = Sent(off, "RELEASE", NoAddress(r))
  BY DEF Release, e
<1> HIDE DEF off
<1>4. r.state = "OFF" /\ Typed(r)
  BY <1>2, RetryTyped
<1> HIDE DEF r
<1>5. NoAddress(r).state = "OFF"
  BY <1>4 DEF NoAddress, Typed, Client
<1>6. Release(d).d = NoAddress(r) /\ Release(d).newXid = (off.tries = 0)
  BY <1>3 DEF Sent
<1> QED BY <1>2, <1>5, <1>6, ReleaseMessages DEF Tied, Elsewhere

LEMMA ReleaseAndDiscoverTied ==
  ASSUME NEW d, Typed(d), NEW d0
  PROVE  Tied(d0, ReleaseAndDiscover(d)) /\ Elsewhere(ReleaseAndDiscover(d))
<1> DEFINE released == Release(d)
           again    == Discover(released.d)
           out      == ReleaseAndDiscover(d)
<1>1. Typed(released.d)
  BY ReleaseFine
<1>2. out = [again EXCEPT !.newXid = TRUE, !.msgs = again.msgs \cup released.msgs]
  BY DEF ReleaseAndDiscover
<1>3. again = [d |-> again.d, newXid |-> again.newXid, msgs |-> again.msgs]
  BY DEF Discover, Sent
<1>4. /\ again.d.state = "SELECTING" /\ \A m \in again.msgs : m.type = "DISCOVER"
      /\ \A m \in released.msgs : m.type = "RELEASE" /\ m.ciaddr = NoIp
  BY <1>1, DiscoverTied, ReleaseMessages
<1> HIDE DEF released, again, out
<1>5. out.d = again.d /\ out.newXid = TRUE /\ out.msgs = again.msgs \cup released.msgs
  BY <1>2, <1>3
<1>6. Tied(d0, out) /\ Elsewhere(out)
  BY <1>4, <1>5 DEF Tied, Elsewhere
<1> QED BY <1>6 DEF out

LEMMA HandleNakTied ==
  ASSUME NEW d, Typed(d), NEW d0
  PROVE  Tied(d0, HandleNak(d)) /\ Elsewhere(HandleNak(d))
<1>1. Typed(NoAddress(d))
  BY Constants DEF NoAddress, Typed, Client
<1>2. PICK e : e = Enter(NoAddress(d), "BACKING_OFF")
  OBVIOUS
<1>3. Typed(e) /\ e.state = "BACKING_OFF" /\ HandleNak(d) = Discover(e)
  BY <1>1, <1>2, EnterTyped DEF States, HandleNak
<1> QED BY <1>3, DiscoverIsTied

\* Staying in a state sends nothing and asks for nothing else.
LEMMA SilentTied ==
  ASSUME NEW d, NEW d0, d0.state = d.state, d0.offered = d.offered
  PROVE  Tied(d0, Silent(d)) /\ Silent(d).d = d
  BY DEF Silent, Tied
\* The timers dhcp_bind starts.
LEMMA BindCounts ==
  ASSUME NEW d, Typed(d), LongLease
  PROVE  /\ Bind(d).state = "BOUND" /\ Counts(Bind(d)) /\ Bind(d).ip = d.offered
         /\ Bind(d).t0 = d.t0 /\ Bind(d).offered = d.offered
         /\ Rest(Bind(d)) <= LeaseTime
<1> DEFINE t2 == Whole(d.t0)
           t1 == IF Half(d.t0) >= t2 THEN 0 ELSE Half(d.t0)
           e  == [d EXCEPT !.t1 = t1, !.t2 = t2, !.ip = d.offered, !.up = TRUE]
<1>1. CASE d.t0 = 0
  <2>1. t2 = 1 /\ t1 = 0
    BY <1>1 DEF Whole, Half
  <2> HIDE DEF t1, t2
  <2>2. /\ e.t1 = 0 /\ e.t2 = 1 /\ e.ip = d.offered /\ e.t0 = 0 /\ e.offered = d.offered
        /\ Typed(e)
    <3>1. 0 \in 0 .. LeaseTime /\ 1 \in 0 .. LeaseTime
      BY Constants
    <3>2. /\ e.t1 = 0 /\ e.t2 = 1 /\ e.ip = d.offered /\ e.t0 = 0 /\ e.offered = d.offered
          /\ e \in Client
      BY <1>1, <2>1, <3>1 DEF Typed, Client
    <3> HIDE DEF e
    <3> QED BY <3>2 DEF Typed
  <2>3. Bind(d) = Enter(e, "BOUND")
    BY DEF Bind, t1, t2
  <2> HIDE DEF e
  <2>4. Bind(d).state = "BOUND"
    BY <2>2, <2>3, EnterTyped DEF States
  <2>5. /\ Bind(d).t2 = 1 /\ Bind(d).ip = d.offered /\ Bind(d).t0 = 0
        /\ Bind(d).offered = d.offered
    BY <2>2, <2>3, CountsSame DEF States
  <2> QED BY <1>1, <2>4, <2>5, Constants DEF Counts, Rest
<1>2. CASE d.t0 # 0
  <2>1. d.t0 = LeaseTime
    BY <1>2 DEF Typed, Client
  <2>2. /\ t2 = LeaseTime /\ Half(LeaseTime) = (LeaseTime + 1) \div 2
        /\ LeaseTime >= 4 /\ LeaseTime \in Nat
    BY <1>2, <2>1, Constants DEF Whole, Half, LongLease
  <2>3. t1 = Half(LeaseTime) /\ t1 \in 1 .. LeaseTime - 1
    BY <2>1, <2>2
  <2> HIDE DEF t1, t2
  <2>4. /\ e.t1 = t1 /\ e.t2 = LeaseTime /\ e.ip = d.offered /\ e.t0 = d.t0
        /\ e.offered = d.offered /\ Typed(e)
    <3>1. t1 \in 0 .. LeaseTime /\ LeaseTime \in 0 .. LeaseTime /\ t1 < LeaseTime
      BY <2>2, <2>3
    <3>2. /\ e.t1 = t1 /\ e.t2 = LeaseTime /\ e.ip = d.offered /\ e.t0 = d.t0
          /\ e.offered = d.offered /\ e \in Client
      BY <2>2, <3>1 DEF Typed, Client
    <3> HIDE DEF e
    <3> QED BY <3>1, <3>2 DEF Typed
  <2>5. Bind(d) = Enter(e, "BOUND")
    BY DEF Bind, t1, t2
  <2> HIDE DEF e
  <2>6. Bind(d).state = "BOUND"
    BY <2>4, <2>5, EnterTyped DEF States
  <2>7. /\ Bind(d).t1 = t1 /\ Bind(d).t2 = LeaseTime /\ Bind(d).ip = d.offered
        /\ Bind(d).t0 = d.t0 /\ Bind(d).offered = d.offered
    BY <2>4, <2>5, CountsSame DEF States
  <2> QED BY <1>2, <2>2, <2>3, <2>6, <2>7 DEF Counts, Rest
<1> QED BY <1>1, <1>2

\* What matters to a lease is the same in e as in d.
Alike(d, e) == /\ e.state = d.state /\ e.offered = d.offered /\ e.ip = d.ip
               /\ e.t0 = d.t0 /\ e.t1 = d.t1 /\ e.t2 = d.t2

\* dhcp_timeout: an address that passed the ARP check is bound, for the whole
\* lease; nothing else brings a client to CHECKING or BOUND.
LEMMA TimeoutTied ==
  ASSUME NEW d, NEW e, Typed(e), Alike(d, e), Counts(d), LongLease
  PROVE  LET out == Timeout(e)
         IN  /\ Tied(d, out)
             /\ \/ Elsewhere(out)
                \/ Alike(d, out.d)
                \/ /\ d.state = "CHECKING" /\ out.d.state = "BOUND" /\ Counts(out.d)
                   /\ out.d.ip = d.offered /\ Rest(out.d) <= LeaseTime
<1> DEFINE out == Timeout(e)
<1>1. Typed(e) /\ Alike(d, e)
  OBVIOUS
<1>2. CASE e.state \in {"BACKING_OFF", "SELECTING"}
  <2>1. out = Discover(e)
    BY <1>2 DEF Timeout
  <2> QED BY <1>1, <2>1, DiscoverIsTied DEF Alike
<1>3. CASE e.state = "REQUESTING"
  <2>1. CASE out = Select(e)
    BY <1>1, <2>1, AskTied DEF Alike
  <2>2. CASE out = ReleaseAndDiscover(e)
    BY <1>1, <2>2, ReleaseAndDiscoverTied
  <2> QED BY <1>3, <2>1, <2>2 DEF Timeout
<1>4. CASE e.state = "CHECKING"
  <2>1. CASE out = Check(e)
    <3> DEFINE f == Enter(e, "CHECKING")
    <3>1. f = e /\ out = Silent(Again(e))
      BY <1>4, <2>1 DEF Check, Enter
    <3>2. Alike(e, Again(e))
      BY <1>1, CountsSame, AgainTyped DEF Alike, States
    <3> HIDE DEF f, out
    <3>3. Alike(d, Again(e))
      BY <1>1, <3>2 DEF Alike
    <3>4. Tied(d, out) /\ out.d = Again(e)
      BY <3>1, <3>3, SilentTied DEF Alike
    <3> QED BY <3>3, <3>4 DEF out
  <2>2. CASE out = Silent(Bind(e))
    <3>1. PICK b : b = Bind(e)
      OBVIOUS
    <3>2. /\ b.state = "BOUND" /\ Counts(b) /\ b.ip = e.offered
          /\ b.offered = e.offered /\ Rest(b) <= LeaseTime
      BY <1>1, <3>1, BindCounts
    <3>3. out.d = b /\ out.msgs = {}
      BY <2>2, <3>1 DEF Silent
    <3> HIDE DEF out
    <3>4. Tied(d, out)
      BY <1>1, <3>2, <3>3 DEF Tied, Alike
    <3> QED BY <1>1, <1>4, <3>2, <3>3, <3>4 DEF Alike, out
  <2> QED BY <1>4, <2>1, <2>2 DEF Timeout
<1>5. CASE e.state = "RENEWING"
  <2>1. out = DhcpRenew(e)
    BY <1>5 DEF Timeout
  <2> QED BY <1>1, <2>1, AskTied DEF Alike
<1>6. CASE e.state = "REBINDING"
  <2>1. CASE out = Rebind(e)
    BY <1>1, <2>1, AskTied DEF Alike
  <2>2. CASE out = ReleaseAndDiscover(e)
    BY <1>1, <2>2, ReleaseAndDiscoverTied
  <2> QED BY <1>6, <2>1, <2>2 DEF Timeout
<1>7. CASE e.state = "REBOOTING"
  <2>1. CASE out = Reboot(e)
    BY <1>1, <2>1, AskTied DEF Alike
  <2>2. CASE out = Discover(e)
    BY <1>1, <1>7, <2>2, DiscoverIsTied
  <2> QED BY <1>7, <2>1, <2>2 DEF Timeout
<1>8. CASE e.state \in {"OFF", "BOUND"}
  <2>1. out = Silent(e)
    BY <1>8 DEF Timeout
  <2> QED BY <1>1, <2>1, SilentTied DEF Alike
<1> QED BY <1>1, <1>2, <1>3, <1>4, <1>5, <1>6, <1>7, <1>8 DEF Typed, Client, States

\* dhcp_coarse_tmr: a client that stays bound counts both timers down.
LEMMA CoarseTied ==
  ASSUME NEW d, Typed(d), Counts(d), LongLease
  PROVE  LET out == Coarse(d)
         IN  /\ Tied(d, out)
             /\ \/ Elsewhere(out)
                \/ /\ out.d.state = d.state /\ out.d.offered = d.offered
                   /\ out.d.ip = d.ip /\ out.d.t0 = d.t0 /\ Counts(out.d)
                   /\ out.d.tries = d.tries
                   /\ d.state = "BOUND" => d.t0 # 0 /\ out.d.t2 = d.t2 - 1
<1> DEFINE out == Coarse(d)
           e == [d EXCEPT !.t2 = Less(@)]
           f == [e EXCEPT !.t1 = Less(@)]
<1>1. /\ Less(d.t2) \in 0 .. LeaseTime /\ Less(d.t1) \in 0 .. LeaseTime
      /\ d.t1 \in Nat /\ d.t2 \in Nat /\ LeaseTime \in Nat /\ LeaseTime >= 4
      /\ Half(LeaseTime) <= LeaseTime - 2
  BY Constants DEF Less, Typed, Client, Half, LongLease
<1>2. CASE d.t2 = 1
  <2>1. /\ e.state = d.state /\ e.offered = d.offered /\ e.ip = d.ip /\ e.t0 = d.t0
        /\ e.t1 = d.t1 /\ e.t2 = 0 /\ e.tries = d.tries /\ Typed(e)
    BY <1>2, <1>1 DEF Less, Typed, Client
  <2>2. out = IF MayRenew(d) THEN Rebind(e) ELSE Silent(e)
    BY <1>2 DEF Coarse
  <2> HIDE DEF e, out
  <2>3. CASE MayRenew(d)
    <3>1. Tied(d, out) /\ Elsewhere(out)
      BY <2>1, <2>2, <2>3, AskTied
    <3> QED BY <3>1 DEF out
  <2>4. CASE ~MayRenew(d)
    <3>1. Tied(d, out) /\ out.d = e
      BY <2>1, <2>2, <2>4, SilentTied
    <3>2. d.state # "BOUND"
      BY <2>4 DEF MayRenew
    <3>3. Counts(e)
      BY <2>1, <3>2 DEF Counts
    <3> QED BY <2>1, <3>1, <3>2, <3>3 DEF out
  <2> QED BY <2>3, <2>4
<1>3. CASE d.t2 # 1
  <2>1. /\ f.state = d.state /\ f.offered = d.offered /\ f.ip = d.ip /\ f.t0 = d.t0
        /\ f.t1 = Less(d.t1) /\ f.t2 = Less(d.t2) /\ f.tries = d.tries
    BY <1>1 DEF Typed, Client
  <2>2. CASE d.t1 = 1 /\ MayRenew(d)
    <3>1. out = DhcpRenew(f)
      BY <1>3, <2>2 DEF Coarse
    <3>2. f.t2 > 0 /\ f.t1 = 0
      BY <1>1, <1>3, <2>1, <2>2 DEF Typed, Less
    <3>3. Typed(f)
      <4>1. f \in Client
        BY <1>1 DEF Typed, Client
      <4> HIDE DEF f
      <4> QED BY <3>2, <4>1 DEF Typed
    <3> HIDE DEF f, out
    <3>4. Tied(d, out) /\ Elsewhere(out)
      BY <2>1, <3>1, <3>3, AskTied
    <3> QED BY <3>4 DEF out
  <2>3. CASE ~(d.t1 = 1 /\ MayRenew(d))
    <3>1. out = Silent(f)
      BY <1>3, <2>3 DEF Coarse
    <3> HIDE DEF f, out
    <3>2. Tied(d, out) /\ out.d = f
      BY <2>1, <3>1, SilentTied
    <3>3. d.state = "BOUND" => d.t0 # 0 /\ d.t1 >= 2 /\ d.t2 = d.t1 + LeaseTime - Half(LeaseTime)
      BY <1>1, <1>3, <2>3 DEF Counts, MayRenew
    <3>4. d.state = "BOUND" => /\ d.t0 # 0 /\ f.t1 = d.t1 - 1 /\ f.t2 = d.t2 - 1 /\ f.t1 > 0
                               /\ f.t2 = f.t1 + LeaseTime - Half(LeaseTime)
      <4>1. Half(LeaseTime) \in Int
        BY <1>1 DEF Half
      <4> QED BY <1>1, <2>1, <3>3, <4>1 DEF Less
    <3>5. Counts(f)
      BY <2>1, <3>4 DEF Counts
    <3> QED BY <2>1, <3>2, <3>4, <3>5 DEF out
  <2> QED BY <2>2, <2>3
<1> QED BY <1>2, <1>3

\* dhcp_recv: only an ACK in time brings a client to CHECKING or BOUND, for the
\* address it was offered.
LEMMA ReceiveTied ==
  ASSUME NEW d, Typed(d), NEW type \in {"OFFER", "ACK", "NAK"}, NEW yiaddr \in Ciaddr,
         type = "ACK" => yiaddr = d.offered, LongLease
  PROVE  LET out == Receive(d, type, yiaddr, LeaseTime)
         IN  /\ Tied(d, out)
             /\ \/ Elsewhere(out)
                \/ out.d = d
                \/ /\ type = "ACK" /\ Counts(out.d) /\ out.d.state # d.state
                   /\ \/ out.d.state = "CHECKING" /\ out.d.offered = yiaddr
                      \/ /\ out.d.state = "BOUND" /\ out.d.ip = yiaddr
                         /\ Rest(out.d) <= LeaseTime
<1> DEFINE out == Receive(d, type, yiaddr, LeaseTime)
<1>1. CASE ~Awaited(d, type)
  <2>1. out = Silent(d)
    BY <1>1 DEF Receive, Awaited
  <2> QED BY <2>1, SilentTied
<1>2. CASE type = "OFFER" /\ Awaited(d, type)
  <2> DEFINE e == [d EXCEPT !.armed = FALSE, !.offered = yiaddr]
  <2>1. Typed(e) /\ d.state = "SELECTING"
    BY <1>2 DEF Awaited, Typed, Client
  <2>2. out = Select(e)
    BY <1>2 DEF Receive, Awaited
  <2> HIDE DEF e
  <2> QED BY <2>1, <2>2, AskTied
<1>3. CASE type = "ACK" /\ d.state = "REQUESTING"
  <2> DEFINE e == [d EXCEPT !.t0 = LeaseTime, !.offered = yiaddr]
             f == Enter(e, "CHECKING")
  <2>1. Typed(e) /\ e.offered = d.offered /\ e.t0 = LeaseTime
    BY <1>3 DEF Typed, Client
  <2>2. out = Silent(Again(f))
    BY <1>3 DEF Receive, Awaited, Check
  <2> HIDE DEF e, out
  <2>3. Typed(f) /\ f.offered = d.offered /\ f.t0 = LeaseTime /\ f.state = "CHECKING"
    <3>1. "CHECKING" \in States
      BY DEF States
    <3>2. Typed(f) /\ f.state = "CHECKING"
      BY <2>1, <3>1, EnterTyped
    <3>3. f.offered = e.offered /\ f.t0 = e.t0
      BY <2>1, <3>1, CountsSame
    <3> QED BY <2>1, <3>2, <3>3
  <2> HIDE DEF f
  <2>4. /\ Again(f).offered = d.offered /\ Again(f).t0 = LeaseTime
        /\ Again(f).state = "CHECKING"
    BY <2>3, AgainTyped, CountsSame DEF States
  <2>5. out.d = Again(f) /\ out.newXid = FALSE /\ out.msgs = {}
    BY <2>2 DEF Silent
  <2>6. Tied(d, out) /\ Counts(out.d) /\ out.d.state = "CHECKING" /\ out.d.offered = yiaddr
    BY <1>3, <2>4, <2>5 DEF Tied, Counts
  <2> QED BY <1>3, <2>6 DEF out
<1>4. CASE type = "ACK" /\ d.state # "REQUESTING" /\ Awaited(d, type)
  <2>1. out = Silent(Bind(d))
    BY <1>4 DEF Receive
  <2>2. out.d = Bind(d) /\ out.newXid = FALSE /\ out.msgs = {}
    BY <2>1 DEF Silent
  <2>3. d.state # "BOUND"
    BY <1>4 DEF Awaited
  <2> HIDE DEF out
  <2>4. /\ Tied(d, out) /\ Counts(out.d) /\ out.d.state = "BOUND" /\ out.d.ip = yiaddr
        /\ Rest(out.d) <= LeaseTime
    BY <1>4, <2>2, BindCounts DEF Tied
  <2> QED BY <1>4, <2>3, <2>4 DEF out
<1>5. CASE type = "NAK" /\ Awaited(d, type)
  <2>1. out = HandleNak(d)
    BY <1>5 DEF Receive
  <2> QED BY <2>1, HandleNakTied
<1> QED BY <1>1, <1>2, <1>3, <1>4, <1>5

\* dhcp_network_changed: the address has to be confirmed again.
LEMMA NetworkChangedTied ==
  ASSUME NEW d, Typed(d)
  PROVE  LET out == NetworkChanged(d)
         IN  /\ Elsewhere(out)
             /\ \A m \in out.msgs : m.type = "REQUEST" => /\ m.req = out.d.offered
                                                          /\ out.d.state # "SELECTING"
             /\ \A m \in out.msgs : m.type \in {"REQUEST", "DISCOVER"}
<1>1. CASE d.state \in {"REBINDING", "RENEWING", "BOUND", "REBOOTING"}
  <2> DEFINE e == [d EXCEPT !.up = FALSE, !.tries = 0]
  <2>1. Typed(e)
    <3>1. 0 \in 0 .. TriesMod - 1
      BY Constants
    <3> QED BY <3>1 DEF Typed, Client
  <2>2. NetworkChanged(d) = Reboot(e)
    BY <1>1 DEF NetworkChanged
  <2> HIDE DEF e
  <2>3. Tied(e, Reboot(e)) /\ Elsewhere(Reboot(e))
    BY <2>1, AskTied
  <2>4. \A m \in Reboot(e).msgs : m.type = "REQUEST"
    BY DEF Reboot, Sent, Message
  <2> QED BY <2>2, <2>3, <2>4 DEF Tied
<1>2. CASE d.state = "OFF"
  BY <1>2 DEF NetworkChanged, Silent, Elsewhere
<1>3. CASE d.state \in {"SELECTING", "REQUESTING", "CHECKING", "BACKING_OFF"}
  <2> DEFINE e == [d EXCEPT !.tries = 0]
  <2>1. Typed(e)
    BY Constants DEF Typed, Client
  <2>2. NetworkChanged(d) = Discover(e)
    BY <1>3 DEF NetworkChanged
  <2> HIDE DEF e
  <2> QED BY <2>1, <2>2, DiscoverTied
<1> QED BY <1>1, <1>2, <1>3 DEF Typed, Client, States
\* What is in the air after a station has run one function.
LEMMA AirKept ==
  ASSUME NetInv, InAir, NEW c \in Clients, NEW out, Fine(out), NEW m0,
         Does(c, out, m0), Tied(cl[c], out), UNCHANGED <<plist, assoc>>
  PROVE  InAir'
<1> DEFINE old == IF out.newXid THEN {[m EXCEPT !.stale = TRUE] : m \in Of(c)} ELSE Of(c)
           new == {[type |-> m.type, mac |-> c, ciaddr |-> m.ciaddr, req |-> m.req,
                    stale |-> FALSE] : m \in out.msgs}
           Right(m) == /\ Granting(m)' /\ Matching(m)' /\ m.mac \in assoc'
                       /\ m.type = "RELEASE" => m.ciaddr = NoIp
<1>1. \A m \in net' : \/ m \in net /\ m \notin Of(c)
                      \/ m \in old
                      \/ m \in new /\ c \in assoc
  BY DEF Does, Air
<1>2. \A x \in Clients : cl'[x] = IF x = c THEN out.d ELSE cl[x]
  BY DEF Does, NetInv, ClientsLive
<1>3. \A m \in net : /\ Granting(m) /\ Matching(m) /\ m.mac \in assoc /\ m.mac \in Clients
                     /\ m.type = "RELEASE" => m.ciaddr = NoIp
                     /\ m \in Request \cup Answers
  BY DEF InAir, NetInv, NetTyped, Request, Answers
<1>4. ASSUME NEW m \in net, m \notin Of(c) PROVE Right(m)
  <2>1. m.mac # c
    BY <1>4 DEF Of
  <2> QED BY <1>2, <1>3, <2>1 DEF Granting, Matching
<1>5. ASSUME NEW m \in Of(c), out.newXid PROVE Right([m EXCEPT !.stale = TRUE])
  <2>1. PICK x : x = [m EXCEPT !.stale = TRUE]
    OBVIOUS
  <2>2. m \in net /\ m.mac = c
    BY DEF Of
  <2>3. /\ x.stale = TRUE /\ x.type = m.type /\ x.mac = m.mac
        /\ m.type \in {"OFFER", "ACK", "NAK"} => x.yiaddr = m.yiaddr
        /\ m.type = "RELEASE" => x.ciaddr = m.ciaddr
    BY <1>3, <2>1, <2>2 DEF Request, Answers
  <2>4. Right(x)
    BY <1>3, <2>2, <2>3 DEF Granting, Matching
  <2> QED BY <2>1, <2>4
<1>6. ASSUME NEW m \in Of(c), ~out.newXid PROVE Right(m)
  <2>1. m \in net /\ m.mac = c
    BY DEF Of
  <2>2. cl[c].state = "SELECTING" \/ (out.d.offered = cl[c].offered /\ out.d.state # "SELECTING")
    BY <1>6 DEF Tied
  <2>3. Matching(m)'
    <3> SUFFICES ASSUME ~m.stale, m.type \in {"REQUEST", "ACK"}
                 PROVE  /\ cl'[m.mac].state # "SELECTING"
                        /\ (IF m.type = "ACK" THEN m.yiaddr ELSE m.req) = cl'[m.mac].offered
      BY DEF Matching
    <3>1. /\ cl[c].state # "SELECTING"
          /\ (IF m.type = "ACK" THEN m.yiaddr ELSE m.req) = cl[c].offered
      BY <1>3, <2>1 DEF Matching
    <3>2. cl'[m.mac] = out.d
      BY <1>2, <2>1
    <3> QED BY <2>2, <3>1, <3>2
  <2> QED BY <1>3, <2>1, <2>3 DEF Granting
<1>7. ASSUME NEW m \in out.msgs, c \in assoc
      PROVE  Right([type |-> m.type, mac |-> c, ciaddr |-> m.ciaddr, req |-> m.req,
                    stale |-> FALSE])
  <2>1. PICK x : x = [type |-> m.type, mac |-> c, ciaddr |-> m.ciaddr, req |-> m.req,
                      stale |-> FALSE]
    OBVIOUS
  <2>2. /\ x.type = m.type /\ x.mac = c /\ x.ciaddr = m.ciaddr /\ x.req = m.req
        /\ x.stale = FALSE
    BY <2>1
  <2>3. /\ m.type # "ACK"
        /\ m.type = "REQUEST" => m.req = out.d.offered /\ out.d.state # "SELECTING"
        /\ m.type = "RELEASE" => m.ciaddr = NoIp
    BY DEF Fine, Asked, Tied
  <2>4. cl'[c] = out.d
    BY <1>2
  <2>5. Matching(x)'
    BY <2>2, <2>3, <2>4 DEF Matching
  <2>6. Granting(x)'
    BY <2>2, <2>3 DEF Granting
  <2> QED BY <1>7, <2>1, <2>2, <2>3, <2>5, <2>6
<1>8. ASSUME NEW m \in net' PROVE Right(m)
  <2>1. CASE m \in net /\ m \notin Of(c)
    BY <1>4, <2>1
  <2>2. CASE m \in old
    <3>1. CASE out.newXid
      BY <1>5, <2>2, <3>1
    <3>2. CASE ~out.newXid
      BY <1>6, <2>2, <3>2
    <3> QED BY <3>1, <3>2
  <2>3. CASE m \in new /\ c \in assoc
    BY <1>7, <2>3
  <2> QED BY <1>1, <2>1, <2>2, <2>3
<1> QED BY <1>8 DEF InAir

\* A station that runs one function, when its own lease is still good for it.
LEMMA DoesBacks ==
  ASSUME LeaseInv, NetInv', NEW c \in Clients, NEW out, Fine(out), NEW m0,
         Does(c, out, m0), Tied(cl[c], out), UNCHANGED <<plist, assoc, maxtry>>,
         \A x \in Clients : x # c => Behind(x)' = Behind(x),
         Counts(out.d), c \in assoc => Backed(c)'
  PROVE  LeaseInv'
<1>1. InAir'
  BY AirKept DEF LeaseInv
<1>2. \A x \in Clients : cl'[x] = IF x = c THEN out.d ELSE cl[x]
  BY DEF Does, LeaseInv, NetInv, ClientsLive
<1>3. \A x \in Clients : Counts(cl'[x])
  BY <1>2 DEF LeaseInv
<1>4. ASSUME NEW x \in assoc', x # c PROVE Backed(x)'
  <2>1. x \in Clients /\ Backed(x)
    BY DEF LeaseInv, NetInv, Books
  <2>2. x \in late' <=> x \in late
    BY <1>4 DEF Does
  <2>3. cl'[x] = cl[x] /\ Behind(x)' = Behind(x)
    BY <1>2, <1>4, <2>1
  <2>4. plist' = plist /\ maxtry' = maxtry
    OBVIOUS
  <2> QED BY <2>1, <2>2, <2>3, <2>4, Zenon DEF Backed, Late, Lag, AtLimit
<1>5. \A x \in assoc' : Backed(x)'
  BY <1>4
<1>6. \A x \in Clients : Counts(cl[x])'
  BY <1>3 DEF Counts
<1> QED BY <1>1, <1>5, <1>6 DEF LeaseInv
\* A lease that is safe for long is safe for less.
LEMMA SafeLess ==
  ASSUME Inv, NEW c, NEW k \in Int, NEW l \in Int, l <= k, Safe(plist, c, k)
  PROVE  Safe(plist, c, l)
  BY DEF Safe, Inv, Good, Lease

LEMMA LagIs ==
  ASSUME NEW c
  PROVE  Lag(c) \in {1, 2} /\ Late(c) \in {0, 1}
  BY DEF Lag, Late

\* A station that does not come to CHECKING or BOUND needs no lease.
LEMMA NeedsNone ==
  ASSUME NEW c, cl'[c].state \notin {"CHECKING", "BOUND"}
  PROVE  Backed(c)'
  BY DEF Backed

\* Nothing but the clock of c's timers moves.
LEMMA SameClock ==
  ASSUME UNCHANGED turn
  PROVE  \A x \in Clients : Behind(x)' = Behind(x)
  BY DEF Behind, Spot

LEMMA StationBacks ==
  ASSUME LeaseInv, NetInv', LongLease, NEW c \in Clients,
         \/ Start(c) \/ Stop(c) \/ FineTmr(c) \/ ClientTick(c) \/ ArpReply(c)
  PROVE  LeaseInv'
<1>1. PICK d : d = cl[c]
  OBVIOUS
<1>2. Live(d) /\ Typed(d) /\ d \in Client /\ Counts(d)
  BY <1>1 DEF LeaseInv, NetInv, ClientsLive, Live
<1>3. /\ ClientsLive /\ NetTyped /\ Books /\ Inv
      /\ c \in assoc => Backed(c)
  BY DEF LeaseInv, NetInv
<1>5. CASE Start(c)
  <2> DEFINE e == [Fresh EXCEPT !.ip = d.ip, !.up = d.up]
  <2>1. Does(c, Discover(e), {}) /\ UNCHANGED <<plist, assoc, turn, maxtry>>
    BY <1>1, <1>5 DEF Start
  <2>2. Typed(e) /\ e.state = "OFF"
    BY <1>2, RestartTyped DEF Client
  <2> HIDE DEF e
  <2>3. Fine(Discover(e)) /\ Tied(d, Discover(e)) /\ Elsewhere(Discover(e))
    BY <2>2, DiscoverFine, DiscoverIsTied
  <2>4. cl'[c] = Discover(e).d
    BY <1>3, <2>1 DEF Does, ClientsLive
  <2>5. Backed(c)' /\ Counts(Discover(e).d)
    BY <2>3, <2>4, NeedsNone DEF Elsewhere, Counts
  <2> QED BY <1>1, <2>1, <2>3, <2>5, SameClock, DoesBacks
<1>6. CASE Stop(c)
  <2>1. d.state # "OFF" /\ Does(c, Release(d), {}) /\ UNCHANGED <<plist, assoc, turn, maxtry>>
    BY <1>1, <1>6 DEF Stop
  <2>2. Fine(Release(d)) /\ Tied(d, Release(d)) /\ Elsewhere(Release(d))
    BY <1>2, <2>1, ReleaseFine, ReleaseTied
  <2>3. cl'[c] = Release(d).d
    BY <1>3, <2>1 DEF Does, ClientsLive
  <2>4. Backed(c)' /\ Counts(Release(d).d)
    BY <2>2, <2>3, NeedsNone DEF Elsewhere, Counts
  <2> QED BY <1>1, <2>1, <2>2, <2>4, SameClock, DoesBacks
<1>7. CASE FineTmr(c)
  <2>1. PICK e : e = [d EXCEPT !.armed = FALSE]
    OBVIOUS
  <2>2. PICK out : out = Timeout(e)
    OBVIOUS
  <2>3. Does(c, out, {}) /\ UNCHANGED <<plist, assoc, turn, maxtry>> /\ ~AtLimit(c)
    BY <1>1, <1>7, <2>1, <2>2 DEF FineTmr, Runs, Idle
  <2>4. Typed(e) /\ Alike(d, e) /\ e.up = d.up
    BY <1>2, <2>1 DEF Typed, Client, Alike
  <2>5. Fine(out)
    BY <1>2, <2>2, <2>4, TimeoutFine DEF Live, Waits, Alike, Covers
  <2>6. /\ Tied(d, out)
        /\ \/ Elsewhere(out)
           \/ Alike(d, out.d)
           \/ /\ d.state = "CHECKING" /\ out.d.state = "BOUND" /\ Counts(out.d)
              /\ out.d.ip = d.offered /\ Rest(out.d) <= LeaseTime
    BY <1>2, <2>2, <2>4, TimeoutTied
  <2>7. cl'[c] = out.d
    BY <1>3, <2>3 DEF Does, ClientsLive
  <2>8. Behind(c)' = Behind(c) /\ plist' = plist
    BY <2>3, SameClock
  <2>9. CASE Elsewhere(out)
    <3>1. Backed(c)' /\ Counts(out.d)
      BY <2>7, <2>9, NeedsNone DEF Elsewhere, Counts
    <3> QED BY <1>1, <2>3, <2>5, <2>6, <3>1, SameClock, DoesBacks
  <2>10. CASE Alike(d, out.d)
    <3>1. Counts(out.d)
      BY <1>2, <2>10 DEF Counts, Alike
    <3>2. c \in late' <=> c \in late
      BY <1>1, <2>3, <2>10 DEF Does, Alike
    <3>3. c \in assoc => Backed(c)'
      BY <1>1, <1>3, <2>3, <2>7, <2>8, <2>10, <3>2, Zenon
         DEF Backed, Alike, Late, Lag, Rest
    <3> QED BY <1>1, <2>3, <2>5, <2>6, <3>1, <3>3, SameClock, DoesBacks
  <2>11. CASE /\ d.state = "CHECKING" /\ out.d.state = "BOUND" /\ Counts(out.d)
              /\ out.d.ip = d.offered /\ Rest(out.d) <= LeaseTime
    <3>1. ASSUME c \in assoc, out.d.ip # NoIp PROVE Safe(plist, c, Rest(out.d) - Lag(c))
      <4>1. Safe(plist, c, LeaseTime - Late(c))
        BY <1>1, <1>3, <2>3, <2>11, <3>1 DEF Backed
      <4>2. Rest(out.d) \in Int /\ LeaseTime \in Int
        BY <2>5, Constants DEF Rest, Fine, Live, Typed, Client
      <4>3. PICK k \in Int : k = LeaseTime - Late(c)
        BY <4>2, LagIs
      <4>4. PICK l \in Int : l = Rest(out.d) - Lag(c)
        BY <4>2, LagIs
      <4>5. l <= k
        BY <2>11, <4>2, <4>3, <4>4, LagIs
      <4> QED BY <1>3, <4>1, <4>3, <4>4, <4>5, SafeLess
    <3>2. Lag(c)' = Lag(c)
      BY <2>8, Zenon DEF Lag
    <3>3. c \in assoc => Backed(c)'
      BY <2>7, <2>8, <2>11, <3>1, <3>2 DEF Backed
    <3> QED BY <1>1, <2>3, <2>5, <2>6, <2>11, <3>3, SameClock, DoesBacks
  <2> QED BY <2>6, <2>9, <2>10, <2>11
<1>8. CASE ClientTick(c)
  <2>1. PICK out : out = Coarse(d)
    OBVIOUS
  <2>2. Tick(c) /\ Does(c, out, {}) /\ UNCHANGED <<plist, assoc, maxtry>>
    BY <1>1, <1>8, <2>1 DEF ClientTick
  <2>3. turn \in 1 .. Len(Phases)
    BY <1>3 DEF Books
  <2>4. /\ Behind(c) /\ ~Behind(c)'
        /\ \A x \in Clients : x # c => Behind(x)' = Behind(x)
    BY <2>2, <2>3, TickMoves, NetAssumption
  <2>5. Fine(out)
    BY <1>2, <2>1, CoarseFine DEF Covers
  <2>6. /\ Tied(d, out)
        /\ \/ Elsewhere(out)
           \/ /\ out.d.state = d.state /\ out.d.offered = d.offered
              /\ out.d.ip = d.ip /\ out.d.t0 = d.t0 /\ Counts(out.d)
              /\ out.d.tries = d.tries
              /\ d.state = "BOUND" => d.t0 # 0 /\ out.d.t2 = d.t2 - 1
    BY <1>2, <2>1, CoarseTied
  <2>7. cl'[c] = out.d
    BY <1>3, <2>2 DEF Does, ClientsLive
  <2>8. CASE Elsewhere(out)
    <3>1. Backed(c)' /\ Counts(out.d)
      BY <2>7, <2>8, NeedsNone DEF Elsewhere, Counts
    <3> QED BY <1>1, <2>2, <2>4, <2>5, <2>6, <3>1, DoesBacks
  <2>9. CASE /\ out.d.state = d.state /\ out.d.offered = d.offered
             /\ out.d.ip = d.ip /\ out.d.t0 = d.t0 /\ Counts(out.d)
             /\ out.d.tries = d.tries
             /\ d.state = "BOUND" => d.t0 # 0 /\ out.d.t2 = d.t2 - 1
    <3>1. Late(c)' = Late(c)
      BY <1>1, <2>2, <2>9 DEF Does, Late
    <3>2. Lag(c) = 2 /\ Lag(c)' = 1
      BY <2>4 DEF Lag
    <3>3. d.state = "BOUND" => Rest(out.d) - 1 = Rest(d) - 2
      BY <1>2, <2>9 DEF Rest, Client
    <3>4. c \in assoc => Backed(c)'
      BY <1>1, <1>3, <2>2, <2>7, <2>9, <3>1, <3>2, <3>3 DEF Backed, AtLimit
    <3> QED BY <1>1, <2>2, <2>4, <2>5, <2>6, <2>9, <3>4, DoesBacks
  <2> QED BY <2>6, <2>8, <2>9
<1>9. CASE ArpReply(c)
  <2>1. d.state = "CHECKING" /\ Does(c, Decline(d), {}) /\ UNCHANGED <<plist, assoc, turn, maxtry>>
    BY <1>1, <1>9 DEF ArpReply, Idle
  <2>3. Fine(Decline(d)) /\ Tied(d, Decline(d)) /\ Elsewhere(Decline(d))
    BY <1>2, <2>1, DeclineFine, DeclineTied
  <2>4. cl'[c] = Decline(d).d
    BY <1>3, <2>1 DEF Does, ClientsLive
  <2>5. Backed(c)' /\ Counts(Decline(d).d)
    BY <2>3, <2>4, NeedsNone DEF Elsewhere, Counts
  <2> QED BY <1>1, <2>1, <2>3, <2>5, SameClock, DoesBacks
<1> QED BY <1>5, <1>6, <1>7, <1>8, <1>9

\* The lease of a station that receives is what the ACK says, or was good.
LEMMA ReceiveBacks ==
  ASSUME LeaseInv, NetInv', LongLease, NEW m \in net, ClientReceives(m)
  PROVE  LeaseInv'
<1>1. PICK c : c = m.mac
  OBVIOUS
<1>2. PICK d : d = cl[c]
  OBVIOUS
<1>3. PICK out : out = IF m.stale THEN Silent(d)
                       ELSE Receive(d, m.type, m.yiaddr, LeaseTime)
  OBVIOUS
<1>4. Does(c, out, {m}) /\ UNCHANGED <<plist, assoc, turn, maxtry>>
  BY <1>1, <1>2, <1>3 DEF ClientReceives, Idle
<1>5. m \in Answers
  BY DEF ClientReceives, Up, LeaseInv, NetInv, NetTyped, Request, Answers
<1>6. c \in Clients /\ m.type \in {"OFFER", "ACK", "NAK"} /\ m.yiaddr \in Ciaddr
  BY <1>1, <1>5 DEF Answers
<1>7. Live(d) /\ Typed(d) /\ d \in Client /\ Counts(d)
  BY <1>2, <1>6 DEF LeaseInv, NetInv, ClientsLive, Live
<1>8. /\ Inv /\ ClientsLive
      /\ c \in assoc => Backed(c)
      /\ Granting(m) /\ Matching(m)
  BY <1>6 DEF LeaseInv, NetInv, InAir
<1>9. Fine(out)
  BY <1>3, <1>6, <1>7, SilentFine, ReceiveFine DEF Covers
<1>10. cl'[c] = out.d
  BY <1>4, <1>6, <1>8 DEF Does, ClientsLive
<1>11. Behind(c)' = Behind(c) /\ plist' = plist
  BY <1>4, <1>6, SameClock
<1>12. \/ Tied(d, out) /\ out.d = d
       \/ Tied(d, out) /\ Elsewhere(out)
       \/ /\ Tied(d, out)
          /\ m.type = "ACK" /\ Counts(out.d) /\ out.d.state # d.state
          /\ \/ out.d.state = "CHECKING" /\ out.d.offered = m.yiaddr
             \/ /\ out.d.state = "BOUND" /\ out.d.ip = m.yiaddr
                /\ Rest(out.d) <= LeaseTime
  <2>1. CASE m.stale
    BY <1>3, <2>1, SilentTied
  <2>2. CASE ~m.stale
    <3>1. m.type = "ACK" => m.yiaddr = d.offered
      BY <1>1, <1>2, <1>8, <2>2 DEF Matching
    <3> QED BY <1>3, <1>6, <1>7, <2>2, <3>1, ReceiveTied
  <2> QED BY <2>1, <2>2
<1>13. CASE Tied(d, out) /\ out.d = d
  <2>1. c \in late' <=> c \in late
    BY <1>2, <1>4, <1>13 DEF Does
  <2>2. c \in assoc => Backed(c)'
    BY <1>2, <1>4, <1>8, <1>10, <1>11, <1>13, <2>1, Zenon DEF Backed, Late, Lag, AtLimit
  <2> QED BY <1>2, <1>4, <1>6, <1>7, <1>9, <1>13, <2>2, SameClock, DoesBacks
<1>14. CASE Tied(d, out) /\ Elsewhere(out)
  <2>1. Backed(c)' /\ Counts(out.d)
    BY <1>10, <1>14, NeedsNone DEF Elsewhere, Counts
  <2> QED BY <1>2, <1>4, <1>6, <1>9, <1>14, <2>1, SameClock, DoesBacks
<1>15. CASE /\ Tied(d, out)
            /\ m.type = "ACK" /\ Counts(out.d) /\ out.d.state # d.state
            /\ \/ out.d.state = "CHECKING" /\ out.d.offered = m.yiaddr
               \/ /\ out.d.state = "BOUND" /\ out.d.ip = m.yiaddr
                  /\ Rest(out.d) <= LeaseTime
  <2>1. m.yiaddr # NoIp => Safe(plist, c, LeaseTime)
    BY <1>1, <1>8, <1>15 DEF Granting
  <2>2. Late(c)' = 0
    BY <1>2, <1>4, <1>15 DEF Does, Late
  <2>3. LeaseTime \in Int /\ LeaseTime - 0 = LeaseTime
    BY Constants
  <2>4. CASE out.d.state = "CHECKING" /\ out.d.offered = m.yiaddr
    <3>1. Backed(c)'
      BY <1>10, <1>11, <2>1, <2>2, <2>3, <2>4 DEF Backed
    <3> QED BY <1>2, <1>4, <1>6, <1>9, <1>15, <3>1, SameClock, DoesBacks
  <2>5. CASE /\ out.d.state = "BOUND" /\ out.d.ip = m.yiaddr
             /\ Rest(out.d) <= LeaseTime
    <3>1. ASSUME m.yiaddr # NoIp PROVE Safe(plist, c, Rest(out.d) - Lag(c))
      <4>1. Rest(out.d) \in Int
        BY <1>9, Constants DEF Rest, Fine, Live, Typed, Client
      <4>2. PICK l \in Int : l = Rest(out.d) - Lag(c)
        BY <4>1, LagIs
      <4>3. l <= LeaseTime
        BY <2>3, <2>5, <4>1, <4>2, LagIs
      <4> QED BY <1>8, <2>1, <2>3, <3>1, <4>2, <4>3, SafeLess
    <3>2. Lag(c)' = Lag(c)
      BY <1>11, Zenon DEF Lag
    <3>3. Backed(c)'
      BY <1>10, <1>11, <2>5, <3>1, <3>2 DEF Backed
    <3> QED BY <1>2, <1>4, <1>6, <1>9, <1>15, <3>3, SameClock, DoesBacks
  <2> QED BY <1>15, <2>4, <2>5
<1> QED BY <1>12, <1>13, <1>14, <1>15

\* A step of the others: they leave the clients as they are, the leases of the
\* stations that are there at least as good, and put nothing wrong in the air.
LEMMA OthersBack ==
  ASSUME LeaseInv, UNCHANGED <<cl, turn, late, maxtry>>, assoc' \subseteq assoc,
         \A m \in net' : /\ m.mac \in assoc'
                         /\ \/ m \in net
                            \/ /\ Granting(m)' /\ Matching(m)
                               /\ m.type = "RELEASE" => m.ciaddr = NoIp,
         \A c \in assoc' : \A k \in Int :
           k <= LeaseTime /\ Safe(plist, c, k) => Safe(plist', c, k),
         NetInv'
  PROVE  LeaseInv'
<1>1. LeaseTime \in Int /\ LeaseTime <= LeaseTime
  BY Constants
<1>2. ASSUME NEW m \in net'
      PROVE  /\ Granting(m)' /\ Matching(m)' /\ m.mac \in assoc'
             /\ m.type = "RELEASE" => m.ciaddr = NoIp
  <2>1. Matching(m) => Matching(m)'
    BY DEF Matching
  <2>2. CASE m \in net
    <3>1. Granting(m) /\ Matching(m) /\ (m.type = "RELEASE" => m.ciaddr = NoIp)
      BY <2>2 DEF LeaseInv, InAir
    <3>2. m.mac \in assoc'
      BY <1>2
    <3>3. Safe(plist, m.mac, LeaseTime) => Safe(plist', m.mac, LeaseTime)
      BY <1>1, <3>2
    <3>4. Granting(m)'
      BY <3>1, <3>3, <2>2 DEF Granting, LeaseInv, InAir
    <3> QED BY <2>1, <2>2, <3>2, <3>4 DEF LeaseInv, InAir
  <2>3. CASE m \notin net
    BY <1>2, <2>1, <2>3
  <2> QED BY <2>2, <2>3
<1>3. ASSUME NEW c \in assoc' PROVE Backed(c)'
  <2>1. c \in assoc /\ c \in Clients /\ Backed(c)
    BY DEF LeaseInv, NetInv, Books
  <2>2. Late(c)' = Late(c) /\ Lag(c)' = Lag(c)
    <3>1. Behind(c)' = Behind(c)
      BY <2>1, SameClock
    <3>2. late' = late
      OBVIOUS
    <3> QED BY <3>1, <3>2, Zenon DEF Late, Lag
  <2>3. cl'[c] = cl[c] /\ cl[c] \in Client /\ maxtry' = maxtry
    BY <2>1 DEF LeaseInv, NetInv, ClientsLive
  <2>4. Rest(cl[c]) \in Int /\ Rest(cl[c]) <= LeaseTime
    BY <1>1, <2>3 DEF Rest, Client
  <2>5. PICK k \in Int : k = LeaseTime - Late(c) /\ k <= LeaseTime
    BY <1>1, LagIs
  <2>6. PICK l \in Int : l = Rest(cl[c]) - Lag(c) /\ l <= LeaseTime
    BY <1>1, <2>4, LagIs
  <2>7. /\ Safe(plist, c, LeaseTime - Late(c)) => Safe(plist', c, LeaseTime - Late(c))
        /\ Safe(plist, c, Rest(cl[c]) - Lag(c)) => Safe(plist', c, Rest(cl[c]) - Lag(c))
    BY <1>3, <2>5, <2>6
  <2> QED BY <2>1, <2>2, <2>3, <2>7 DEF Backed, AtLimit
<1>4. InAir'
  BY <1>2 DEF InAir
<1>5. \A c \in Clients : Counts(cl[c])'
  BY DEF LeaseInv
<1> QED BY <1>3, <1>4, <1>5 DEF LeaseInv

\* No lease is for the address that says there is none.
LEMMA NoLeaseForNone ==
  ASSUME Inv, NEW mac \in Mac, NEW ciaddr \in Ciaddr
  PROVE  \A n \in UpdatedPool(mac, ciaddr) : n.ip # NoIp
  BY UpdateGood, Addresses DEF Good, InRange

\* A message renews or moves the lease of its sender, or is refused; a RELEASE
\* claims no address, and so ends no lease.
LEMMA ServerBacks ==
  ASSUME LeaseInv, NetInv', NEW m \in net, ServerReceives(m)
  PROVE  LeaseInv'
<1>1. /\ UNCHANGED <<cl, turn, late, maxtry>> /\ assoc' = assoc
      /\ plist' = PoolAfter(m) /\ net' = (net \ {m}) \cup Reply(m)
  BY DEF ServerReceives
<1>2. m \in Request
  BY DEF ServerReceives, Up, LeaseInv, NetInv, NetTyped, Request, Answers
<1>3. /\ Inv /\ m.mac \in Mac /\ m.ciaddr \in Ciaddr /\ m.type \notin {"OFFER", "ACK", "NAK"}
      /\ m.mac \in assoc /\ Matching(m)
      /\ m.type = "RELEASE" => m.ciaddr = NoIp
  BY <1>2, NetAssumption DEF LeaseInv, NetInv, InAir, Request
<1>4. ASSUME NEW c \in assoc', NEW k \in Int, k <= LeaseTime, Safe(plist, c, k)
      PROVE  Safe(plist', c, k)
  <2>1. Safe(UpdatedPool(m.mac, m.ciaddr), c, k)
    BY <1>3, <1>4, UpdateSafe
  <2>2. CASE m.type = "RELEASE"
    <3>1. \A n \in UpdatedPool(m.mac, m.ciaddr) : n.ip # m.ciaddr
      BY <1>3, <2>2, NoLeaseForNone
    <3>2. Safe(LeftPool(UpdatedPool(m.mac, m.ciaddr), m.mac, m.ciaddr, TRUE), c, k)
      BY <2>1, <3>1, LeaveSafe
    <3> QED BY <1>1, <2>2, <3>2 DEF PoolAfter
  <2>3. CASE m.type # "RELEASE"
    BY <1>1, <2>1, <2>3 DEF PoolAfter
  <2> QED BY <2>2, <2>3
<1>5. ASSUME NEW x \in Reply(m)
      PROVE  /\ x.mac \in assoc' /\ x.type # "RELEASE"
             /\ Granting(x)' /\ Matching(x)
  <2>1. PICK ip : ip = UpdatedIp(m.mac, m.ciaddr)
    OBVIOUS
  <2>2. PICK type \in {"OFFER", "ACK", "NAK"} :
          /\ x = Answer(type, m, ip)
          /\ type = "ACK" => m.type = "REQUEST" /\ m.req = ip
    BY <1>2, <2>1 DEF Reply, Request
  <2>3. x.type = type /\ x.mac = m.mac /\ x.yiaddr = ip /\ x.stale = m.stale
    BY <2>2 DEF Answer
  <2>4. Matching(x)
    BY <1>3, <2>2, <2>3 DEF Matching
  <2>5. ASSUME type = "ACK", ip # NoIp PROVE Safe(plist', m.mac, LeaseTime)
    <3>1. ~Refused(m.mac, m.ciaddr)
      BY <2>1, <2>5 DEF UpdatedIp
    <3>2. Granted(m.mac, m.ciaddr) \in plist'
      BY <1>1, <2>2, <2>5, <3>1 DEF PoolAfter, UpdatedPool
    <3>3. /\ Granted(m.mac, m.ciaddr).mac = m.mac /\ Granted(m.mac, m.ciaddr).state = "ONLINE"
          /\ Granted(m.mac, m.ciaddr).lease_timer >= LeaseTime
      BY Constants DEF Granted
    <3> QED BY <3>2, <3>3 DEF Safe
  <2>6. Granting(x)'
    BY <2>3, <2>5 DEF Granting
  <2> QED BY <1>1, <1>3, <2>2, <2>3, <2>4, <2>6
<1>6. ASSUME NEW x \in net'
      PROVE  /\ x.mac \in assoc'
             /\ \/ x \in net
                \/ /\ Granting(x)' /\ Matching(x)
                   /\ x.type = "RELEASE" => x.ciaddr = NoIp
  BY <1>1, <1>5 DEF LeaseInv, InAir
<1> QED BY <1>1, <1>4, <1>6, OthersBack

\* A station that is not ours takes nobody's lease.
LEMMA OtherBacks ==
  ASSUME LeaseInv, NetInv', NEW mac \in Mac \ Clients, OtherStation(mac)
  PROVE  LeaseInv'
<1>1. UNCHANGED <<cl, net, assoc, turn, late, maxtry>>
  BY DEF OtherStation
<1>2. Inv /\ assoc \subseteq Clients
  BY DEF LeaseInv, NetInv, Books
<1>3. ASSUME NEW c \in assoc', NEW k \in Int, k <= LeaseTime, Safe(plist, c, k)
      PROVE  Safe(plist', c, k)
  <2>1. c # mac
    BY <1>1, <1>2
  <2>2. CASE \E ciaddr \in Ciaddr : Update(mac, ciaddr)
    BY <1>2, <1>3, <2>2, UpdateSafe DEF Update
  <2>3. CASE \E ciaddr \in Ciaddr \ {NoIp} : Released(mac, ciaddr)
    BY <1>2, <1>3, <2>1, <2>3, UpdateSafe, LeaveSafe DEF Released
  <2>4. CASE \E n \in LeaseOf(mac) : ClientLeave(mac, n.ip, FALSE)
    BY <1>3, <2>1, <2>4, LeaveSafe DEF ClientLeave
  <2> QED BY <2>2, <2>3, <2>4 DEF OtherStation
<1>4. \A m \in net' : m \in net /\ m.mac \in assoc'
  BY <1>1 DEF LeaseInv, InAir
<1> QED BY <1>1, <1>3, <1>4, OthersBack

\* A station that leaves takes its own lease at most, and its messages.
LEMMA LeaveBacks ==
  ASSUME LeaseInv, NetInv', NEW c \in Clients, Leave(c)
  PROVE  LeaseInv'
<1>1. /\ UNCHANGED <<cl, turn, late, maxtry>> /\ assoc' = assoc \ {c}
      /\ net' = net \ Of(c)
      /\ UNCHANGED plist \/ \E n \in LeaseOf(c) : ClientLeave(c, n.ip, FALSE)
  BY DEF Leave
<1>2. ASSUME NEW x \in assoc', NEW k \in Int, k <= LeaseTime, Safe(plist, x, k)
      PROVE  Safe(plist', x, k)
  <2>1. x # c
    BY <1>1
  <2>2. CASE UNCHANGED plist
    BY <1>2, <2>2
  <2>3. CASE \E n \in LeaseOf(c) : ClientLeave(c, n.ip, FALSE)
    BY <1>2, <2>1, <2>3, LeaveSafe DEF ClientLeave
  <2> QED BY <1>1, <2>2, <2>3
<1>3. \A m \in net' : m \in net /\ m.mac \in assoc'
  BY <1>1 DEF LeaseInv, InAir, Of
<1> QED BY <1>1, <1>2, <1>3, OthersBack

\* A message that is lost, and a step that is none.
LEMMA LoseBacks ==
  ASSUME LeaseInv, NetInv', (\E m \in net : Lose(m)) \/ UNCHANGED vars
  PROVE  LeaseInv'
<1>1. /\ UNCHANGED <<plist, cl, turn, late, maxtry>> /\ assoc' = assoc
      /\ net' \subseteq net
  BY DEF Lose, vars
<1>2. \A m \in net' : m \in net /\ m.mac \in assoc'
  BY <1>1 DEF LeaseInv, InAir
<1> QED BY <1>1, <1>2, OthersBack

\* A station that is back has to have its address confirmed before it is bound.
LEMMA ReturnBacks ==
  ASSUME LeaseInv, NetInv', NEW c \in Clients, Return(c)
  PROVE  LeaseInv'
<1>1. PICK out : out = NetworkChanged(cl[c])
  OBVIOUS
<1>2. /\ c \notin assoc /\ assoc' = assoc \cup {c} /\ UNCHANGED <<plist, turn, maxtry>>
      /\ cl' = [cl EXCEPT ![c] = out.d] /\ late' = late \ {c}
      /\ net' = net \cup {[type |-> m.type, mac |-> c, ciaddr |-> m.ciaddr,
                           req |-> m.req, stale |-> FALSE] : m \in out.msgs}
  BY <1>1 DEF Return
<1>3. /\ ClientsLive /\ Typed(cl[c]) /\ assoc \subseteq Clients
  BY DEF LeaseInv, NetInv, ClientsLive, Live, Books
<1>4. /\ Elsewhere(out)
      /\ \A m \in out.msgs : /\ m.type = "REQUEST" => m.req = out.d.offered
                                                      /\ out.d.state # "SELECTING"
                             /\ m.type \in {"REQUEST", "DISCOVER"}
  BY <1>1, <1>3, NetworkChangedTied
<1>5. \A x \in Clients : cl'[x] = IF x = c THEN out.d ELSE cl[x]
  BY <1>2, <1>3 DEF ClientsLive
<1>6. ASSUME NEW m \in net'
      PROVE  /\ Granting(m)' /\ Matching(m)' /\ m.mac \in assoc'
             /\ m.type = "RELEASE" => m.ciaddr = NoIp
  <2>1. CASE m \in net
    <3>1. /\ Granting(m) /\ Matching(m) /\ m.mac \in assoc
          /\ m.type = "RELEASE" => m.ciaddr = NoIp
      BY <2>1 DEF LeaseInv, InAir
    <3>2. m.mac # c /\ m.mac \in Clients
      BY <1>2, <1>3, <3>1
    <3> QED BY <1>2, <1>5, <3>1, <3>2 DEF Granting, Matching
  <2>2. CASE m \notin net
    <3>1. PICK x \in out.msgs :
            m = [type |-> x.type, mac |-> c, ciaddr |-> x.ciaddr, req |-> x.req,
                 stale |-> FALSE]
      BY <1>2, <2>2
    <3>2. m.type = x.type /\ m.mac = c /\ m.req = x.req
      BY <3>1
    <3>3. m.type \notin {"ACK", "RELEASE"}
      BY <1>4, <3>2
    <3>4. Matching(m)'
      BY <1>4, <1>5, <3>2, <3>3 DEF Matching
    <3> QED BY <1>2, <3>2, <3>3, <3>4 DEF Granting
  <2> QED BY <2>1, <2>2
<1>7. InAir'
  BY <1>6 DEF InAir
<1>8. ASSUME NEW x \in assoc' PROVE Backed(x)'
  <2>1. CASE x = c
    BY <1>4, <1>5, <2>1, NeedsNone DEF Elsewhere
  <2>2. CASE x # c
    <3>1. x \in assoc /\ x \in Clients /\ Backed(x) /\ cl'[x] = cl[x]
      BY <1>2, <1>3, <1>5, <2>2 DEF LeaseInv
    <3>2. Behind(x)' = Behind(x)
      BY <1>2, <3>1, SameClock
    <3>3. x \in late' <=> x \in late
      BY <1>2, <2>2
    <3>4. plist' = plist /\ maxtry' = maxtry
      BY <1>2
    <3> QED BY <3>1, <3>2, <3>3, <3>4, Zenon DEF Backed, Late, Lag, AtLimit
  <2> QED BY <2>1, <2>2
<1>9. \A x \in Clients : Counts(cl'[x])
  BY <1>4, <1>5 DEF LeaseInv, Counts, Elsewhere
<1>10. \A x \in Clients : Counts(cl[x])'
  BY <1>9 DEF Counts
<1> QED BY <1>7, <1>8, <1>10 DEF LeaseInv

\* A minute of the server: no client that counts on its lease was behind, and a
\* bound one has three minutes at least; one in a short phase sees one tick.
LEMMA ServerTickBacks ==
  ASSUME LeaseInv, NetInv', Roomy, LongLease, ServerTick
  PROVE  LeaseInv'
<1>1. /\ Tick("server") /\ plist' = AgedPool /\ net' = {} /\ UNCHANGED <<cl, assoc, maxtry>>
      /\ \A c \in late : cl[c].state \notin Brief \/ AtLimit(c)
      /\ late' = {c \in Clients : cl[c].state \in Brief}
  BY DEF ServerTick
<1>2. Inv /\ turn \in 1 .. Len(Phases) /\ assoc \subseteq Clients
  BY DEF LeaseInv, NetInv, Books
<1>3. InAir'
  BY <1>1 DEF InAir
<1>4. ASSUME NEW c \in assoc' PROVE Backed(c)'
  <2>1. c \in assoc /\ c \in Clients /\ Backed(c) /\ cl' = cl /\ Counts(cl[c])
    BY <1>1, <1>2 DEF LeaseInv
  <2>2. PICK d : d = cl[c]
    OBVIOUS
  <2>3. d \in Client /\ (d.t1 = 0 \/ d.t1 < d.t2) /\ LeaseTime \in Int /\ LeaseTime >= 4
    BY <2>1, <2>2, Constants DEF LeaseInv, NetInv, ClientsLive, Live, Typed, LongLease
  <2>4. ASSUME d.state = "CHECKING", ~AtLimit(c), d.offered # NoIp
        PROVE  Safe(plist', c, LeaseTime - Late(c)')
    <3>1. Late(c) = 0 /\ Late(c)' = 1
      BY <1>1, <2>1, <2>2, <2>4 DEF Late, Brief
    <3>2. Safe(plist, c, LeaseTime)
      <4>1. LeaseTime - 0 = LeaseTime
        BY <2>3
      <4> QED BY <2>1, <2>2, <2>4, <3>1, <4>1 DEF Backed
    <3> QED BY <1>1, <1>2, <2>3, <3>1, <3>2, AgedSafe
  <2>5. ASSUME d.state = "BOUND", d.ip # NoIp
        PROVE  Safe(plist', c, Rest(d) - Lag(c)')
    <3>1. Lag(c) = 1 /\ Lag(c)' = 2
      <4>1. ~Behind(c) /\ Behind(c)'
        BY <1>1, <1>2, <2>1, TickMoves
      <4> QED BY <4>1 DEF Lag
    <3>2. Rest(d) \in Int /\ Rest(d) >= 3
      <4>1. CASE d.t0 = 0
        BY <2>3, <4>1 DEF Rest
      <4>2. CASE d.t0 # 0
        <5>1. d.t1 > 0 /\ d.t2 = d.t1 + LeaseTime - Half(LeaseTime) /\ d.t2 \in Int /\ d.t1 \in Int
          BY <2>1, <2>2, <2>3, <2>5, <4>2 DEF Counts, Client
        <5>2. Half(LeaseTime) \in Int /\ LeaseTime - Half(LeaseTime) >= 2
          BY <2>3 DEF Half
        <5> QED BY <2>3, <4>2, <5>1, <5>2 DEF Rest
      <4> QED BY <4>1, <4>2
    <3>3. PICK k \in Int : k = Rest(d) - 1 /\ k >= 2 /\ k - 1 = Rest(d) - 2
      BY <3>2
    <3>4. Safe(plist, c, k)
      BY <2>1, <2>2, <2>5, <3>1, <3>3 DEF Backed
    <3> QED BY <1>1, <1>2, <3>1, <3>3, <3>4, AgedSafe
  <2>6. AtLimit(c)' = AtLimit(c)
    BY <1>1 DEF AtLimit
  <2> QED BY <2>1, <2>2, <2>4, <2>5, <2>6 DEF Backed
<1>5. \A c \in Clients : Counts(cl[c])'
  BY <1>1 DEF LeaseInv
<1> QED BY <1>3, <1>4, <1>5 DEF LeaseInv

\* Another limit of tries, for a client that is not in its ARP check.
LEMMA SetMaxTryBacks ==
  ASSUME LeaseInv, NetInv', NEW c \in Clients, NEW n \in MaxTries, SetMaxTry(c, n)
  PROVE  LeaseInv'
<1>1. /\ UNCHANGED <<plist, cl, net, assoc, turn, late>> /\ cl[c].state # "CHECKING"
      /\ maxtry' = [maxtry EXCEPT ![c] = n] /\ maxtry \in [Clients -> MaxTries]
  BY DEF SetMaxTry, LeaseInv, NetInv, Books
<1>2. ASSUME NEW x \in assoc' PROVE Backed(x)'
  <2>1. x \in assoc /\ x \in Clients /\ Backed(x)
    BY <1>1 DEF LeaseInv, NetInv, Books
  <2>2. x = c \/ (AtLimit(x)' <=> AtLimit(x))
    BY <1>1, <2>1 DEF AtLimit
  <2>3. Late(x)' = Late(x) /\ Lag(x)' = Lag(x)
    <3>1. Behind(x)' = Behind(x)
      BY <1>1, <2>1, SameClock
    <3> QED BY <1>1, <3>1, Zenon DEF Late, Lag
  <2> QED BY <1>1, <2>1, <2>2, <2>3 DEF Backed
<1>3. \A x \in Clients : Counts(cl[x])'
  BY <1>1 DEF LeaseInv
<1>4. InAir'
  BY <1>1 DEF LeaseInv, InAir, Granting, Matching
<1> QED BY <1>2, <1>3, <1>4 DEF LeaseInv

LEMMA LeaseInit == Init => LeaseInv
<1> SUFFICES ASSUME Init PROVE LeaseInv
  OBVIOUS
<1>1. \A c \in Clients : cl[c] = Fresh
  BY DEF Init
<1>2. \A c \in Clients : cl[c].state = "OFF"
  BY <1>1 DEF Fresh
<1>3. \A c \in Clients : Counts(cl[c]) /\ Backed(c)
  BY <1>2 DEF Counts, Backed
<1>4. InAir /\ assoc = Clients
  BY DEF Init, InAir
<1> QED BY <1>3, <1>4, NetInitInv DEF LeaseInv

LEMMA LeaseNext == Roomy /\ LongLease /\ LeaseInv /\ [Next]_vars => LeaseInv'
<1> SUFFICES ASSUME Roomy, LongLease, LeaseInv, [Next]_vars PROVE LeaseInv'
  OBVIOUS
<1>1. NetInv'
  BY NetNextInv DEF LeaseInv
<1>2. ASSUME NEW c \in Clients,
             \/ Start(c) \/ Stop(c) \/ FineTmr(c) \/ ClientTick(c) \/ ArpReply(c)
      PROVE  LeaseInv'
  BY <1>1, <1>2, StationBacks
<1>3. ASSUME NEW c \in Clients, Leave(c) \/ Return(c)
      PROVE  LeaseInv'
  BY <1>1, <1>3, LeaveBacks, ReturnBacks
<1>4. CASE ServerTick
  BY <1>1, <1>4, ServerTickBacks
<1>5. ASSUME NEW mac \in Mac \ Clients, OtherStation(mac)
      PROVE  LeaseInv'
  BY <1>1, <1>5, OtherBacks
<1>6. ASSUME NEW m \in net, ServerReceives(m) \/ ClientReceives(m)
      PROVE  LeaseInv'
  BY <1>1, <1>6, ServerBacks, ReceiveBacks
<1>7. CASE (\E m \in net : Lose(m)) \/ UNCHANGED vars
  BY <1>1, <1>7, LoseBacks
<1>8. ASSUME NEW c \in Clients, NEW n \in MaxTries, SetMaxTry(c, n)
      PROVE  LeaseInv'
  BY <1>1, <1>8, SetMaxTryBacks
<1> QED BY <1>2, <1>3, <1>4, <1>5, <1>6, <1>7, <1>8 DEF Next

\* A bound client that is there has a lease, with at most two minutes less to
\* run than it counts: for leases of four minutes or more, and fewer stations
\* than the server keeps leases for.
THEOREM LeaseIsBacked ==
  ASSUME Roomy, LongLease
  PROVE  Spec => []LeaseBacked
<1>1. LeaseInv => LeaseBacked
  <2> SUFFICES ASSUME LeaseInv, NEW c \in Clients, cl[c].state = "BOUND", InUse(c)
               PROVE  \E n \in LeaseOf(c) : n.lease_timer + 2 >= cl[c].t2
    BY DEF LeaseBacked
  <2>1. Backed(c) /\ cl[c] \in Client /\ Inv /\ LeaseTime \in Int
    BY Constants DEF LeaseInv, NetInv, ClientsLive, InUse
  <2>2. PICK k : k = Rest(cl[c]) - Lag(c)
    OBVIOUS
  <2>3. k \in Int /\ k + 2 >= cl[c].t2
    BY <2>1, <2>2, LagIs DEF Rest, Client
  <2>4. PICK n \in plist : n.mac = c /\ n.lease_timer >= k
    BY <2>1, <2>2 DEF Backed, InUse, Safe
  <2>5. n \in LeaseOf(c) /\ n.lease_timer \in Int
    BY <2>1, <2>4 DEF LeaseOf, Inv, Good, Lease
  <2> QED BY <2>1, <2>3, <2>4, <2>5 DEF Client
<1> QED BY <1>1, LeaseInit, LeaseNext, PTL DEF Spec
=============================================================================
