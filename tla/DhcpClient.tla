----------------------------- MODULE DhcpClient -----------------------------
(***************************************************************************)
(* core/dhcp.c: the DHCP client of lwIP, for one network interface.  Every *)
(* operator of the second part is one function of the file: it takes the   *)
(* client's struct dhcp and says what becomes of it, whether the exchange  *)
(* gets a new transaction number (xid) and which message is sent.          *)
(*                                                                         *)
(* A message that could not be allocated is a lost one: the functions      *)
(* count the try and start the timer in either case.                       *)
(***************************************************************************)
EXTENDS Integers

CONSTANTS RequestTries,  \* 5: dhcp_timeout gives up an offer after them,
          RebindTries,   \* 8: an address,
          RebootTries,   \* REBOOT_TRIES, 2: an earlier address
          TriesMod       \* 256: tries is a u8_t

CheckTries == 1          \* ARP queries that are repeated

ASSUME ClientAssumption ==
  /\ TriesMod \in Nat \ {0}
  /\ {RequestTries, RebindTries, RebootTries, CheckTries} \subseteq 1 .. TriesMod - 2

States == {"OFF", "SELECTING", "REQUESTING", "CHECKING", "BOUND", "RENEWING",
           "REBINDING", "REBOOTING", "BACKING_OFF"}

\* struct dhcp after dhcp_start's os_memset, and the interface it serves.
\* armed is request_timeout # 0; t1, t2 and t0 are in minutes, 0 for none.
Fresh == [state |-> "OFF", tries |-> 0, armed |-> FALSE, t1 |-> 0, t2 |-> 0,
          t0 |-> 0, offered |-> 0, ip |-> 0, up |-> FALSE]

-----------------------------------------------------------------------------
\* dhcp_set_state.
Enter(d, s) ==
  IF d.state = s THEN d
  ELSE [d EXCEPT !.state = s, !.tries = 0, !.armed = FALSE]

\* tries++ and a timer that grows with the tries: zero, that is off, for none.
Retry(d) ==
  LET n == (d.tries + 1) % TriesMod IN [d EXCEPT !.tries = n, !.armed = n # 0]

\* tries++ and a timer that is never zero: (tries < 6 ? 1 << tries : 60) s,
\* 500 ms or 10 s.
Again(d) == [Retry(d) EXCEPT !.armed = TRUE]

\* Mutant: the address goes and the interface stays up.
StaysUp(d) == [d EXCEPT !.ip = 0]

\* netif_set_ipaddr(netif, IP_ADDR_ANY) and netif_set_down.
NoAddress(d) == [d EXCEPT !.ip = 0, !.up = FALSE]

\* ciaddr in dhcp_create_msg.
Ci(d, type) ==
  IF \/ type = "DECLINE"
     \/ type = "REQUEST" /\ d.state \in {"RENEWING", "REBINDING"}
  THEN d.ip ELSE 0

Message(d, type) == [type |-> type, ciaddr |-> Ci(d, type), req |-> d.offered]

\* dhcp_create_msg and the sending: only a REQUEST keeps the xid, and another
\* message keeps it when it is repeated.  counted is d after the try.
Sent(d, type, counted) ==
  [d |-> counted, newXid |-> type # "REQUEST" /\ d.tries = 0,
   msgs |-> {Message(d, type)}]

Silent(d) == [d |-> d, newXid |-> FALSE, msgs |-> {}]

-----------------------------------------------------------------------------
Discover(d) ==
  LET e == Enter([d EXCEPT !.offered = 0], "SELECTING")
  IN  Sent(e, "DISCOVER", Again(e))

Select(d) == LET e == Enter(d, "REQUESTING") IN Sent(e, "REQUEST", Again(e))

DhcpRenew(d) == LET e == Enter(d, "RENEWING") IN Sent(e, "REQUEST", Retry(e))

Rebind(d) == LET e == Enter(d, "REBINDING") IN Sent(e, "REQUEST", Retry(e))

Reboot(d) == LET e == Enter(d, "REBOOTING") IN Sent(e, "REQUEST", Retry(e))

Decline(d) == LET e == Enter(d, "BACKING_OFF") IN Sent(e, "DECLINE", Again(e))

\* dhcp_check: the ARP query itself is in DhcpNet.
Check(d) == Silent(Again(Enter(d, "CHECKING")))

Release(d) ==
  LET off == [Enter(d, "OFF") EXCEPT !.offered = 0, !.t0 = 0]
  IN  Sent(off, "RELEASE", NoAddress(Retry(off)))

\* dhcp_release and then dhcp_discover: two messages, the first of an older
\* exchange.
ReleaseAndDiscover(d) ==
  LET released == Release(d)
      again    == Discover(released.d)
  IN  [again EXCEPT !.newXid = TRUE, !.msgs = again.msgs \cup released.msgs]

HandleNak(d) == Discover(Enter(NoAddress(d), "BACKING_OFF"))

\* Seconds to minutes in dhcp_bind, never 0; the lease is t0 minutes.
Half(t0) == IF t0 = 0 THEN 1 ELSE (t0 + 1) \div 2
Whole(t0) == IF t0 = 0 THEN 1 ELSE t0

\* dhcp_bind.  The server of dhcpserver.c sends neither T1 nor T2, so T1 is
\* half the lease and T2 the whole of it (dhcp_handle_ack).
Bind(d) ==
  LET t2 == Whole(d.t0)
      t1 == IF Half(d.t0) >= t2 THEN 0 ELSE Half(d.t0)
  IN  Enter([d EXCEPT !.t1 = t1, !.t2 = t2, !.ip = d.offered, !.up = TRUE], "BOUND")

-----------------------------------------------------------------------------
\* Mutant: a rebinding that got no answer is given up without a word.
TimeoutGivesUp(d) ==
  CASE d.state \in {"BACKING_OFF", "SELECTING"} -> Discover(d)
    [] d.state = "REQUESTING" ->
         IF d.tries <= RequestTries THEN Select(d) ELSE ReleaseAndDiscover(d)
    [] d.state = "CHECKING" ->
         IF d.tries <= CheckTries THEN Check(d) ELSE Silent(Bind(d))
    [] d.state = "RENEWING" -> DhcpRenew(d)
    [] d.state = "REBINDING" ->
         IF d.tries <= RebindTries THEN Rebind(d) ELSE Silent(d)
    [] d.state = "REBOOTING" ->
         IF d.tries < RebootTries THEN Reboot(d) ELSE Discover(d)
    [] d.state \in {"OFF", "BOUND"} -> Silent(d)

\* dhcp_timeout, with request_timeout already 0.
Timeout(d) ==
  CASE d.state \in {"BACKING_OFF", "SELECTING"} -> Discover(d)
    [] d.state = "REQUESTING" ->
         IF d.tries <= RequestTries THEN Select(d) ELSE ReleaseAndDiscover(d)
    [] d.state = "CHECKING" ->
         IF d.tries <= CheckTries THEN Check(d) ELSE Silent(Bind(d))
    [] d.state = "RENEWING" -> DhcpRenew(d)
    [] d.state = "REBINDING" ->
         IF d.tries <= RebindTries THEN Rebind(d) ELSE ReleaseAndDiscover(d)
    [] d.state = "REBOOTING" ->
         IF d.tries < RebootTries THEN Reboot(d) ELSE Discover(d)
    [] d.state \in {"OFF", "BOUND"} -> Silent(d)

\* A minute in dhcp_coarse_tmr.  A timer of 0 wraps and is off for the next 45
\* days, which the model takes for ever.
\* LessThanNone is a mutant: a timer of 0 counts on.
LessThanNone(t) == t - 1

Less(t) == IF t = 0 THEN 0 ELSE t - 1
MayRenew(d) == d.state \in {"REQUESTING", "BOUND", "RENEWING"}

Coarse(d) ==
  LET e == [d EXCEPT !.t2 = Less(@)]
      f == [e EXCEPT !.t1 = Less(@)]
  IN  IF d.t2 = 1 THEN (IF MayRenew(d) THEN Rebind(e) ELSE Silent(e))
      ELSE IF d.t1 = 1 THEN (IF MayRenew(d) THEN DhcpRenew(f) ELSE Silent(f))
      ELSE Silent(f)

\* What dhcp_recv does not drop.
Awaited(d, type) ==
  IF type = "OFFER" THEN d.state = "SELECTING"
  ELSE d.state \in {"REQUESTING", "REBOOTING", "REBINDING", "RENEWING"}

\* dhcp_handle_offer, dhcp_handle_ack and dhcp_check, dhcp_bind, dhcp_handle_nak,
\* chosen by dhcp_recv.  lease is what the reply grants, in minutes.
Receive(d, type, yiaddr, lease) ==
  CASE type = "OFFER" /\ d.state = "SELECTING" ->
         Select([d EXCEPT !.armed = FALSE, !.offered = yiaddr])
    [] type = "ACK" /\ d.state = "REQUESTING" ->
         Check([d EXCEPT !.t0 = lease, !.offered = yiaddr])
    [] type = "ACK" /\ d.state # "REQUESTING" /\ Awaited(d, type) ->
         Silent(Bind(d))
    [] type = "NAK" /\ Awaited(d, type) -> HandleNak(d)
    [] ~Awaited(d, type) -> Silent(d)

\* dhcp_network_changed, from netif_set_link_up.
NetworkChanged(d) ==
  CASE d.state \in {"REBINDING", "RENEWING", "BOUND", "REBOOTING"} ->
         Reboot([d EXCEPT !.up = FALSE, !.tries = 0])
    [] d.state = "OFF" -> Silent(d)
    [] d.state \in {"SELECTING", "REQUESTING", "CHECKING", "BACKING_OFF"} ->
         Discover([d EXCEPT !.tries = 0])
=============================================================================
