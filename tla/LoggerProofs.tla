---------------------------- MODULE LoggerProofs ----------------------------
(***************************************************************************)
(* The logger's services start once after every boot, and its pages are    *)
(* made anew for every request: for any number of connections, any values  *)
(* of the sensor and any idle time.                                        *)
(***************************************************************************)
EXTENDS Logger, TLAPS

\* The poll runs only between start.lua and the first address, and the
\* services only after it.
Once == /\ services \in {0, 1}
        /\ polling => services = 0
        /\ phase = "booting" => services = 0 /\ ~polling

LEMMA InitOnce == Init => Once
  BY DEF Init, Once

LEMMA NextOnce == Once /\ [Next]_vars => Once'
<1> SUFFICES ASSUME Once, [Next]_vars PROVE Once'
  OBVIOUS
<1> USE DEF Once, hardware, network, web
<1>1. CASE Restart
  BY <1>1 DEF Restart, Booted
<1>1a. CASE CardMoved \/ ApChanges \/ Associate \/ LoseAddress
  <2>1. UNCHANGED <<phase, polling, services>>
    BY <1>1a DEF CardMoved, ApChanges, Associate, LoseAddress
  <2> QED BY <2>1
<1>2. CASE ForceVdd33
  BY <1>2 DEF ForceVdd33, Booted
<1>3. CASE Start
  BY <1>3 DEF Start
<1>4. CASE WifiPoll
  BY <1>4 DEF WifiPoll
<1>5. CASE SntpDone \/ CronTick
  <2>1. UNCHANGED <<phase, polling, services>>
    BY <1>5 DEF SntpDone, CronTick
  <2> QED BY <2>1
<1>6. CASE Web
  BY <1>6 DEF Web, Accept, Receive, ReceiveOther, Sent, TimedOut, Second
<1>7. CASE UNCHANGED vars
  BY <1>7 DEF vars
<1> QED BY <1>1, <1>1a, <1>2, <1>3, <1>4, <1>5, <1>6, <1>7 DEF Next, World

\* Losing and finding the network, restarts and the cron entry's reconnections
\* start cron.lua, sntp.lua and webserver.lua no second time.
THEOREM ServicesStartOnce == Spec => []StartsOnce
<1>1. Once => StartsOnce
  <2>1. CASE polling
    BY <2>1 DEF Once, StartsOnce
  <2>2. CASE ~polling
    BY <2>2 DEF Once, StartsOnce
  <2> QED BY <2>1, <2>2
<1> QED BY <1>1, InitOnce, NextOnce, PTL DEF Spec

-----------------------------------------------------------------------------
\* Nothing stays in package.loaded between two requests.
Unloaded == loaded = [p \in Pages |-> Nothing]

LEMMA InitUnloaded == Init => Unloaded
  BY DEF Init, Unloaded

LEMMA NextUnloaded == Unloaded /\ [Next]_vars => Unloaded'
<1> SUFFICES ASSUME Unloaded, [Next]_vars PROVE Unloaded'
  OBVIOUS
<1> USE DEF Unloaded, hardware, network, web
<1>1. CASE World
  BY <1>1 DEF World, Restart, Booted, CardMoved, ApChanges, Associate, LoseAddress
<1>2. CASE ForceVdd33 \/ Start \/ WifiPoll
  BY <1>2 DEF ForceVdd33, Booted, Start, WifiPoll
<1>3. CASE SntpDone \/ CronTick
  BY <1>3 DEF SntpDone, CronTick
<1>4. ASSUME NEW c \in Conns, NEW p \in Pages, Receive(c, p) PROVE Unloaded'
  BY <1>4 DEF Receive
<1>5. ASSUME NEW c \in Conns, Accept(c) \/ ReceiveOther(c) \/ Sent(c) \/ TimedOut(c)
      PROVE  Unloaded'
  BY <1>5 DEF Accept, ReceiveOther, Sent, TimedOut
<1>6. CASE Second
  BY <1>6 DEF Second
<1>7. CASE UNCHANGED vars
  BY <1>7 DEF vars
<1> QED BY <1>1, <1>2, <1>3, <1>4, <1>5, <1>6, <1>7 DEF Next, Web

\* So a page shows the readings and the card as they are at the request.
LEMMA StepFresh ==
  ASSUME Unloaded, NEW c \in Conns, NEW p \in Pages, Receive(c, p)
  PROVE  answer' = [reading |-> IF p = "html" THEN reading ELSE None,
                    sd |-> mounted /\ card]
  BY DEF Unloaded, Receive, Required, Made

\* A page never shows what require cached for an earlier request.
THEOREM PagesAreFresh == Spec => FreshPages
<1>1. Unloaded => [\A c \in Conns, p \in Pages :
         Receive(c, p) => answer' = [reading |-> IF p = "html" THEN reading ELSE None,
                                     sd |-> mounted /\ card]]_vars
  BY StepFresh
<1> QED BY <1>1, InitUnloaded, NextUnloaded, PTL DEF Spec, FreshPages
=============================================================================
