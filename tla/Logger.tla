------------------------------- MODULE Logger -------------------------------
(***************************************************************************)
(* The climate logger of sd-rtc-dht-http-v2: start.lua boots, waits for an *)
(* address by polling in module_wifi.lua and then starts cron.lua,         *)
(* sntp.lua and webserver.lua.  All Lua callbacks run to completion on one *)
(* thread; the firmware calls them in any order.                           *)
(*                                                                         *)
(* The firmware's modules (wifi, rtctime, cron, sntp, net, file, adc) are  *)
(* not part of the repository: they do what these scripts rely on.  What   *)
(* the scripts only print, and the outcome of http.get, are left out.      *)
(***************************************************************************)
EXTENDS Integers

CONSTANTS Conns,        \* connections to port 80
          Values,       \* what the sensor may report, for both quantities
          IdleTimeout   \* the argument of net.createServer, in seconds

ASSUME LoggerAssumption == 1 \in Values /\ IdleTimeout \in Nat \ {0}

VARIABLES
  phase,      \* "booting" until start.lua is through, then "up"
  adcMode,    \* kept in flash: what adc.force_init_mode looks at
  card,       \* an SD card is in the slot
  mounted,    \* file.mount('/SD0') succeeded in start.lua
  station,    \* "idle", "connecting" or "online" (getip gives an address)
  ap,         \* the access point can be reached
  polling,    \* the five-second timer of MODULE_wifi.init runs
  services,   \* how often onConnectOk_callback has started the three scripts
  syncing,    \* sntp.sync is under way
  clock,      \* the real-time clock is set; cron entries run only then
  reading,    \* GDATA_DHT_t and GDATA_DHT_h
  logged,     \* the t= and h= of the latest line in the log file
  loaded,     \* package.loaded: what require('web_data_*') has cached
  conn,       \* a connection: "none", "open", "answered"
  idle,       \* seconds since it last carried anything
  answer      \* the page sent latest

hardware == <<adcMode, card, ap>>
network  == <<station, polling, services, syncing, clock>>
web      == <<loaded, conn, idle, answer>>
vars     == <<phase, mounted, hardware, network, reading, logged, web>>

Readings == [t : Values, h : Values]
None     == [t |-> 0, h |-> 0]
Pages    == {"html", "json"}

\* What a page is made from (Made): the readings (web_data_html.lua only) and
\* the card.
Nothing  == [reading |-> None, sd |-> FALSE]

\* Power on.  All that Lua keeps is gone.
Booted(rtc) ==
  /\ phase' = "booting" /\ mounted' = FALSE
  /\ station' = "idle" /\ polling' = FALSE /\ services' = 0 /\ syncing' = FALSE
  /\ clock' = rtc
  /\ reading' = [t |-> 1, h |-> 1]
  /\ loaded' = [p \in Pages |-> Nothing]
  /\ conn' = [c \in Conns |-> "none"] /\ idle' = [c \in Conns |-> 0]

Init ==
  /\ phase = "booting" /\ mounted = FALSE
  /\ adcMode \in {"ADC", "VDD33"} /\ card \in BOOLEAN /\ ap = TRUE
  /\ station = "idle" /\ polling = FALSE /\ services = 0 /\ syncing = FALSE
  /\ clock = FALSE
  /\ reading = [t |-> 1, h |-> 1] /\ logged = None
  /\ loaded = [p \in Pages |-> Nothing]
  /\ conn = [c \in Conns |-> "none"] /\ idle = [c \in Conns |-> 0]
  /\ answer = Nothing

-----------------------------------------------------------------------------
\* The world outside.

\* A reset, a panic or a power cut; RTC memory survives some of them.
Restart == /\ \E rtc \in {FALSE, clock} : Booted(rtc)
           /\ UNCHANGED <<hardware, logged, answer>>

CardMoved == /\ card' = ~card
             /\ UNCHANGED <<phase, mounted, adcMode, ap, network, reading, logged, web>>

\* A station without its access point may give up trying.
ApChanges == /\ ap' = ~ap
             /\ UNCHANGED <<phase, mounted, adcMode, card, network, reading, logged, web>>

Associate == /\ station = "connecting" /\ ap
             /\ station' = "online"
             /\ UNCHANGED <<phase, mounted, hardware, polling, services, syncing, clock,
                            reading, logged, web>>

LoseAddress == /\ station # "idle" /\ ~ap
               /\ station' \in {"idle", "connecting"}
               /\ UNCHANGED <<phase, mounted, hardware, polling, services, syncing, clock,
                              reading, logged, web>>

World == Restart \/ CardMoved \/ ApChanges \/ Associate \/ LoseAddress

-----------------------------------------------------------------------------
\* start.lua.

\* The ADC was not set to measure the supply: set it and restart.
ForceVdd33 == /\ phase = "booting" /\ adcMode # "VDD33"
              /\ adcMode' = "VDD33"
              /\ Booted(clock)
              /\ UNCHANGED <<card, ap, logged, answer>>

\* The card is tried twice; module_wifi's top level and init start the station.
Start == /\ phase = "booting" /\ adcMode = "VDD33"
         /\ mounted' \in {FALSE, card}
         /\ station' = "connecting" /\ polling' = TRUE
         /\ phase' = "up"
         /\ UNCHANGED <<hardware, services, syncing, clock, reading, logged, web>>

\* Mutant: the timer is not stopped.
WifiPollGoesOn ==
  /\ polling /\ station = "online"
  /\ services < 2                                \* bound of the mutant
  /\ services' = services + 1 /\ syncing' = TRUE
  /\ UNCHANGED <<phase, mounted, hardware, station, polling, clock, reading, logged, web>>

\* The timer of MODULE_wifi.init: cron.lua, sntp.lua and webserver.lua run.
WifiPoll == /\ polling /\ station = "online"
            /\ polling' = FALSE
            /\ services' = services + 1 /\ syncing' = TRUE
            /\ UNCHANGED <<phase, mounted, hardware, station, clock, reading, logged, web>>

\* sntp.lua synchronizes once.
SntpDone == /\ syncing
            /\ syncing' = FALSE
            /\ clock' \in {clock, TRUE}
            /\ UNCHANGED <<phase, mounted, hardware, station, polling, services,
                           reading, logged, web>>

-----------------------------------------------------------------------------
\* cron.lua, once a minute.

\* dht.read: a reading, a checksum error (nothing changes), or a timeout, which
\* puts random numbers in its place.
GetDataDHT == reading' \in Readings

\* Both fields of the line are written from GDATA_DHT_t.
LogToSD == IF mounted /\ card THEN logged' = [t |-> reading'.t, h |-> reading'.t]
           ELSE UNCHANGED logged

\* Mutant: module_wifi is loaded again but the station is not told to connect.
CheckInternetIdles == UNCHANGED station

\* MODULE_wifi.reconnect.
CheckInternet == station' = IF station = "online" THEN "online" ELSE "connecting"

CronTick == /\ services > 0 /\ clock
            /\ GetDataDHT
            /\ LogToSD
            /\ CheckInternet
            /\ UNCHANGED <<phase, mounted, hardware, polling, services, syncing, clock, web>>

-----------------------------------------------------------------------------
\* webserver.lua.

Accept(c) == /\ services > 0 /\ station = "online" /\ conn[c] = "none"
             /\ conn' = [conn EXCEPT ![c] = "open"]
             /\ idle' = [idle EXCEPT ![c] = 0]
             /\ UNCHANGED <<phase, mounted, hardware, network, reading, logged, loaded, answer>>

\* web_data_html.lua and web_data_json.lua.
Made(p) == [reading |-> IF p = "html" THEN reading ELSE None, sd |-> mounted /\ card]

Required(p) == IF loaded[p] = Nothing THEN Made(p) ELSE loaded[p]

\* Mutant: the page stays in package.loaded.
ReceiveKeepsPage(c, p) ==
  /\ station = "online" /\ conn[c] # "none"
  /\ answer' = Required(p)
  /\ loaded' = [loaded EXCEPT ![p] = Required(p)]
  /\ conn' = [conn EXCEPT ![c] = "answered"]
  /\ idle' = [idle EXCEPT ![c] = 0]
  /\ UNCHANGED <<phase, mounted, hardware, network, reading, logged>>

\* A segment with the request line of one of the pages.
Receive(c, p) ==
  /\ station = "online" /\ conn[c] # "none"
  /\ answer' = Required(p)
  /\ loaded' = [loaded EXCEPT ![p] = Nothing]
  /\ conn' = [conn EXCEPT ![c] = "answered"]
  /\ idle' = [idle EXCEPT ![c] = 0]
  /\ UNCHANGED <<phase, mounted, hardware, network, reading, logged>>

\* Any other segment, a second one of an answered request included.
ReceiveOther(c) ==
  /\ station = "online" /\ conn[c] # "none"
  /\ conn' = [conn EXCEPT ![c] = "none"]
  /\ idle' = [idle EXCEPT ![c] = 0]
  /\ UNCHANGED <<phase, mounted, hardware, network, reading, logged, loaded, answer>>

\* The "sent" handler closes.
Sent(c) == /\ station = "online" /\ conn[c] = "answered"
           /\ conn' = [conn EXCEPT ![c] = "none"]
           /\ idle' = [idle EXCEPT ![c] = 0]
           /\ UNCHANGED <<phase, mounted, hardware, network, reading, logged, loaded, answer>>

\* The firmware closes a connection that has been idle for too long.
TimedOut(c) == /\ conn[c] # "none" /\ idle[c] >= IdleTimeout
               /\ conn' = [conn EXCEPT ![c] = "none"]
               /\ idle' = [idle EXCEPT ![c] = 0]
               /\ UNCHANGED <<phase, mounted, hardware, network, reading, logged, loaded, answer>>

Second == /\ \A c \in Conns : conn[c] # "none" => idle[c] < IdleTimeout
          /\ idle' = [c \in Conns |-> IF conn[c] = "none" THEN 0 ELSE idle[c] + 1]
          /\ UNCHANGED <<phase, mounted, hardware, network, reading, logged, loaded, conn, answer>>

Web == \/ \E c \in Conns : \/ Accept(c) \/ ReceiveOther(c) \/ Sent(c) \/ TimedOut(c)
                           \/ \E p \in Pages : Receive(c, p)
       \/ Second

Next == World \/ ForceVdd33 \/ Start \/ WifiPoll \/ SntpDone \/ CronTick \/ Web

Spec == Init /\ [][Next]_vars

\* The cron entry runs every minute and an access point in reach is joined.
FairSpec == /\ Spec
            /\ WF_vars(CronTick) /\ WF_vars(Associate)

-----------------------------------------------------------------------------
\* However often the address is lost and found again, the services run once and
\* the poll is over when they do: no second cron entry, no second listener.
StartsOnce == services + (IF polling THEN 1 ELSE 0) <= 1

\* A page shows the readings and the card as they are when it is asked for, not
\* as they were when require first ran it.
FreshPages ==
  [][\A c \in Conns, p \in Pages :
       Receive(c, p) => answer' = [reading |-> IF p = "html" THEN reading ELSE None,
                                   sd |-> mounted /\ card]]_vars

\* Once the services run and the clock is set, the logger comes back online
\* whenever the access point stays within reach, even if the station gave up.
Reconnects ==
  <>[](ap /\ services > 0 /\ clock) => []<>(station = "online")
=============================================================================
