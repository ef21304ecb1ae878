------------------------------ MODULE MqttApp ------------------------------
(***************************************************************************)
(* The application of esp_mqtt_proj: user/user_main.c, which connects the  *)
(* MQTT client whenever modules/wifi.c reports an address and disconnects  *)
(* it on any other news, and greets the broker from mqttConnectedCb.       *)
(*                                                                         *)
(* The Wi-Fi station changes its status on its own; wifi_check_ip looks    *)
(* every half a second or two, so it may miss changes.                     *)
(***************************************************************************)
EXTENDS MqttClient

VARIABLES station,          \* wifi_station_get_connect_status()
          lastWifiStatus    \* the status wifiConnectCb was told last

appVars == <<vars, station, lastWifiStatus>>

\* FAILED: wrong password, no access point, or connect failure.
Stations == {"IDLE", "CONNECTING", "FAILED", "GOT_IP"}

AppTypeOK == /\ TypeOK
             /\ station \in Stations
             /\ lastWifiStatus \in Stations

\* user_init, with wifi_station_connect at the end of WIFI_Connect.
AppInit == Init /\ station = "CONNECTING" /\ lastWifiStatus = "IDLE"

-----------------------------------------------------------------------------
\* The station, outside this code.
Associate == station = "CONNECTING" /\ station' \in {"GOT_IP", "FAILED"}
LoseWifi  == station = "GOT_IP" /\ station' \in {"CONNECTING", "FAILED"}

Station == (Associate \/ LoseWifi) /\ UNCHANGED <<vars, lastWifiStatus>>

\* Mutant: the client is disconnected only if the association failed.
WifiConnectCbMissesLoss(status) ==
  IF status = "GOT_IP" THEN MQTT_Connect
  ELSE IF status = "FAILED" THEN MQTT_Disconnect
  ELSE UNCHANGED vars

\* Mutant: no connect while the disconnect callback is awaited.
WifiConnectCbAwaits(status) ==
  IF status # "GOT_IP" THEN MQTT_Disconnect
  ELSE IF connState = "TCP_DISCONNECTING" THEN UNCHANGED vars
  ELSE MQTT_Connect

wifiConnectCb(status) == IF status = "GOT_IP" THEN MQTT_Connect ELSE MQTT_Disconnect

\* A failed association is tried again; a change since the last look is told,
\* one from a failure to another included.
wifi_check_ip ==
  /\ station' = IF station = "FAILED" THEN "CONNECTING" ELSE station
  /\ lastWifiStatus' = station
  /\ \/ (station # lastWifiStatus \/ station = "FAILED")
        /\ wifiConnectCb(station)
     \/ station = lastWifiStatus /\ UNCHANGED vars

\* mqttConnectedCb: three subscriptions and three messages, for which older
\* packets make way.  A long one may drop all there is, the greeting's own
\* beginning included, and still not be queued.
Greeting == <<"REQUEST", "REQUEST", "REQUEST", "PUBLISH", "PUBLISH", "PUBLISH">>

Suffixes(s) == {SubSeq(s, k, Len(s)) : k \in 1 .. Len(s) + 1}

\* Mutant: the greeting is queued without looking for room.
GreetOverfills ==
  /\ Connack
  /\ queue' = IF connState' = "MQTT_DATA" THEN queue \o Greeting ELSE queue

RecvConnackGreet ==
  /\ Connack
  /\ IF connState' = "MQTT_DATA"
     THEN queue' \in {s \in Suffixes(queue \o Greeting) : Len(s) <= QueueCap}
     ELSE UNCHANGED queue

\* What the client does by itself.
ClientStep == LinkEvents \/ RecvConnackGreet \/ RecvRequest \/ RecvOther \/ MQTT_Task

AppNext == /\ ~stale
           /\ \/ Station
              \/ wifi_check_ip
              \/ (ClientStep \/ mqtt_timer) /\ UNCHANGED <<station, lastWifiStatus>>

AppSpec == AppInit /\ [][AppNext]_appVars

\* A posted event is run, and espconn's, before half a second has passed.
PromptAppSpec ==
  AppInit /\ [][/\ AppNext
                /\ wifi_check_ip => ~posted /\ link \notin {"closing", "err"}
               ]_appVars

\* The Wi-Fi timer rearms itself.
FairAppSpec == AppSpec /\ WF_appVars(~stale /\ wifi_check_ip)

-----------------------------------------------------------------------------
\* While the application knows that there is no network, the client does not
\* dial by its own retry: wifiConnectCb and the retry timer agree, whatever
\* callbacks of the old connection come after the disconnect.
NoRetryOffline == connState = "TCP_RECONNECT" => lastWifiStatus = "GOT_IP"

\* Wi-Fi that stays up brings the client out of the disconnected states, even
\* if it went and came between two looks or while the old connection was
\* being closed.
BackOnline ==
  <>[](station = "GOT_IP")
    => <>(stale \/ [](connState \notin {"WIFI_INIT", "TCP_DISCONNECTING", "TCP_DISCONNECTED"}))

\* "Clean up the old connection forcefully - using MQTT_Disconnect does not
\* actually release the old connection until the disconnection callback is
\* invoked" (mqtt.c, MQTT_Connect): after it nobody refers to the old one.
OldConnectionCleanedUp == ~stale
=============================================================================
