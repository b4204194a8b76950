------------------------------ MODULE WiFiEvents ------------------------------
(***************************************************************************)
(* The WiFi connection of an ESP8266: callbacks of the SDK, which only set *)
(* flags, and the main loop, which processes them in a fixed order and     *)
(* starts new attempts to connect.                                         *)
(*                                                                         *)
(* Callbacks run while the loop is in delay() or yield(); the program      *)
(* counter loc tells in which.  How long things take is left out: Timeout  *)
(* may come at any time after an attempt.  Attempts find valid             *)
(* credentials, no scan is running, and it is not the WiFi setup that      *)
(* connects.                                                               *)
(***************************************************************************)
EXTENDS Integers

CONSTANTS
    MaxFaults,  \* bound: disturbances (losses, new addresses, commands, ...)
    MaxMissed   \* bound: callbacks that never come

ASSUME WiFiEventsAssumption == MaxFaults \in Nat /\ MaxMissed \in Nat

VARIABLES
    loc,      \* where the main loop is
    status,   \* wifiStatus, the set of its flags
    pending,  \* the events that are not processed (processedConnect is FALSE, ...)
    needed,   \* wifiConnectAttemptNeeded
    over,     \* wifiConnectTimeoutReached()
    link,     \* the station, as the SDK knows it
    owed,     \* the callback for a connection the program ended is to come
    apUsed,   \* wifiAPmodeActivelyUsed()
    static,   \* useStaticIP()
    restart,  \* Settings.WiFiRestart_connection_lost()
    faults,   \* number of disturbances
    missed    \* number of callbacks missed

program  == <<loc, status, pending, needed, over>>
settings == <<static, restart>>
vars == <<program, link, owed, apUsed, settings, faults, missed>>

Flags  == {"connected", "gotIP", "services"}
Events == {"connect", "disconnect", "gotIP", "dhcp"}

\* The values wifiStatus is compared with: no flag, and just one.
Disconnected == {}
Initialized  == {"services"}

Init ==
    /\ loc = "loop" /\ status = Disconnected /\ pending = {}
    /\ needed = TRUE /\ over = TRUE
    /\ link = "down" /\ owed = FALSE /\ apUsed = FALSE
    /\ static \in BOOLEAN /\ restart \in BOOLEAN
    /\ faults = 0 /\ missed = 0

-----------------------------------------------------------------------------
\* The station.  wifi_station_disconnect() and setWifiMode(WIFI_OFF) end the
\* connection; the callback comes later.  WiFi.begin() does nothing when the
\* station is connected or connecting.
Drop  == link' = "down" /\ owed' = (owed \/ link # "down")
Begin == link' = IF link = "down" THEN "connecting" ELSE link

Disturb == faults < MaxFaults /\ faults' = faults + 1

Tell(event) == pending' = pending \cup {event} /\ UNCHANGED missed
Miss == missed < MaxMissed /\ missed' = missed + 1 /\ UNCHANGED pending

\* onConnected(); a static address is there at once.
Associate ==
    /\ link = "connecting" /\ ~owed
    /\ link' = IF static THEN "up" ELSE "linked"
    /\ Tell("connect") \/ Miss
    /\ UNCHANGED <<loc, status, needed, over, owed, apUsed, settings, faults>>

\* onGotIP(), markGotIP()
TellGotIP == Tell("gotIP") /\ status' = status \ {"gotIP"}

GetIP ==
    /\ link = "linked"
    /\ link' = "up"
    /\ TellGotIP \/ (Miss /\ UNCHANGED status)
    /\ UNCHANGED <<loc, needed, over, owed, apUsed, settings, faults>>

NewAddress ==
    /\ link = "up" /\ ~static
    /\ Disturb /\ TellGotIP
    /\ UNCHANGED <<loc, needed, over, link, owed, apUsed, settings>>

\* onDHCPTimeout()
DHCPTimeout ==
    /\ link = "linked"
    /\ Disturb /\ Tell("dhcp")
    /\ UNCHANGED <<loc, status, needed, over, link, owed, apUsed, settings>>

\* onDisconnect(): the attempt, if one was being made, has ended.
LinkLost ==
    /\ link # "down" /\ ~owed
    /\ link' = "down"
    /\ Disturb
    /\ \/ Tell("disconnect") /\ over' = TRUE
       \/ Miss /\ UNCHANGED over
    /\ UNCHANGED <<loc, status, needed, owed, apUsed, settings>>

LateDisconnect ==
    /\ owed
    /\ owed' = FALSE
    /\ \/ Tell("disconnect") /\ over' = TRUE
       \/ Miss /\ UNCHANGED over
    /\ UNCHANGED <<loc, status, needed, link, apUsed, settings, faults>>

\* Time passes, more than callbacks and the delays of a pass take; also the
\* count of attempts is 0 again after five minutes.
Timeout ==
    /\ loc = "loop" /\ ~over /\ ~owed
    /\ over' = TRUE
    /\ UNCHANGED <<loc, status, pending, needed, link, owed, apUsed, settings,
                   faults, missed>>

\* Stations connect to the access point of the unit and leave it.
ApClient ==
    /\ ~apUsed
    /\ Disturb
    /\ apUsed' = TRUE
    /\ UNCHANGED <<program, link, owed, settings, missed>>

ApClientLeaves ==
    /\ apUsed
    /\ apUsed' = FALSE
    /\ UNCHANGED <<program, link, owed, settings, faults, missed>>

-----------------------------------------------------------------------------
\* One pass of handle_unprocessedWiFiEvents(), which waits before it starts.
StartPass ==
    /\ loc = "loop"
    /\ loc' = IF status # Initialized \/ pending # {} THEN "waiting"
                                                      ELSE "check"
    /\ UNCHANGED <<status, pending, needed, over, link, owed, apUsed, settings,
                   faults, missed>>

\* Mutant: the flags are left as they are when both are set.
EndPassUnmarked(s, p) == status' = s /\ pending' = p /\ loc' = "check"

\* The end of a pass, with that status and those events left: events that
\* must have been missed are made up, and the services marked.
EndPass(s, p) ==
    LET up == s # Initialized /\ link = "up"
        forced == {e \in {"connect", "gotIP"} :
                     up /\ (IF e = "connect" THEN "connected" ELSE e) \notin s}
        mark == {"connected", "gotIP"} \subseteq s
    IN  /\ status' = IF mark THEN Initialized ELSE s
        /\ pending' = IF mark THEN p \ {"dhcp"} ELSE p \cup forced
        /\ loc' = "check"

\* Mutant: an address is taken over whether there is one or not.
TakesAnyIP(s, p) == "gotIP" \in p /\ "connected" \in s

\* processGotIP() does something.
TakesIP(s, p) ==
    "gotIP" \in p /\ "connected" \in s /\ (static \/ link = "up")

\* The timeout of DHCP, for which processDisconnect() returns at once unless
\* there was a disconnect since, and the end of the pass.
ProcessTimeout(s, p) ==
    IF {"dhcp", "disconnect"} \subseteq p
    THEN /\ status' = Disconnected
         /\ pending' = p \ {"dhcp", "disconnect"}
         /\ loc' = "timedOut"
    ELSE EndPass(s, p \ {"dhcp"})

\* processGotIP() up to its wait for the network, which is there when the time
\* is to be had from a server.
ProcessIP(s, p) ==
    IF TakesIP(s, p)
    THEN /\ status' = s \cup {"gotIP"}
         /\ pending' = p \ {"gotIP"}
         /\ loc' = "gotIP"
    ELSE ProcessTimeout(s, p)

\* processConnect() up to its delay.
ProcessConnect ==
    IF "connect" \in pending
    THEN /\ status' = status \cup {"connected"}
         /\ pending' = pending \ {"connect"}
         /\ loc' = "connected"
    ELSE ProcessIP(status, pending)

\* WiFiConnectRelaxed(), and processDisconnect() up to its delay.
ProcessDisconnect ==
    /\ loc = "waiting"
    /\ needed' = FALSE
    /\ IF needed THEN Begin /\ over' = FALSE ELSE UNCHANGED <<link, over>>
    /\ IF "disconnect" \in pending
       THEN /\ status' = Disconnected
            /\ pending' = pending \ {"disconnect"}
            /\ loc' = "disconnected"
       ELSE ProcessConnect
    /\ UNCHANGED <<owed, apUsed, settings, faults, missed>>

\* The end of processDisconnect(), which may turn the WiFi off.
DisconnectDone ==
    /\ loc = "disconnected"
    /\ IF restart THEN Drop /\ loc' = "off" /\ UNCHANGED <<status, pending>>
                  ELSE ProcessConnect /\ UNCHANGED <<link, owed>>
    /\ UNCHANGED <<needed, over, apUsed, settings, faults, missed>>

\* The callback has come by the end of the delay of setWifiMode().
OffDone ==
    /\ loc = "off" /\ ~owed
    /\ ProcessConnect
    /\ UNCHANGED <<needed, over, link, owed, apUsed, settings, faults, missed>>

\* The same after the timeout of DHCP (here the callback may come later).
TimeoutDone ==
    /\ loc = "timedOut"
    /\ EndPass(status, pending)
    /\ IF restart THEN Drop ELSE UNCHANGED <<link, owed>>
    /\ UNCHANGED <<needed, over, apUsed, settings, faults, missed>>

\* The end of processConnect(); there is no callback for a static address.
ConnectDone ==
    /\ loc = "connected"
    /\ IF static THEN ProcessIP(status \ {"gotIP"}, pending \cup {"gotIP"})
                 ELSE ProcessIP(status, pending)
    /\ UNCHANGED <<needed, over, link, owed, apUsed, settings, faults, missed>>

-----------------------------------------------------------------------------
Valid == status = Initialized /\ link = "up"

\* resetWiFi()
ResetWiFi ==
    /\ status' = Disconnected
    /\ pending' = {"disconnect"}
    /\ needed' = TRUE /\ over' = TRUE
    /\ Drop

\* Mutant: services that are out of sync are left as they are.
CheckInSync ==
    IF pending # {} \/ status = Initialized
    THEN UNCHANGED <<status, pending, needed, over, link, owed>>
    ELSE /\ needed' = (needed \/ (over /\ ~apUsed))
         /\ UNCHANGED <<status, pending, over, link, owed>>

\* WiFiConnected()
Check ==
    IF pending # {} \/ Valid
    THEN UNCHANGED <<status, pending, needed, over, link, owed>>
    ELSE IF status = Initialized THEN ResetWiFi
    ELSE /\ needed' = (needed \/ (over /\ ~apUsed))
         /\ UNCHANGED <<status, pending, over, link, owed>>

\* NetworkConnected(10), called from processGotIP(); there are no services yet.
WaitForNetwork ==
    /\ loc = "gotIP"
    /\ Check
    /\ UNCHANGED <<loc, apUsed, settings, faults, missed>>

\* processGotIP() returns.
GotIPDone ==
    /\ loc = "gotIP"
    /\ ProcessTimeout(status, pending)
    /\ UNCHANGED <<needed, over, link, owed, apUsed, settings, faults, missed>>

\* loop() calls NetworkConnected() after each pass.
CheckNetwork ==
    /\ loc = "check"
    /\ loc' = "loop"
    /\ Check
    /\ UNCHANGED <<apUsed, settings, faults, missed>>

\* The commands WifiConnect and WifiDisconnect, later in loop().
WifiConnect ==
    /\ loc = "loop" /\ ~needed
    /\ Disturb
    /\ needed' = TRUE
    /\ UNCHANGED <<loc, status, pending, over, link, owed, apUsed, settings,
                   missed>>

WifiDisconnect ==
    /\ loc = "loop"
    /\ Disturb
    /\ Drop
    /\ status' = Disconnected
    /\ pending' = pending \cup {"disconnect"}
    /\ UNCHANGED <<loc, needed, over, apUsed, settings, missed>>

Station ==
    \/ Associate \/ GetIP \/ NewAddress \/ DHCPTimeout
    \/ LinkLost \/ LateDisconnect
Loop ==
    \/ StartPass \/ ProcessDisconnect \/ DisconnectDone \/ OffDone
    \/ ConnectDone \/ WaitForNetwork \/ GotIPDone \/ TimeoutDone
    \/ CheckNetwork

Next ==
    \/ Station \/ Loop
    \/ Timeout \/ ApClient \/ ApClientLeaves
    \/ WifiConnect \/ WifiDisconnect

\* The main loop goes on, time passes, and when nothing disturbs it the
\* station connects.
Fairness ==
    /\ WF_vars(Loop) /\ SF_vars(Timeout) /\ WF_vars(LateDisconnect)
    /\ WF_vars(ApClientLeaves)
    /\ WF_vars(Associate) /\ WF_vars(GetIP)

Spec == Init /\ [][Next]_vars /\ Fairness

-----------------------------------------------------------------------------
TypeOK ==
    /\ loc \in {"loop", "waiting", "disconnected", "off", "connected",
                "gotIP", "timedOut", "check"}
    /\ status \subseteq Flags /\ pending \subseteq Events
    /\ needed \in BOOLEAN /\ over \in BOOLEAN
    /\ link \in {"down", "connecting", "linked", "up"}
    /\ owed \in BOOLEAN /\ apUsed \in BOOLEAN
    /\ static \in BOOLEAN /\ restart \in BOOLEAN
    /\ faults \in 0..MaxFaults /\ missed \in 0..MaxMissed
    \* Both flags are the third one by the end of a pass.
    /\ loc # "gotIP" => ~({"connected", "gotIP"} \subseteq status)

\* The services are not taken for initialised when the connection was lost
\* before its events were processed, in whatever order they came; unless the
\* callback is missed, or the address is static.
ServicesNeedLink ==
    status = Initialized /\ "disconnect" \notin pending /\ missed = 0 /\ ~static
        => link = "up"

\* The address that is waiting to be processed is gone, or came when the
\* flag of the connection had been replaced by that of the services.
Stale == "gotIP" \in pending /\ ~TakesIP(status, pending)

\* When nothing disturbs it any more the unit gets connected, and stays so,
\* whatever events were lost or overtook each other; the only thing in its
\* way is an address that cannot be processed.
ReconnectsUnlessStale == <>[](Valid /\ pending = {}) \/ <>[]Stale

\* "wifiConnectAttemptNeeded [...] is set to true when: [...] WiFi connect
\* timeout reached & No client is connected to the AP mode of the node."
\* (ESPEasyWifi.cpp:27-33)
RetriesAfterTimeout ==
    (status # Initialized /\ link = "down" /\ over /\ ~apUsed)
        ~> (needed \/ link # "down" \/ apUsed)

=============================================================================
