-------------------------- MODULE WiFiEventsProofs --------------------------
(***************************************************************************)
(* Theorems about WiFiEvents, for any number of disturbances and of        *)
(* callbacks that are missed.                                              *)
(***************************************************************************)
EXTENDS WiFiEvents, TLAPS

-----------------------------------------------------------------------------
Places == {"loop", "waiting", "disconnected", "off", "connected", "timedOut",
           "gotIP", "check"}
Links  == {"down", "connecting", "linked", "up"}

\* The type invariant in parts: places and sets, truth values, counters.
Sets ==
    /\ loc \in Places /\ link \in Links
    /\ status \in SUBSET Flags /\ pending \in SUBSET Events

Truth ==
    /\ needed \in BOOLEAN /\ over \in BOOLEAN
    /\ owed \in BOOLEAN /\ apUsed \in BOOLEAN
    /\ static \in BOOLEAN /\ restart \in BOOLEAN

Counts == faults \in 0..MaxFaults /\ missed \in 0..MaxMissed

\* The flag of the address never outlives the pass that sets it: it comes only
\* with the one of the connection, for which both give way to the services.
FlagsTogether ==
    IF loc = "gotIP" THEN "connected" \in status ELSE "gotIP" \notin status

\* While the loop waits after a disconnect there is no flag.
Ended == {"disconnected", "off", "timedOut"}
EndedIsDisconnected == loc \in Ended => status = Disconnected

\* Something has cut the link, or may cut it unnoticed.
Excused(p) == "disconnect" \in p \/ missed # 0 \/ static

\* ServicesNeedLink for a status, events and a link in the middle of a pass,
\* and the same for the address that stands for the services by its end.
Backed(s, p, l) ==
    s = Initialized \/ "gotIP" \in s => Excused(p) \/ l = "up"

IInv ==
    /\ Sets /\ Truth /\ Counts
    /\ FlagsTogether /\ EndedIsDisconnected
    /\ Backed(status, pending, link)

LEMMA InvImplies == IInv => TypeOK /\ ServicesNeedLink
<1> SUFFICES ASSUME IInv PROVE TypeOK /\ ServicesNeedLink
  OBVIOUS
<1>1. loc # "gotIP" => ~({"connected", "gotIP"} \subseteq status)
  BY DEF IInv, FlagsTogether
<1>2. TypeOK
  BY <1>1, Zenon DEF IInv, Sets, Truth, Counts, Places, Links, TypeOK
<1>3. ServicesNeedLink
  BY Zenon DEF IInv, Backed, Excused, ServicesNeedLink
<1> QED
  BY <1>2, <1>3

LEMMA InvInit == Init => IInv
<1> SUFFICES ASSUME Init PROVE IInv
  OBVIOUS
<1>1. Sets
  BY DEF Init, Sets, Places, Links, Disconnected
<1>2. Truth
  BY Zenon DEF Init, Truth
<1>3. Counts
  BY WiFiEventsAssumption, SMT DEF Init, Counts
<1>4. FlagsTogether /\ EndedIsDisconnected /\ Backed(status, pending, link)
  BY DEF Init, FlagsTogether, EndedIsDisconnected, Backed, Disconnected,
         Initialized
<1> QED
  BY <1>1, <1>2, <1>3, <1>4 DEF IInv

\* What the end of a pass leaves, when it is reached with that status and
\* those events.
LEMMA EndPassInv ==
    ASSUME NEW s \in SUBSET Flags, NEW p \in SUBSET Events,
           "gotIP" \in s => "connected" \in s,
           Backed(s, p, link),
           EndPass(s, p)
    PROVE  /\ status' \in SUBSET Flags /\ pending' \in SUBSET Events
           /\ loc' = "check" /\ "gotIP" \notin status'
           /\ Backed(status', pending', link)
<1> DEFINE mark == {"connected", "gotIP"} \subseteq s
           forced == {e \in {"connect", "gotIP"} :
                        /\ s # Initialized /\ link = "up"
                        /\ (IF e = "connect" THEN "connected" ELSE e) \notin s}
<1>1. /\ status' = IF mark THEN Initialized ELSE s
      /\ pending' = IF mark THEN p \ {"dhcp"} ELSE p \cup forced
      /\ loc' = "check"
  BY Zenon DEF EndPass
<1>2. forced \in SUBSET Events
  BY DEF Events
<1> HIDE DEF forced
<1>3. CASE mark
  BY <1>1, <1>3 DEF Initialized, Flags, Backed, Excused
<1>4. CASE ~mark
  BY <1>1, <1>2, <1>4 DEF Backed, Excused
<1> QED
  BY <1>3, <1>4

\* The same for what the timeout of DHCP is looked at with.
LEMMA ProcessTimeoutInv ==
    ASSUME NEW s \in SUBSET Flags, NEW p \in SUBSET Events,
           "gotIP" \in s => "connected" \in s,
           Backed(s, p, link),
           ProcessTimeout(s, p)
    PROVE  /\ status' \in SUBSET Flags /\ pending' \in SUBSET Events
           /\ loc' \in {"check", "timedOut"} /\ "gotIP" \notin status'
           /\ Backed(status', pending', link)
           /\ loc' = "timedOut" => status' = Disconnected
<1>1. CASE {"dhcp", "disconnect"} \subseteq p
  <2>1. /\ status' = Disconnected
        /\ pending' = p \ {"dhcp", "disconnect"}
        /\ loc' = "timedOut"
    BY <1>1 DEF ProcessTimeout
  <2> QED
    BY <2>1 DEF Disconnected, Initialized, Backed
<1>2. CASE ~({"dhcp", "disconnect"} \subseteq p)
  <2>1. EndPass(s, p \ {"dhcp"})
    BY <1>2 DEF ProcessTimeout
  <2>2. Backed(s, p \ {"dhcp"}, link)
    BY DEF Backed, Excused
  <2>3. /\ status' \in SUBSET Flags /\ pending' \in SUBSET Events
        /\ loc' = "check" /\ "gotIP" \notin status'
        /\ Backed(status', pending', link)
    BY <2>1, <2>2, EndPassInv
  <2> QED
    BY <2>3
<1> QED
  BY <1>1, <1>2

\* The same for what processGotIP() is called with.
LEMMA ProcessIPInv ==
    ASSUME NEW s \in SUBSET Flags, NEW p \in SUBSET Events,
           "gotIP" \notin s,
           Backed(s, p, link),
           ProcessIP(s, p)
    PROVE  /\ status' \in SUBSET Flags /\ pending' \in SUBSET Events
           /\ loc' \in {"check", "timedOut", "gotIP"}
           /\ FlagsTogether'
           /\ Backed(status', pending', link)
           /\ loc' = "timedOut" => status' = Disconnected
<1>1. CASE TakesIP(s, p)
  <2>1. /\ status' = s \cup {"gotIP"}
        /\ pending' = p \ {"gotIP"}
        /\ loc' = "gotIP"
    BY <1>1 DEF ProcessIP
  <2>2. "connected" \in s /\ (static \/ link = "up")
    BY <1>1 DEF TakesIP
  <2> QED
    BY <2>1, <2>2 DEF Flags, FlagsTogether, Backed, Excused
<1>2. CASE ~TakesIP(s, p)
  <2>1. ProcessTimeout(s, p)
    BY <1>2 DEF ProcessIP
  <2> QED
    BY <2>1, ProcessTimeoutInv DEF FlagsTogether
<1> QED
  BY <1>1, <1>2

\* What a step of the loop has done when it ends a wait.
PassInv ==
    /\ status' \in SUBSET Flags /\ pending' \in SUBSET Events
    /\ loc' \in {"check", "timedOut", "connected", "gotIP"}
    /\ FlagsTogether'
    /\ Backed(status', pending', link)
    /\ loc' = "timedOut" => status' = Disconnected

LEMMA ProcessConnectInv ==
    ASSUME IInv, loc # "gotIP", ProcessConnect PROVE PassInv
<1>1. CASE "connect" \in pending
  <2>1. /\ status' = status \cup {"connected"}
        /\ pending' = pending \ {"connect"}
        /\ loc' = "connected"
    BY <1>1 DEF ProcessConnect
  <2>2. status' # Initialized
    BY <2>1 DEF Initialized
  <2> QED
    BY <2>1, <2>2
    DEF PassInv, IInv, Sets, Flags, FlagsTogether, Backed
<1>2. CASE "connect" \notin pending
  BY <1>2, ProcessIPInv
  DEF ProcessConnect, PassInv, IInv, Sets, FlagsTogether
<1> QED
  BY <1>1, <1>2

\* The invariant after such a step, if the link has not gone down.
LEMMA PassKeeps ==
    ASSUME PassInv,
           link = "up" => link' = "up" \/ status' = Disconnected,
           missed' = missed, static' = static
    PROVE  /\ loc' \in Places
           /\ status' \in SUBSET Flags /\ pending' \in SUBSET Events
           /\ FlagsTogether' /\ EndedIsDisconnected'
           /\ Backed(status, pending, link)'
<1>1. loc' \in Places /\ (loc' \in Ended => loc' = "timedOut")
  BY DEF PassInv, Places, Ended
<1>2. Disconnected # Initialized /\ "gotIP" \notin Disconnected
  BY DEF Disconnected, Initialized
<1> QED
  BY <1>1, <1>2
  DEF PassInv, FlagsTogether, EndedIsDisconnected, Backed, Excused

-----------------------------------------------------------------------------
LEMMA InvStep == IInv /\ [Next]_vars => IInv'
<1> SUFFICES ASSUME IInv, [Next]_vars PROVE IInv'
  OBVIOUS
<1> USE WiFiEventsAssumption
\* The parts of a step of the loop that all of them share.
<1>a. ASSUME Loop PROVE Counts' /\ UNCHANGED <<apUsed, settings, missed>>
  <2>1. UNCHANGED <<apUsed, settings, faults, missed>>
    BY <1>a, Zenon
    DEF Loop, StartPass, ProcessDisconnect, DisconnectDone, OffDone,
        ConnectDone, WaitForNetwork, GotIPDone, TimeoutDone, CheckNetwork
  <2> QED
    BY <2>1 DEF IInv, Counts
<1>b. missed + 1 # 0
  BY SMT DEF IInv, Counts
<1>1. CASE Associate
  <2>1. /\ link = "connecting" /\ link' \in {"up", "linked"}
        /\ UNCHANGED <<loc, status, needed, over, owed, apUsed, settings,
                       faults>>
    BY <1>1 DEF Associate
  <2>2. \/ pending' = pending \cup {"connect"} /\ missed' = missed
        \/ missed < MaxMissed /\ missed' = missed + 1 /\ pending' = pending
    BY <1>1 DEF Associate, Tell, Miss
  <2>3. Sets'
    BY <2>1, <2>2 DEF IInv, Sets, Links, Events
  <2>4. Truth'
    BY <2>1, Zenon DEF IInv, Truth, settings
  <2>5. Counts'
    BY <2>1, <2>2, SMT DEF IInv, Counts
  <2>6. Backed(status, pending, link)'
    BY <2>1, <2>2, <1>b DEF IInv, Backed, Excused, settings
  <2> QED
    BY <2>1, <2>3, <2>4, <2>5, <2>6
    DEF IInv, FlagsTogether, EndedIsDisconnected
<1>2. CASE GetIP
  <2>1. /\ link' = "up"
        /\ UNCHANGED <<loc, needed, over, owed, apUsed, settings, faults>>
    BY <1>2 DEF GetIP
  <2>2. \/ /\ pending' = pending \cup {"gotIP"} /\ missed' = missed
           /\ status' = status \ {"gotIP"}
        \/ /\ missed < MaxMissed /\ missed' = missed + 1
           /\ pending' = pending /\ status' = status
    BY <1>2 DEF GetIP, TellGotIP, Tell, Miss
  <2>3. status' \in {status, status \ {"gotIP"}}
    BY <2>2
  <2>4. Sets'
    BY <2>1, <2>2, <2>3 DEF IInv, Sets, Links, Events
  <2>5. Truth'
    BY <2>1, Zenon DEF IInv, Truth, settings
  <2>6. Counts'
    BY <2>1, <2>2, SMT DEF IInv, Counts
  <2> QED
    BY <2>1, <2>3, <2>4, <2>5, <2>6
    DEF IInv, FlagsTogether, EndedIsDisconnected, Ended, Backed, Disconnected
<1>3. CASE NewAddress
  <2>1. /\ pending' = pending \cup {"gotIP"}
        /\ status' = status \ {"gotIP"}
        /\ faults < MaxFaults /\ faults' = faults + 1 /\ missed' = missed
        /\ UNCHANGED <<loc, needed, over, link, owed, apUsed, settings>>
    BY <1>3 DEF NewAddress, TellGotIP, Tell, Disturb
  <2>2. status' = Initialized => status = Initialized
    BY <2>1 DEF IInv, FlagsTogether, Initialized
  <2>3. Sets'
    BY <2>1 DEF IInv, Sets, Events
  <2>4. Truth'
    BY <2>1, Zenon DEF IInv, Truth, settings
  <2>5. Counts'
    BY <2>1, SMT DEF IInv, Counts
  <2> QED
    BY <2>1, <2>2, <2>3, <2>4, <2>5
    DEF IInv, FlagsTogether, EndedIsDisconnected, Disconnected, Backed,
        Excused, settings
<1>4. CASE DHCPTimeout
  <2>1. /\ pending' = pending \cup {"dhcp"}
        /\ faults < MaxFaults /\ faults' = faults + 1 /\ missed' = missed
        /\ UNCHANGED <<loc, status, needed, over, link, owed, apUsed, settings>>
    BY <1>4 DEF DHCPTimeout, Tell, Disturb
  <2>2. Sets'
    BY <2>1 DEF IInv, Sets, Events
  <2>3. Truth'
    BY <2>1, Zenon DEF IInv, Truth, settings
  <2>4. Counts'
    BY <2>1, SMT DEF IInv, Counts
  <2> QED
    BY <2>1, <2>2, <2>3, <2>4
    DEF IInv, FlagsTogether, EndedIsDisconnected, Backed, Excused, settings
<1>5. CASE LinkLost \/ LateDisconnect
  <2>1. /\ link' \in {"down", link}
        /\ faults' = faults \/ (faults < MaxFaults /\ faults' = faults + 1)
        /\ UNCHANGED <<loc, status, needed, apUsed, settings>>
        /\ owed' \in {owed, FALSE} /\ over' \in {over, TRUE}
    BY <1>5 DEF LinkLost, LateDisconnect, Disturb
  <2>2. \/ pending' = pending \cup {"disconnect"} /\ missed' = missed
        \/ missed < MaxMissed /\ missed' = missed + 1 /\ pending' = pending
    BY <1>5 DEF LinkLost, LateDisconnect, Tell, Miss
  <2>3. Sets'
    BY <2>1, <2>2 DEF IInv, Sets, Links, Events
  <2>4. Truth'
    BY <2>1, Zenon DEF IInv, Truth, settings
  <2>5. Counts'
    BY <2>1, <2>2, SMT DEF IInv, Counts
  <2>6. Excused(pending)'
    BY <2>2, <1>b DEF Excused
  <2> QED
    BY <2>1, <2>3, <2>4, <2>5, <2>6
    DEF IInv, FlagsTogether, EndedIsDisconnected, Backed
<1>6. CASE Timeout \/ ApClient \/ ApClientLeaves \/ WifiConnect
  <2>1. /\ UNCHANGED <<loc, status, pending, link, owed, settings, missed>>
        /\ needed' \in {needed, TRUE} /\ over' \in {over, TRUE}
        /\ apUsed' \in {apUsed, TRUE, FALSE}
        /\ faults' = faults \/ (faults < MaxFaults /\ faults' = faults + 1)
    BY <1>6, Zenon DEF Timeout, ApClient, ApClientLeaves, WifiConnect, Disturb, program
  <2>2. Truth'
    BY <2>1, Zenon DEF IInv, Truth, settings
  <2>3. Counts'
    BY <2>1, SMT DEF IInv, Counts
  <2> QED
    BY <2>1, <2>2, <2>3
    DEF IInv, Sets, FlagsTogether, EndedIsDisconnected, Backed, Excused,
        settings
<1>7. CASE WifiDisconnect
  <2>1. /\ status' = Disconnected /\ pending' = pending \cup {"disconnect"}
        /\ link' = "down" /\ owed' \in BOOLEAN
        /\ faults < MaxFaults /\ faults' = faults + 1
        /\ loc = "loop"
        /\ UNCHANGED <<loc, needed, over, apUsed, settings, missed>>
    BY <1>7, Zenon DEF WifiDisconnect, Drop, Disturb, IInv, Truth
  <2>2. Sets'
    BY <2>1 DEF IInv, Sets, Links, Events, Disconnected
  <2>3. Truth'
    BY <2>1, Zenon DEF IInv, Truth, settings
  <2>4. Counts'
    BY <2>1, SMT DEF IInv, Counts
  <2> QED
    BY <2>1, <2>2, <2>3, <2>4
    DEF IInv, FlagsTogether, EndedIsDisconnected, Backed, Excused,
        Disconnected
<1>8. CASE StartPass
  <2>1. /\ loc = "loop" /\ loc' \in {"waiting", "check"}
        /\ UNCHANGED <<status, pending, needed, over, link, owed, settings>>
    BY <1>8 DEF StartPass
  <2>2. Truth'
    BY <1>a, <1>8, <2>1, Zenon DEF Loop, IInv, Truth, settings
  <2> QED
    BY <1>a, <1>8, <2>1, <2>2
    DEF Loop, IInv, Sets, Places, FlagsTogether, EndedIsDisconnected, Ended,
        Backed, Excused, settings
<1>9. CASE ProcessDisconnect
  <2>1. /\ needed' = FALSE /\ over' \in {over, FALSE} /\ owed' = owed
        /\ link' = link \/ (link' = "connecting" /\ link = "down")
    BY <1>9, Zenon DEF ProcessDisconnect, Begin
  <2>2. Truth'
    BY <1>a, <1>9, <2>1, Zenon DEF Loop, IInv, Truth, settings
  <2>3. link' \in Links
    BY <2>1 DEF IInv, Sets, Links
  <2>4. CASE "disconnect" \in pending
    <3>1. /\ status' = Disconnected /\ loc' = "disconnected"
          /\ pending' = pending \ {"disconnect"}
      BY <1>9, <2>4 DEF ProcessDisconnect
    <3> QED
      BY <1>a, <1>9, <2>2, <2>3, <3>1
      DEF Loop, IInv, Sets, Places, FlagsTogether, EndedIsDisconnected, Backed,
          Disconnected, Initialized
  <2>5. CASE "disconnect" \notin pending
    <3>1. PassInv
      BY <1>9, <2>5, ProcessConnectInv DEF ProcessDisconnect
    <3> QED
      BY <1>a, <1>9, <2>1, <2>2, <2>3, <3>1, PassKeeps
      DEF Loop, IInv, Sets, settings
  <2> QED
    BY <2>4, <2>5
<1>10. CASE DisconnectDone
  <2>1. loc = "disconnected" /\ status = Disconnected
    BY <1>10 DEF DisconnectDone, IInv, EndedIsDisconnected, Ended
  <2>2. CASE restart
    <3>1. /\ link' = "down" /\ owed' \in BOOLEAN /\ loc' = "off"
          /\ UNCHANGED <<status, pending, needed, over>>
      BY <1>10, <2>2, Zenon DEF DisconnectDone, Drop, IInv, Truth
    <3>2. Truth'
      BY <1>a, <1>10, <3>1, Zenon DEF Loop, IInv, Truth, settings
    <3> QED
      BY <1>a, <1>10, <2>1, <3>1, <3>2
      DEF Loop, IInv, Sets, Places, Links, FlagsTogether, EndedIsDisconnected,
          Backed, Disconnected, Initialized
  <2>3. CASE ~restart
    <3>1. ProcessConnect /\ UNCHANGED <<link, owed, needed, over>>
      BY <1>10, <2>3 DEF DisconnectDone
    <3>2. Truth'
      BY <1>a, <1>10, <3>1, Zenon DEF Loop, IInv, Truth, settings
    <3>3. PassInv
      BY <2>1, <3>1, ProcessConnectInv
    <3> QED
      BY <1>a, <1>10, <3>1, <3>2, <3>3, PassKeeps
      DEF Loop, IInv, Sets, settings
  <2> QED
    BY <2>2, <2>3
<1>11. CASE OffDone
  <2>1. loc = "off" /\ ProcessConnect /\ UNCHANGED <<needed, over, link, owed>>
    BY <1>11 DEF OffDone
  <2>2. Truth'
    BY <1>a, <1>11, <2>1, Zenon DEF Loop, IInv, Truth, settings
  <2>3. PassInv
    BY <2>1, ProcessConnectInv
  <2> QED
    BY <1>a, <1>11, <2>1, <2>2, <2>3, PassKeeps DEF Loop, IInv, Sets, settings
<1>12. CASE TimeoutDone
  <2>1. /\ EndPass(status, pending) /\ UNCHANGED <<needed, over>>
        /\ link' \in {"down", link} /\ owed' \in BOOLEAN
    BY <1>12, Zenon DEF TimeoutDone, Drop, IInv, Truth
  <2>2. status = Disconnected
    BY <1>12 DEF TimeoutDone, IInv, EndedIsDisconnected, Ended
  <2>3. Truth'
    BY <1>a, <1>12, <2>1, Zenon DEF Loop, IInv, Truth, settings
  <2>4. status # Initialized /\ "gotIP" \notin status
    BY <2>2 DEF Disconnected, Initialized
  <2>5. /\ status' \in SUBSET Flags /\ pending' \in SUBSET Events
        /\ loc' = "check" /\ "gotIP" \notin status'
    BY <2>1, <2>4, EndPassInv DEF IInv, Sets
  <2>6. status' = Disconnected
    BY <2>1, <2>2, Zenon DEF EndPass, Disconnected
  <2> QED
    BY <1>a, <1>12, <2>1, <2>3, <2>5, <2>6
    DEF Loop, IInv, Sets, Places, Links, FlagsTogether, EndedIsDisconnected,
        Ended, Backed, Disconnected, Initialized
<1>13. CASE ConnectDone
  <2>1. UNCHANGED <<needed, over, link, owed>>
    BY <1>13 DEF ConnectDone
  <2>2. Truth'
    BY <1>a, <1>13, <2>1, Zenon DEF Loop, IInv, Truth, settings
  <2>3. CASE static
    <3>1. ProcessIP(status \ {"gotIP"}, pending \cup {"gotIP"})
      BY <1>13, <2>3 DEF ConnectDone
    <3>2. Backed(status \ {"gotIP"}, pending \cup {"gotIP"}, link)
      BY <2>3 DEF Backed, Excused
    <3>3. /\ status \ {"gotIP"} \in SUBSET Flags
          /\ pending \cup {"gotIP"} \in SUBSET Events
      BY DEF IInv, Sets, Events
    <3>4. PassInv
      BY <3>1, <3>2, <3>3, ProcessIPInv DEF PassInv
    <3> QED
      BY <1>a, <1>13, <2>1, <2>2, <3>4, PassKeeps
      DEF Loop, IInv, Sets, settings
  <2>4. CASE ~static
    <3>1. ProcessIP(status, pending)
      BY <1>13, <2>4 DEF ConnectDone
    <3>2. PassInv
      BY <1>13, <3>1, ProcessIPInv
      DEF ConnectDone, PassInv, IInv, Sets, FlagsTogether
    <3> QED
      BY <1>a, <1>13, <2>1, <2>2, <3>2, PassKeeps
      DEF Loop, IInv, Sets, settings
  <2> QED
    BY <2>3, <2>4
<1>14. CASE CheckNetwork
  <2>1. loc = "check" /\ loc' = "loop" /\ Check
    BY <1>14 DEF CheckNetwork
  <2>2. \/ /\ UNCHANGED <<status, pending, over, link, owed>>
           /\ needed' \in BOOLEAN
        \/ /\ status' = Disconnected /\ pending' = {"disconnect"}
           /\ needed' = TRUE /\ over' = TRUE
           /\ link' = "down" /\ owed' \in BOOLEAN
    BY <2>1, Zenon DEF Check, ResetWiFi, Drop, IInv, Truth
  <2>3. Truth'
    BY <1>a, <1>14, <2>2, Zenon DEF Loop, IInv, Truth, settings
  <2>4. Sets'
    BY <2>1, <2>2
    DEF IInv, Sets, Places, Links, Events, Disconnected
  <2> QED
    BY <1>a, <1>14, <2>1, <2>2, <2>3, <2>4
    DEF Loop, IInv, FlagsTogether, EndedIsDisconnected, Ended, Backed,
        Excused, Disconnected, Initialized, settings
<1>15. CASE WaitForNetwork
  <2>1. loc = "gotIP" /\ loc' = "gotIP" /\ Check
    BY <1>15 DEF WaitForNetwork
  <2>2. status # Initialized
    BY <2>1 DEF IInv, FlagsTogether, Initialized
  <2>3. UNCHANGED <<status, pending, over, link, owed>> /\ needed' \in BOOLEAN
    BY <2>1, <2>2, Zenon DEF Check, Valid, IInv, Truth
  <2>4. Truth'
    BY <1>a, <1>15, <2>3, Zenon DEF Loop, IInv, Truth, settings
  <2> QED
    BY <1>a, <1>15, <2>1, <2>3, <2>4
    DEF Loop, IInv, Sets, FlagsTogether, EndedIsDisconnected, Backed, Excused,
        settings
<1>16. CASE GotIPDone
  <2>1. /\ loc = "gotIP" /\ ProcessTimeout(status, pending)
        /\ UNCHANGED <<needed, over, link, owed>>
    BY <1>16 DEF GotIPDone
  <2>2. Truth'
    BY <1>a, <1>16, <2>1, Zenon DEF Loop, IInv, Truth, settings
  <2>3. "connected" \in status
    BY <2>1 DEF IInv, FlagsTogether
  <2>4. PassInv
    BY <2>1, <2>3, ProcessTimeoutInv
    DEF PassInv, IInv, Sets, FlagsTogether
  <2> QED
    BY <1>a, <1>16, <2>1, <2>2, <2>4, PassKeeps DEF Loop, IInv, Sets, settings
<1>17. CASE UNCHANGED vars
  <2>1. UNCHANGED <<loc, status, pending, needed, over, link, owed, apUsed,
                    static, restart, faults, missed>>
    BY <1>17, Zenon DEF vars, program, settings
  <2>2. Truth'
    BY <2>1, Zenon DEF IInv, Truth
  <2> QED
    BY <2>1, <2>2
    DEF IInv, Sets, Counts, FlagsTogether, EndedIsDisconnected, Backed,
        Excused
<1> QED
  BY <1>1, <1>2, <1>3, <1>4, <1>5, <1>6, <1>7, <1>8, <1>9, <1>10, <1>11,
     <1>12, <1>13, <1>14, <1>15, <1>16, <1>17, Zenon
  DEF Next, Station, Loop

-----------------------------------------------------------------------------
LEMMA InvAlways == Spec => []IInv
BY InvInit, InvStep, PTL DEF Spec

\* The state of the connection keeps its type, and after each pass the flags
\* of the connection and of the address have given way to the services.
THEOREM TypeCorrect == Spec => []TypeOK
<1>1. IInv => TypeOK
  BY InvImplies
<1> QED
  BY <1>1, InvAlways, PTL

\* The unit does not take its services for initialised over a link that was
\* lost, whatever the order in which callbacks, timeouts, commands and passes
\* of the main loop come.
THEOREM ServicesBacked == Spec => []ServicesNeedLink
<1>1. IInv => ServicesNeedLink
  BY InvImplies
<1> QED
  BY <1>1, InvAlways, PTL

=============================================================================
