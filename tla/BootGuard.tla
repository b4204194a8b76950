------------------------------ MODULE BootGuard ------------------------------
(***************************************************************************)
(* The search for what makes the unit crash: bootFailedCount.              *)
(*                                                                         *)
(* RTC memory counts the boots since the unit was last connected.  After   *)
(* Limit of them each further boot leaves out one of the enabled tasks,    *)
(* controllers and notifications, the next one each time, in Settings but  *)
(* not in the file they were loaded from.  The count is a byte.            *)
(*                                                                         *)
(* An item is a task, a controller or a notification, numbered in the      *)
(* order of the search.  Some items make the unit crash, in setup() or in  *)
(* loop().  ESP32 has no RTC memory: each of its boots is a cold boot.     *)
(***************************************************************************)
EXTENDS Integers, FiniteSets

CONSTANTS
    Tasks, Controllers, Notifications,  \* the items, by kind
    Limit,    \* failed boots before the search begins (10)
    Bytes,    \* number of values of a byte (256)
    Upgrades, \* whether new builds are written
    Defects   \* the possible defects: functions from Items to Stages

Items  == Tasks \cup Controllers \cup Notifications
Stages == {"none", "setup", "loop"}

ASSUME BootGuardAssumption ==
    /\ Items \subseteq Nat /\ IsFiniteSet(Items)
    /\ \A t \in Tasks, i \in Controllers \cup Notifications : t < i
    /\ \A c \in Controllers, n \in Notifications : c < n
    /\ Limit \in Nat /\ Bytes \in Nat
    /\ Limit + Cardinality(Items) < Bytes
    /\ Upgrades \in BOOLEAN
    /\ Defects \subseteq [Items -> Stages]

VARIABLES
    flash,      \* the enabled items in the settings file
    ram,        \* the enabled items in Settings
    failed,     \* RTC.bootFailedCount
    boots,      \* RTC.bootCounter, up to the value that matters
    powered,    \* RTC memory has kept its content
    phase,      \* "off", "setup" (plugins are initialised) or "loop"
    firstLoop,  \* firstLoop
    wd,         \* wdcounter, up to the value that matters
    net,        \* NetworkConnected()
    outdated,   \* Settings.Build of the file is not BUILD
    defect,     \* what is wrong with each item
    row         \* history: crashes in setup() since loop() was last reached,
                \* the power came on or a build was written; up to Bytes + 1

vars == <<flash, ram, failed, boots, powered, phase, firstLoop, wd, net,
          outdated, defect, row>>

Settled == 6

Init ==
    /\ flash \in SUBSET Items /\ ram = {}
    /\ failed = 0 /\ boots = 0 /\ powered = FALSE
    /\ phase = "off" /\ firstLoop = TRUE /\ wd = 0 /\ net = FALSE
    /\ outdated = FALSE
    /\ defect \in Defects
    /\ row = 0

Rank(i, enabled) == Cardinality({j \in enabled : j <= i})

\* Mutant: all items up to the n-th are left out.
WithoutUpTo(n, kind, enabled) ==
    enabled \ {i \in enabled \cap kind : Rank(i, enabled \cap kind) <= n}

\* The n-th enabled item of a kind is left out ...
Without(n, kind, enabled) ==
    enabled \ {i \in enabled \cap kind : Rank(i, enabled \cap kind) = n}

\* ... and what remains of n is for the next kind.
Remaining(n, kind, enabled) ==
    LET enabledOfKind == Cardinality(enabled \cap kind)
    IN  IF n > enabledOfKind THEN n - enabledOfKind ELSE 0

\* Mutant: notifications are forgotten.
LeaveOutTaskOrController(n, enabled) ==
    Without(Remaining(n, Tasks, enabled), Controllers,
            Without(n, Tasks, enabled))

\* disablePlugin(), disableController(), disableNotification().
LeaveOut(n, enabled) ==
    LET afterTasks       == Remaining(n, Tasks, enabled)
        afterControllers == Remaining(afterTasks, Controllers, enabled)
    IN  Without(afterControllers, Notifications,
          Without(afterTasks, Controllers,
            Without(n, Tasks, enabled)))

\* Mutant: only the first boot after the limit leaves something out.
SearchingOnce(count, bootCount) == count = Limit + 1 /\ bootCount > Limit

Searching(count, bootCount) == count > Limit /\ bootCount > Limit

LoadedSettings(count, bootCount) ==
    IF Searching(count, bootCount)
    THEN LeaveOut(count - Limit, flash)
    ELSE flash

CountBoot(count) == IF count + 1 = Bytes THEN 0 ELSE count + 1

\* setup() up to the initialisation of plugins.  A new build saves Settings
\* (BuildFixes), with what was left out.
Boot ==
    /\ phase = "off"
    /\ failed' = IF powered THEN CountBoot(failed) ELSE 0
    /\ boots'  = IF powered
                 THEN IF boots > Limit THEN boots ELSE boots + 1
                 ELSE 0
    /\ powered' = TRUE
    /\ ram' = LoadedSettings(failed', boots')
    /\ flash' = IF outdated THEN ram' ELSE flash
    /\ outdated' = FALSE
    /\ phase' = "setup"
    /\ firstLoop' = TRUE /\ wd' = 0 /\ net' = FALSE
    /\ UNCHANGED <<defect, row>>

Crashes(stage) == \E i \in ram : defect[i] = stage

CrashInSetup ==
    /\ phase = "setup" /\ Crashes("setup")
    /\ phase' = "off"
    /\ row' = IF row <= Bytes THEN row + 1 ELSE row
    /\ UNCHANGED <<flash, ram, failed, boots, powered, firstLoop, wd, net,
                   outdated, defect>>

\* CPluginInit(), NPluginInit() and PluginInit() return.
SetupDone ==
    /\ phase = "setup" /\ ~Crashes("setup")
    /\ phase' = "loop"
    /\ row' = 0
    /\ UNCHANGED <<flash, ram, failed, boots, powered, firstLoop, wd, net,
                   outdated, defect>>

FirstConnection == net /\ firstLoop

\* The part of loop() that takes the boot for a success: the first time the
\* network is connected, or after a few minutes.
Loop ==
    /\ phase = "loop"
    /\ FirstConnection \/ wd \div 2 > 2
    /\ firstLoop' = (firstLoop /\ ~net)
    /\ failed' = 0
    /\ UNCHANGED <<flash, ram, boots, powered, phase, wd, net, outdated,
                   defect, row>>

RunEach30Seconds ==
    /\ phase = "loop" /\ wd < Settled
    /\ wd' = wd + 1
    /\ UNCHANGED <<flash, ram, failed, boots, powered, phase, firstLoop, net,
                   outdated, defect, row>>

CrashInLoop ==
    /\ phase = "loop" /\ Crashes("loop")
    /\ phase' = "off"
    /\ UNCHANGED <<flash, ram, failed, boots, powered, firstLoop, wd, net,
                   outdated, defect, row>>

\* Deep sleep, for which readyForSleep() is about time only: the network may be
\* there or not.  Or a reboot, by a command, a page or delayedReboot().
Restart ==
    /\ phase = "loop"
    /\ phase' = "off"
    /\ UNCHANGED <<flash, ram, failed, boots, powered, firstLoop, wd, net,
                   outdated, defect, row>>

PowerFailure ==
    /\ powered
    /\ powered' = FALSE /\ phase' = "off"
    /\ row' = 0
    /\ UNCHANGED <<flash, ram, failed, boots, firstLoop, wd, net, outdated,
                   defect>>

\* A new build is written to flash, over the serial line.
Upgrade ==
    /\ Upgrades
    /\ phase' = "off" /\ outdated' = TRUE
    /\ row' = 0
    /\ UNCHANGED <<flash, ram, failed, boots, powered, firstLoop, wd, net,
                   defect>>

\* A page enables or disables an item, and saves all settings.
SavePage(i) ==
    /\ phase = "loop"
    /\ ram' = IF i \in ram THEN ram \ {i} ELSE ram \cup {i}
    /\ flash' = ram'
    /\ UNCHANGED <<failed, boots, powered, phase, firstLoop, wd, net, outdated,
                   defect, row>>

\* Command_RTC_Clear().
ClearRTC ==
    /\ phase = "loop"
    /\ failed' = 0 /\ boots' = 0
    /\ UNCHANGED <<flash, ram, powered, phase, firstLoop, wd, net, outdated,
                   defect, row>>

NetworkChange ==
    /\ phase = "loop"
    /\ net' = ~net
    /\ UNCHANGED <<flash, ram, failed, boots, powered, phase, firstLoop, wd,
                   outdated, defect, row>>

Next ==
    \/ Boot \/ CrashInSetup \/ SetupDone
    \/ Loop \/ RunEach30Seconds \/ CrashInLoop
    \/ Restart \/ PowerFailure \/ Upgrade
    \/ \E i \in Items : SavePage(i)
    \/ ClearRTC \/ NetworkChange

\* The processor runs what it has been given: it boots, crashes or goes on.
Fairness == WF_vars(Boot) /\ WF_vars(CrashInSetup) /\ WF_vars(SetupDone)

Spec == Init /\ [][Next]_vars /\ Fairness

-----------------------------------------------------------------------------
TypeOK ==
    /\ flash \subseteq Items /\ ram \subseteq Items
    /\ failed \in 0..(Bytes - 1) /\ boots \in 0..(Limit + 1)
    /\ powered \in BOOLEAN /\ firstLoop \in BOOLEAN
    /\ net \in BOOLEAN /\ outdated \in BOOLEAN
    /\ phase \in {"off", "setup", "loop"}
    /\ wd \in 0..Settled
    /\ defect \in Defects
    /\ row \in 0..(Bytes + 1)

\* A boot leaves out at most one item: with a remainder passed on where the
\* last list has used it up, an item of each kind would be missing at once.
AtMostOneLeftOut == Cardinality(flash \ ram) <= 1 \/ phase = "off"

SetupCulprits == {i \in flash : defect[i] = "setup"}

\* Whatever restarts and saves came before, and as long as the power is on, a
\* single item that crashes the unit in setup() is left out by the time the
\* count has gone round once.  (A restart before the network is connected
\* leads past the culprit, and the search comes back to it only when the byte
\* has wrapped.)
FoundInTime == Cardinality(SetupCulprits) = 1 => row <= Bytes

\* A unit with one such item is always up again at some time, unless the power
\* fails for ever.
SearchEnds ==
    [](Cardinality(SetupCulprits) <= 1)
        => (<>[](powered /\ ~outdated) => []<>(phase = "loop"))

=============================================================================
