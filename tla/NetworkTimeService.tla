------------------------ MODULE NetworkTimeService ------------------------
(***************************************************************************)
(* src/src/NetworkTimeService.cpp: the setup portal, the open-Wi-Fi scan   *)
(* with its NTP attempts and captive-portal automation, and the schedule   *)
(* of the next refresh.  Everything here runs on the main task; each       *)
(* method of the class is an operator from the service's state n to its    *)
(* next one, so that a handler composes the calls the code makes.          *)
(*                                                                         *)
(* Instants are kept relative to millis(): attemptIn and stopIn count down *)
(* to nextAttemptMs_ and portalStopAtMs_; age, windowAge and bootAge count *)
(* up from modeStartedMs_, wifiWindowStartedMs_ and bootStartedMs_.  All   *)
(* of them stop at the value from which the code tells no difference.      *)
(* Fields that are only read in the modes before Idle are forgotten on the *)
(* way to Idle.                                                            *)
(***************************************************************************)
EXTENDS PendingSlot, FiniteSetsExt

CONSTANTS
  BleWindow, SetupWindow,               \* kBleWindowMs, kInitialSetupWindowMs
  PortalRetry, PortalStopDelay,         \* kPortalStartRetryMs, the 1500 ms answer time
  ModeTimeout,                          \* scan, connect and NTP timeouts
  AutomationTimeout, WifiWindow,        \* kCaptivePortalTimeoutMs, kWifiWindowMs
  BleGrace, BleResync, WifiResync,      \* the refresh intervals
  MaxPortalStarts,                      \* kMaximumPortalStartAttempts
  Bssid, NoBssid,                       \* access points; none active
  MaxAttempts, FailedCapacity           \* kMaximumWifiAttemptsPerWindow, kMaximumFailedNetworks

ASSUME DurationsAssumption ==
  /\ {BleWindow, SetupWindow, PortalRetry, PortalStopDelay, ModeTimeout, AutomationTimeout,
      WifiWindow, BleGrace, BleResync, WifiResync, MaxPortalStarts, MaxAttempts,
      FailedCapacity} \subseteq Nat \ {0}
  /\ BleWindow < SetupWindow
  /\ NoBssid \notin Bssid

\* Two minutes and a day by default; AppConfig.h asserts the order above but not this one.
ASSUME ResyncAssumption == SetupWindow <= WifiResync

VARIABLE net

Mode == {"kWaitingForBle", "kPortal", "kScanning", "kConnecting", "kWaitingForNtp",
         "kWaitingForPortalAutomation", "kIdle"}

WifiModes == {"kScanning", "kConnecting", "kWaitingForNtp", "kWaitingForPortalAutomation"}

NoStop == -1

MaxDelay == Max({BleWindow, SetupWindow, PortalRetry, BleGrace, BleResync, WifiResync})

NetState ==
  [mode : Mode, attemptIn : 0..MaxDelay, age : 0..Max({ModeTimeout, AutomationTimeout}),
   windowAge : 0..WifiWindow, bootAge : 0..SetupWindow, stopIn : NoStop..PortalStopDelay,
   initial : BOOLEAN, confirmed : BOOLEAN, overdue : BOOLEAN, route : SyncRoute,
   armed : BOOLEAN, grace : BOOLEAN, persistent : BOOLEAN, accepted : BOOLEAN,
   schedule : BOOLEAN, starts : 0..MaxPortalStarts,
   candidates : SUBSET Bssid, active : Bssid \union {NoBssid}, attempts : 0..MaxAttempts,
   failed : SUBSET Bssid, exhausted : BOOLEAN, retried : BOOLEAN,
   radio : {"off", "ap", "sta"}, web : BOOLEAN, sntp : BOOLEAN, answered : BOOLEAN,
   job : BOOLEAN]

NetType == net \in NetState

wifiBusy == net.mode \in WifiModes

wifiWindowExpired(n) == n.windowAge >= WifiWindow

initialSyncPhase(elapsed) ==
  IF elapsed < BleWindow THEN "kBleOnly"
  ELSE IF elapsed < SetupWindow THEN "kPortal" ELSE "kNtp"

\* begin(): trust and route come from TimeKeeper; delay is what remains of the
\* refresh interval.
begin(confirmed, route, delay) ==
  [mode |-> IF confirmed THEN "kIdle" ELSE "kWaitingForBle",
   attemptIn |-> IF confirmed THEN delay ELSE BleWindow,
   age |-> 0, windowAge |-> 0, bootAge |-> 0, stopIn |-> NoStop,
   initial |-> ~confirmed, confirmed |-> confirmed, overdue |-> FALSE,
   route |-> IF confirmed THEN route ELSE "kUnselected",
   armed |-> confirmed, grace |-> FALSE, persistent |-> FALSE, accepted |-> FALSE,
   schedule |-> FALSE, starts |-> 0,
   candidates |-> {}, active |-> NoBssid, attempts |-> 0, failed |-> {}, exhausted |-> FALSE,
   retried |-> FALSE, radio |-> "off", web |-> FALSE, sntp |-> FALSE, answered |-> FALSE,
   job |-> FALSE]

----------------------------------------------------------------------------
(* Stopping and scheduling.                                                *)

stopPortal(n) ==
  [n EXCEPT !.web = FALSE, !.radio = IF @ = "ap" THEN "off" ELSE @]

\* What only the modes before Idle read.
Forgotten(n) ==
  [n EXCEPT !.age = 0, !.windowAge = 0, !.stopIn = NoStop, !.accepted = FALSE,
            !.candidates = {}, !.active = NoBssid, !.attempts = 0, !.retried = FALSE]

\* MUTANT: the portal's server and access point are left on.
StopLeavesPortal(n) ==
  [Forgotten(n) EXCEPT !.sntp = FALSE, !.answered = FALSE, !.job = FALSE,
                       !.radio = IF @ = "sta" THEN "off" ELSE @,
                       !.mode = "kIdle", !.grace = FALSE, !.persistent = FALSE,
                       !.schedule = FALSE]

\* WiFi.disconnect(true) turns the station off, not an access point.
stopNetworkActivity(n) ==
  LET m == Forgotten(IF n.mode = "kPortal" THEN stopPortal(n) ELSE n)
  IN  [m EXCEPT !.sntp = IF n.mode = "kWaitingForNtp" THEN FALSE ELSE @,
                !.answered = IF n.mode = "kWaitingForNtp" THEN FALSE ELSE @,
                !.job = FALSE,
                !.radio = IF @ = "sta" THEN "off" ELSE @,
                !.mode = "kIdle", !.grace = FALSE, !.persistent = FALSE, !.schedule = FALSE]

armResync(n, delay) ==
  [stopNetworkActivity(n) EXCEPT !.armed = TRUE, !.attemptIn = delay]

\* MUTANT: a failed attempt does not schedule the next one.
FailUnarmed(n) ==
  [stopNetworkActivity(n) EXCEPT !.initial = FALSE, !.overdue = n.confirmed,
                                 !.attemptIn = WifiResync]

finishFailedAttempt(n) ==
  [stopNetworkActivity(n) EXCEPT !.initial = FALSE, !.overdue = n.confirmed,
                                 !.armed = TRUE, !.attemptIn = WifiResync]

\* The active candidate joins the failed ones; with no room left Wi-Fi is over
\* until the next boot.
rememberFailure(n) ==
  IF n.active \in n.failed \union {NoBssid} THEN n
  ELSE IF Cardinality(n.failed) < FailedCapacity
  THEN [n EXCEPT !.failed = @ \union {n.active}]
  ELSE [n EXCEPT !.exhausted = TRUE]

----------------------------------------------------------------------------
(* The setup portal.                                                       *)

\* started: the access point came up.
startPortal(n, persistent, started) ==
  LET tries == Min({n.starts + 1, MaxPortalStarts})
      m == [n EXCEPT !.persistent = persistent, !.accepted = FALSE, !.stopIn = NoStop,
                     !.schedule = FALSE]
  IN  IF started
      THEN [m EXCEPT !.radio = "ap", !.web = TRUE, !.mode = "kPortal", !.starts = 0]
      ELSE LET failed == [m EXCEPT !.mode = "kWaitingForBle", !.starts = tries,
                                   !.radio = IF @ = "ap" THEN "off" ELSE @]
           IN  IF tries < MaxPortalStarts THEN [failed EXCEPT !.attemptIn = PortalRetry]
               ELSE IF n.initial THEN [failed EXCEPT !.attemptIn = SetupWindow - n.bootAge]
               ELSE finishFailedAttempt(failed)

\* handlePortalTime, for a form that parses and is acceptable; a second one is
\* answered without applying it.
handlePortalTime(n) ==
  IF n.accepted THEN n ELSE [n EXCEPT !.accepted = TRUE, !.stopIn = PortalStopDelay]

----------------------------------------------------------------------------
(* Open Wi-Fi and NTP.  pick stands for the best ranked untried candidate: *)
(* signal strengths differ from scan to scan, so any of them may be.       *)

MayConnect(n) ==
  ~n.exhausted /\ n.attempts < MaxAttempts /\ ~wifiWindowExpired(n) /\ n.candidates # {}

connectNextCandidate(n, pick) ==
  IF ~MayConnect(n) THEN finishFailedAttempt(n)
  ELSE LET next == IF pick \in n.candidates THEN pick ELSE CHOOSE b \in n.candidates : TRUE
       IN  [n EXCEPT !.active = next, !.candidates = @ \ {next}, !.attempts = @ + 1,
                     !.retried = FALSE, !.mode = "kConnecting", !.age = 0]

\* Every way of giving up on the active candidate.
failCandidate(n, pick) == connectNextCandidate(rememberFailure(n), pick)

\* MUTANT: a failed access point is tried again.
ProcessAll(n, found, pick) ==
  connectNextCandidate([n EXCEPT !.candidates = found], pick)

\* found: the open networks the scan retained.
processScan(n, found, pick) ==
  connectNextCandidate([n EXCEPT !.candidates = found \ n.failed], pick)

\* The scan runs in the background, so scanNetworks returns no count at once and its
\* result is TickScanning's.
startScan(n) ==
  IF n.exhausted THEN finishFailedAttempt(n)
  ELSE LET m == IF n.mode = "kPortal" THEN stopPortal(n) ELSE n
       IN  [m EXCEPT !.initial = FALSE, !.windowAge = 0, !.attempts = 0, !.candidates = {},
                     !.active = NoBssid, !.radio = "sta", !.mode = "kScanning", !.age = 0]

startNtp(n) ==
  [n EXCEPT !.sntp = TRUE, !.answered = FALSE, !.mode = "kWaitingForNtp", !.age = 0]

\* started: the automation worker took the job.
startPortalAutomation(n, started, pick) ==
  IF started
  THEN [n EXCEPT !.job = TRUE, !.mode = "kWaitingForPortalAutomation", !.age = 0]
  ELSE failCandidate(n, pick)

\* captiveportal::actionAfterNtpFailure
TryPortalAfterNtpFailure(ready, retried, expired) == ready /\ ~retried /\ ~expired

\* accepted: SNTP answered with a valid and plausible time.
finishNtp(n, accepted, worker, pick) ==
  LET m == [n EXCEPT !.sntp = FALSE, !.answered = FALSE]
  IN  IF accepted THEN [stopNetworkActivity(m) EXCEPT !.armed = FALSE]
      ELSE IF TryPortalAfterNtpFailure(worker # "absent", n.retried, wifiWindowExpired(n))
      THEN startPortalAutomation(m, worker = "free", pick)
      ELSE failCandidate(m, pick)

finishPortalAutomation(n, submitted, pick) ==
  IF submitted THEN startNtp([n EXCEPT !.retried = TRUE, !.job = FALSE])
  ELSE failCandidate([n EXCEPT !.job = FALSE], pick)

----------------------------------------------------------------------------
(* The entry points: onExternalTimeSync and tick, by mode.                 *)

\* MUTANT: a sync leaves the Wi-Fi work of another source running.
SyncLeavesWifi(n, source) ==
  LET m == [n EXCEPT !.confirmed = TRUE, !.initial = FALSE, !.overdue = FALSE,
                     !.route = SelectedRoute(@, source)]
  IN  IF n.mode \in {"kPortal"} \union WifiModes
      THEN [m EXCEPT !.schedule = TRUE, !.stopIn = PortalStopDelay]
      ELSE armResync(m, IF m.route = "kBle" THEN BleResync ELSE WifiResync)

\* MUTANT: only a BLE sync schedules the next refresh.
SyncUnarmed(n, source) ==
  LET m == [n EXCEPT !.confirmed = TRUE, !.initial = FALSE, !.overdue = FALSE,
                     !.route = SelectedRoute(@, source)]
  IN  IF source = "kBle" THEN armResync(m, BleResync)
      ELSE [stopNetworkActivity(m) EXCEPT !.armed = FALSE]

onExternalTimeSync(n, source) ==
  LET m == [n EXCEPT !.confirmed = TRUE, !.initial = FALSE, !.overdue = FALSE,
                     !.route = SelectedRoute(@, source)]
  IN  IF source = "kPortal" /\ n.mode = "kPortal"
      THEN [m EXCEPT !.schedule = TRUE, !.stopIn = PortalStopDelay]
      ELSE armResync(m, IF m.route = "kBle" THEN BleResync ELSE WifiResync)

Quiet == UNCHANGED <<net, slot>>

TickWaitingForBle(started) ==
  /\ net.mode = "kWaitingForBle"
  /\ IF net.attemptIn > 0 THEN Quiet
     ELSE /\ net' = IF ~net.initial
                    THEN IF net.route = "kPortal" THEN startPortal(net, TRUE, started)
                         ELSE finishFailedAttempt(net)
                    ELSE CASE initialSyncPhase(net.bootAge) = "kNtp" -> startScan(net)
                           [] initialSyncPhase(net.bootAge) = "kPortal" ->
                                startPortal(net, FALSE, started)
                           [] OTHER -> net
          /\ UNCHANGED slot

\* MUTANT: a refresh portal is given up like the setup portal.
SetupWindowEndsAnyPortal(n) == initialSyncPhase(n.bootAge) = "kNtp"

SetupWindowOver(n) == ~n.persistent /\ initialSyncPhase(n.bootAge) = "kNtp"

\* post: a phone has just submitted an acceptable time.
TickPortal(post) ==
  /\ net.mode = "kPortal"
  /\ IF post /\ ~net.accepted THEN enqueueTimeUpdate("kPortal") ELSE UNCHANGED slot
  /\ LET n == IF post THEN handlePortalTime(net) ELSE net
     IN  net' = IF n.stopIn = 0
                THEN IF n.schedule THEN armResync(n, WifiResync) ELSE finishFailedAttempt(n)
                ELSE IF SetupWindowOver(n) THEN startScan(n) ELSE n

ScanOutcome == [done : {TRUE}, found : {S \in SUBSET Bssid : Cardinality(S) <= MaxAttempts}]
               \union [done : {FALSE}, lost : BOOLEAN]

\* MUTANT: a lost or late scan is started again.
ScanAgain(scan, pick) ==
  /\ net.mode = "kScanning"
  /\ net' = IF scan.done THEN processScan(net, scan.found, pick)
            ELSE IF scan.lost \/ net.age >= ModeTimeout THEN startScan(net)
            ELSE net
  /\ UNCHANGED slot

\* The scan has a result, was lost, or is still running.
TickScanning(scan, pick) ==
  /\ net.mode = "kScanning"
  /\ net' = IF wifiWindowExpired(net) THEN finishFailedAttempt(net)
            ELSE IF scan.done THEN processScan(net, scan.found, pick)
            ELSE IF scan.lost \/ net.age >= ModeTimeout THEN finishFailedAttempt(net)
            ELSE net
  /\ UNCHANGED slot

TickConnecting(connected, pick) ==
  /\ net.mode = "kConnecting"
  /\ net' = IF wifiWindowExpired(net) THEN finishFailedAttempt(rememberFailure(net))
            ELSE IF connected THEN startNtp(net)
            ELSE IF net.age >= ModeTimeout THEN failCandidate(net, pick)
            ELSE net
  /\ UNCHANGED slot

\* plausible: the answered time passes finishNtp's checks.
TickWaitingForNtp(plausible, worker, pick) ==
  /\ net.mode = "kWaitingForNtp"
  /\ LET success  == ~wifiWindowExpired(net) /\ net.answered
         accepted == success /\ plausible
     IN  IF success \/ wifiWindowExpired(net) \/ net.age >= ModeTimeout
         THEN /\ IF accepted THEN enqueueTimeUpdate("kNtp") ELSE UNCHANGED slot
              /\ net' = finishNtp(net, accepted, worker, pick)
         ELSE Quiet

\* outcome: what poll() returned for the current generation, if anything.
TickPortalAutomation(outcome, pick) ==
  /\ net.mode = "kWaitingForPortalAutomation"
  /\ net' = IF wifiWindowExpired(net)
            THEN finishFailedAttempt(rememberFailure([net EXCEPT !.job = FALSE]))
            ELSE IF net.age >= AutomationTimeout
            THEN failCandidate([net EXCEPT !.job = FALSE], pick)
            ELSE IF outcome = "none" THEN net
            ELSE finishPortalAutomation(net, outcome = "submitted", pick)
  /\ UNCHANGED slot

\* A due refresh asks BLE first (takeBleSyncRequest hands that to BleTimeService in
\* the same pass); the Wi-Fi routes follow after a grace period.
TickIdle(started) ==
  /\ net.mode = "kIdle"
  /\ net' = IF ~net.armed \/ net.attemptIn > 0 THEN net
            ELSE IF net.route = "kBle" THEN [net EXCEPT !.armed = FALSE, !.overdue = TRUE]
            ELSE IF net.route \in {"kPortal", "kNtp"} /\ ~net.grace
            THEN [net EXCEPT !.overdue = TRUE, !.grace = TRUE, !.attemptIn = BleGrace]
            ELSE LET n == [net EXCEPT !.armed = FALSE, !.grace = FALSE]
                 IN  IF n.route = "kPortal" THEN startPortal(n, TRUE, started) ELSE startScan(n)
  /\ UNCHANGED slot

tick ==
  \/ \E started \in BOOLEAN : TickWaitingForBle(started) \/ TickIdle(started)
  \/ \E post \in BOOLEAN : TickPortal(post)
  \/ \E scan \in ScanOutcome, pick \in Bssid : TickScanning(scan, pick)
  \/ \E connected \in BOOLEAN, pick \in Bssid : TickConnecting(connected, pick)
  \/ \E plausible \in BOOLEAN, worker \in {"free", "busy", "absent"}, pick \in Bssid :
       TickWaitingForNtp(plausible, worker, pick)
  \/ \E outcome \in {"none", "submitted", "failed"}, pick \in Bssid :
       TickPortalAutomation(outcome, pick)

\* ntpCallback, on the SNTP client's task.
ntpCallback ==
  /\ net.sntp /\ ~net.answered
  /\ net' = [net EXCEPT !.answered = TRUE]
  /\ UNCHANGED slot

\* A unit of time, as the deadlines of this service see it.
Aged(n) ==
  [n EXCEPT !.attemptIn = IF @ > 0 THEN @ - 1 ELSE 0,
            !.stopIn    = IF @ > 0 THEN @ - 1 ELSE @,
            !.bootAge   = Min({@ + 1, SetupWindow}),
            !.windowAge = IF n.mode \in WifiModes THEN Min({@ + 1, WifiWindow}) ELSE @,
            !.age       = IF n.mode \in WifiModes
                          THEN Min({@ + 1, IF n.mode = "kWaitingForPortalAutomation"
                                           THEN AutomationTimeout ELSE ModeTimeout})
                          ELSE @]

=============================================================================
