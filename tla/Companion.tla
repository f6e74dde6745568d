----------------------------- MODULE Companion -----------------------------
(***************************************************************************)
(* The iOS companion: src/ios/ESPClockCompanion/ClockSyncManager.swift and *)
(* OnboardingLifecycle.swift.  Everything runs on the main actor, one      *)
(* callback, timer or tap at a time; what is hard is their order.          *)
(*                                                                         *)
(* app holds the manager's properties and, in app.clock, one record for    *)
(* each clock: its ClockRuntime (known says that there is one) and, in     *)
(* link, gatt, subscribed and writes, what Core Bluetooth has of it.  A    *)
(* method is an operator from app to app.  Timers carry no durations: one  *)
(* that is pending may fire.  timerCurrent says that the pending timer's   *)
(* generation is that of the acknowledgement state.                        *)
(***************************************************************************)
EXTENDS Naturals

CONSTANTS
  Clock,                     \* Bluetooth identifiers
  Quiet,                     \* those whose owner leaves automatic sync off and never taps
  MaxAttempts,               \* ClockAcknowledgementState.maximumAttempts
  MaxReconnects,             \* BoundedReconnectState.delays.count
  MaxWrites                  \* bound on the write responses still to come

ASSUME CompanionAssumption ==
  /\ Quiet \subseteq Clock
  /\ {MaxAttempts, MaxReconnects, MaxWrites} \subseteq Nat \ {0}

VARIABLES
  app,
  accessories,               \* the session's authorized accessories
  automaticSync,             \* ClockPreferenceStore, in UserDefaults
  removing                   \* accessories whose removal has been asked for

vars == <<app, accessories, automaticSync, removing>>

ClockType ==
  [known : BOOLEAN, automatic : BOOLEAN, manualSyncRequested : BOOLEAN,
   peripheral : BOOLEAN, characteristics : BOOLEAN, isConnected : BOOLEAN,
   connectPending : BOOLEAN, sentInitialTime : BOOLEAN,
   attempt : 0..MaxAttempts, isAwaiting : BOOLEAN, hasWriteResponse : BOOLEAN,
   timer : {"none", "writeResponse", "read", "fail"}, timerCurrent : BOOLEAN,
   reconnectTimer : BOOLEAN, reconnects : 0..MaxReconnects,
   link : {"disconnected", "connecting", "connected", "disconnecting"},
   gatt : {"none", "services", "characteristics", "notify"},
   subscribed : BOOLEAN, writes : 0..MaxWrites]

AppType ==
  [sessionActivated : BOOLEAN, authorizedClocks : SUBSET Clock, pickerIsActive : BOOLEAN,
   initializationRequested : BOOLEAN, centralManager : BOOLEAN,
   radio : {"unknown", "poweredOn", "poweredOff", "resetting"},
   restoring : BOOLEAN, isScanning : BOOLEAN, clock : [Clock -> ClockType]]

TypeOK ==
  /\ app \in AppType
  /\ accessories \subseteq Clock
  /\ automaticSync \in [Clock -> BOOLEAN]
  /\ removing \subseteq Clock

\* A clock without a runtime and without a link.
Unknown ==
  [known |-> FALSE, automatic |-> FALSE, manualSyncRequested |-> FALSE,
   peripheral |-> FALSE, characteristics |-> FALSE, isConnected |-> FALSE,
   connectPending |-> FALSE, sentInitialTime |-> FALSE,
   attempt |-> 0, isAwaiting |-> FALSE, hasWriteResponse |-> FALSE,
   timer |-> "none", timerCurrent |-> FALSE,
   reconnectTimer |-> FALSE, reconnects |-> 0,
   link |-> "disconnected", gatt |-> "none", subscribed |-> FALSE, writes |-> 0]

Launched ==
  [sessionActivated |-> FALSE, authorizedClocks |-> {}, pickerIsActive |-> FALSE,
   initializationRequested |-> FALSE, centralManager |-> FALSE, radio |-> "unknown",
   restoring |-> FALSE, isScanning |-> FALSE, clock |-> [c \in Clock |-> Unknown]]

Init ==
  /\ app = Launched
  /\ accessories \in SUBSET Clock
  /\ automaticSync \in {on \in [Clock -> BOOLEAN] : \A c \in Quiet : ~on[c]}
  /\ removing = {}

wantsConnection(u) == u.known /\ (u.automatic \/ u.manualSyncRequested)

----------------------------------------------------------------------------
(* One clock's record.                                                     *)

\* ClockAcknowledgementState.cancel, which moves the generation on.
CancelAttempt(u) ==
  [u EXCEPT !.attempt = 0, !.isAwaiting = FALSE, !.hasWriteResponse = FALSE,
            !.timerCurrent = FALSE]

CancelTimer(u) == [u EXCEPT !.timer = "none", !.timerCurrent = FALSE]

\* Whatever was under way on a link goes with it.
WithLink(u, link) ==
  [u EXCEPT !.link = link, !.gatt = "none", !.subscribed = FALSE, !.writes = 0]

cancelPeripheralConnection(u) ==
  CASE u.link = "connected"  -> WithLink(u, "disconnecting")
    [] u.link = "connecting" -> WithLink(u, "disconnected")
    [] OTHER                 -> u

discoverClockServices(u) ==
  IF u.peripheral /\ u.link = "connected" THEN [u EXCEPT !.gatt = "services"] ELSE u

stopConnection(u) ==
  LET v == CancelTimer(CancelAttempt(IF u.peripheral THEN cancelPeripheralConnection(u) ELSE u))
  IN [v EXCEPT !.reconnectTimer = FALSE, !.reconnects = 0, !.manualSyncRequested = FALSE,
               !.connectPending = FALSE, !.peripheral = FALSE, !.characteristics = FALSE,
               !.sentInitialTime = FALSE, !.isConnected = FALSE]

\* The system hands out one object for a peripheral as long as the manager lives.
adopt(u) ==
  IF u.peripheral THEN u
  ELSE [CancelTimer(CancelAttempt(u)) EXCEPT !.peripheral = TRUE, !.characteristics = FALSE,
                                             !.sentInitialTime = FALSE]

requestConnection(u) ==
  IF u.peripheral /\ wantsConnection(u) /\ ~u.connectPending /\ u.link = "disconnected"
  THEN [WithLink(u, "connecting") EXCEPT !.reconnectTimer = FALSE, !.connectPending = TRUE]
  ELSE u

\* MUTANT: the last delay is never used.
ScheduleAllButLast(u) ==
  IF ~u.automatic THEN u
  ELSE IF u.reconnects + 1 < MaxReconnects
  THEN [u EXCEPT !.reconnectTimer = TRUE, !.reconnects = @ + 1]
  ELSE [u EXCEPT !.reconnectTimer = FALSE]

scheduleReconnect(u) ==
  IF ~u.automatic THEN u
  ELSE IF u.reconnects < MaxReconnects
  THEN [u EXCEPT !.reconnectTimer = TRUE, !.reconnects = @ + 1]
  ELSE [u EXCEPT !.reconnectTimer = FALSE]

\* ClockAcknowledgementState.beginAttempt, past its guards.
BeginAttempt(u, isRetry) ==
  [u EXCEPT !.attempt = IF isRetry THEN @ + 1 ELSE 1,
            !.isAwaiting = TRUE, !.hasWriteResponse = FALSE]

MayAttempt(u, isRetry) == ~u.isAwaiting /\ (isRetry => u.attempt < MaxAttempts)

ScheduleTimer(u, timer) == [u EXCEPT !.timer = timer, !.timerCurrent = TRUE]

----------------------------------------------------------------------------
(* The manager.                                                            *)

With(a, c, u) == [a EXCEPT !.clock[c] = u]

\* Scanning and its timeout start and stop together.
updateScanState(a) ==
  IF ~a.centralManager \/ a.radio # "poweredOn" THEN a
  ELSE [a EXCEPT !.isScanning =
          \E c \in Clock : wantsConnection(a.clock[c]) /\ ~a.clock[c].peripheral]

finishManualSyncIfNeeded(a, c) ==
  LET u == a.clock[c]
  IN IF ~u.manualSyncRequested THEN a
     ELSE IF u.automatic THEN With(a, c, [u EXCEPT !.manualSyncRequested = FALSE])
     ELSE updateScanState(With(a, c, stopConnection(u)))

failClockSetup(a, c) ==
  LET u == a.clock[c]
  IN IF u.automatic /\ u.peripheral
     THEN With(a, c, cancelPeripheralConnection(u))
     ELSE finishManualSyncIfNeeded(a, c)

\* encodes: TimePacketEncoder takes the iPhone's date and zone.
sendPhoneTime(a, c, isRetry, encodes) ==
  LET u == a.clock[c]
      v == BeginAttempt(u, isRetry)
  IN IF ~(u.peripheral /\ u.link = "connected" /\ u.characteristics /\ MayAttempt(u, isRetry))
     THEN a
     ELSE IF encodes
     THEN With(a, c, [ScheduleTimer(v, "writeResponse")
                        EXCEPT !.writes = IF @ < MaxWrites THEN @ + 1 ELSE @])
     ELSE finishManualSyncIfNeeded(With(a, c, CancelAttempt(v)), c)

\* found: the peripherals retrievePeripherals knows.
Connect(u) ==
  IF ~u.peripheral THEN u
  ELSE CASE u.link = "connected"    -> discoverClockServices([u EXCEPT !.isConnected = TRUE])
         [] u.link = "disconnected" -> requestConnection(u)
         [] u.link = "connecting"   -> [u EXCEPT !.connectPending = TRUE]
         [] OTHER                   -> u

connectAuthorizedClocks(a, found) ==
  IF ~a.sessionActivated \/ ~a.centralManager \/ a.radio # "poweredOn" THEN a
  ELSE updateScanState([a EXCEPT !.clock = [c \in Clock |->
         LET u == @[c]
         IN IF ~wantsConnection(u) THEN u
            ELSE Connect(IF c \in found THEN adopt(u) ELSE u)]])

Forget(u) == [stopConnection(u) EXCEPT !.known = FALSE, !.automatic = FALSE]

removeRuntimes(a, gone) ==
  IF gone = {} THEN a
  ELSE updateScanState([a EXCEPT !.clock = [c \in Clock |->
         IF c \in gone THEN Forget(@[c]) ELSE @[c]]])

reconcileAuthorizedClocks(a, authorized) ==
  [removeRuntimes(a, {c \in Clock \ authorized : a.clock[c].known})
     EXCEPT !.clock = [c \in Clock |->
       IF c \in authorized /\ ~@[c].known
       THEN [@[c] EXCEPT !.known = TRUE, !.automatic = automaticSync[c]]
       ELSE @[c]]]

\* Without the manager its peripherals are no longer held.
tearDownCoreBluetooth(a) ==
  [a EXCEPT !.isScanning = FALSE, !.centralManager = FALSE, !.radio = "unknown",
            !.restoring = FALSE,
            !.clock = [c \in Clock |-> WithLink(stopConnection(@[c]), "disconnected")]]

initializeCoreBluetooth(a, found) ==
  IF ~a.centralManager /\ a.sessionActivated /\ a.authorizedClocks # {}
  THEN [a EXCEPT !.centralManager = TRUE]
  ELSE connectAuthorizedClocks(a, found)

\* requestBluetoothInitialization with the action it returns.
MayInitialize(a) == ~a.pickerIsActive /\ ~a.initializationRequested

requestBluetoothInitialization(a, found) ==
  IF MayInitialize(a)
  THEN initializeCoreBluetooth([a EXCEPT !.initializationRequested = TRUE], found)
  ELSE a

\* MUTANT: the manager outlives the last clock.
ReleaseForgotten(a) == a

ReleaseBluetooth(a) ==
  IF a.initializationRequested
  THEN tearDownCoreBluetooth([a EXCEPT !.initializationRequested = FALSE])
  ELSE a

replaceAuthorizedClocks(a, authorized, found) ==
  LET b == [a EXCEPT !.authorizedClocks = authorized]
  IN IF authorized # {} THEN requestBluetoothInitialization(b, found) ELSE ReleaseBluetooth(b)

reconcileWithAccessorySession(a, authorized, found) ==
  replaceAuthorizedClocks(reconcileAuthorizedClocks(a, authorized), authorized, found)

----------------------------------------------------------------------------
(* The accessory session and the user.                                     *)

SessionActivated ==
  /\ ~app.sessionActivated
  /\ LET a == [reconcileAuthorizedClocks([app EXCEPT !.sessionActivated = TRUE], accessories)
                 EXCEPT !.authorizedClocks = accessories]
     IN app' = IF accessories = {}
               THEN [a EXCEPT !.initializationRequested = FALSE]
               ELSE requestBluetoothInitialization(a, {})
  /\ UNCHANGED <<accessories, automaticSync, removing>>

addClock ==
  /\ app.sessionActivated /\ ~app.pickerIsActive
  /\ app' = [app EXCEPT !.pickerIsActive = TRUE]
  /\ UNCHANGED <<accessories, automaticSync, removing>>

AccessoryAdded(c, found) ==
  /\ app.sessionActivated /\ c \notin accessories
  /\ accessories' = accessories \union {c}
  /\ LET a == [app EXCEPT !.authorizedClocks = @ \union {c}]
         b == reconcileAuthorizedClocks(a, a.authorizedClocks)
     IN app' = IF app.pickerIsActive THEN b ELSE connectAuthorizedClocks(b, found)
  /\ UNCHANGED <<automaticSync, removing>>

AccessoryChanged(found) ==
  /\ app.sessionActivated
  /\ LET a == reconcileWithAccessorySession(app, accessories, found)
     IN app' = IF app.pickerIsActive THEN a ELSE connectAuthorizedClocks(a, found)
  /\ UNCHANGED <<accessories, automaticSync, removing>>

\* The system drops the link of an accessory that is no longer authorized.
Revoked(c) == With(app, c, WithLink(app.clock[c], "disconnected"))

\* In the Settings app.
AccessoryRemoved(c, found) ==
  /\ app.sessionActivated /\ c \in accessories
  /\ accessories' = accessories \ {c}
  /\ app' = reconcileWithAccessorySession(Revoked(c), accessories', found)
  /\ UNCHANGED <<automaticSync, removing>>

PickerDidDismiss(found) ==
  /\ app.sessionActivated
  /\ LET a == [reconcileWithAccessorySession(app, accessories, found)
                 EXCEPT !.pickerIsActive = FALSE]
     IN app' = IF a.authorizedClocks # {} /\ MayInitialize(a)
               THEN requestBluetoothInitialization(a, found)
               ELSE connectAuthorizedClocks(a, found)
  /\ UNCHANGED <<accessories, automaticSync, removing>>

PickerFailed ==
  /\ app.pickerIsActive
  /\ LET a == [app EXCEPT !.pickerIsActive = FALSE]
     IN app' = IF a.authorizedClocks = {} THEN ReleaseBluetooth(a) ELSE a
  /\ UNCHANGED <<accessories, automaticSync, removing>>

\* The state of a launch: the session is not activated again in this one.
Invalidated ==
  /\ app.sessionActivated
  /\ app' = tearDownCoreBluetooth(
              [reconcileAuthorizedClocks([app EXCEPT !.sessionActivated = FALSE], {})
                 EXCEPT !.pickerIsActive = FALSE, !.authorizedClocks = {},
                        !.initializationRequested = FALSE])
  /\ UNCHANGED <<accessories, automaticSync, removing>>

setAutomaticSync(c, enabled, found) ==
  /\ app.clock[c].known
  /\ automaticSync' = [automaticSync EXCEPT ![c] = enabled]
  /\ LET u == [app.clock[c] EXCEPT !.automatic = enabled]
     IN app' = IF enabled
               THEN connectAuthorizedClocks(With(app, c, [u EXCEPT !.reconnects = 0]), found)
               ELSE updateScanState(With(app, c, stopConnection(u)))
  /\ UNCHANGED <<accessories, removing>>

syncNow(c, found, encodes) ==
  /\ app.clock[c].known
  /\ LET u == [app.clock[c] EXCEPT !.manualSyncRequested = TRUE, !.reconnects = 0]
         a == With(app, c, u)
     IN app' = IF ~u.isConnected THEN connectAuthorizedClocks(a, found)
               ELSE IF ~u.characteristics THEN With(app, c, discoverClockServices(u))
               ELSE sendPhoneTime(a, c, FALSE, encodes)
  /\ UNCHANGED <<accessories, automaticSync, removing>>

\* The session answers later, whatever happens until then.
forgetClock(c) ==
  /\ app.sessionActivated /\ c \in accessories \ removing
  /\ app' = IF app.clock[c].known THEN With(app, c, stopConnection(app.clock[c])) ELSE app
  /\ removing' = removing \union {c}
  /\ UNCHANGED <<accessories, automaticSync>>

ForgetFailed(c, found) ==
  /\ c \in removing
  /\ removing' = removing \ {c}
  /\ app' = connectAuthorizedClocks(app, found)
  /\ UNCHANGED <<accessories, automaticSync>>

ForgetDone(c, found) ==
  /\ c \in removing
  /\ removing' = removing \ {c}
  /\ accessories' = accessories \ {c}
  /\ app' = replaceAuthorizedClocks(
              removeRuntimes(Revoked(c), {d \in {c} : app.clock[d].known}),
              app.authorizedClocks \ {c}, found)
  /\ automaticSync' = [automaticSync EXCEPT ![c] = TRUE]

----------------------------------------------------------------------------
(* Core Bluetooth: the central.                                            *)

\* Below poweredOn every link is gone, without a further callback.
DidUpdateState(radio, found) ==
  /\ app.centralManager /\ ~app.restoring /\ radio # app.radio
  /\ LET a == [app EXCEPT !.radio = radio]
     IN app' = IF radio = "poweredOn" THEN connectAuthorizedClocks(a, found)
               ELSE [a EXCEPT !.isScanning = FALSE, !.clock = [c \in Clock |->
                      LET u == WithLink(@[c], "disconnected")
                      IN IF ~u.known THEN u
                         ELSE [CancelTimer(CancelAttempt(u)) EXCEPT
                                 !.reconnectTimer = FALSE, !.connectPending = FALSE,
                                 !.isConnected = radio # "poweredOff" /\ @]]]
  /\ UNCHANGED <<accessories, automaticSync, removing>>

WillRestoreState ==
  /\ app.centralManager /\ app.restoring
  /\ app' = [app EXCEPT !.restoring = FALSE, !.clock = [c \in Clock |->
       LET u == @[c]
       IN IF ~u.known \/ u.link \notin {"connecting", "connected"} THEN u
          ELSE IF ~wantsConnection(u) THEN cancelPeripheralConnection(u)
          ELSE IF u.link = "connected"
          THEN discoverClockServices([adopt(u) EXCEPT !.isConnected = TRUE])
          ELSE [adopt(u) EXCEPT !.connectPending = TRUE]]]
  /\ UNCHANGED <<accessories, automaticSync, removing>>

DidDiscover(c) ==
  /\ app.isScanning /\ wantsConnection(app.clock[c])
  /\ app' = updateScanState(With(app, c, requestConnection(adopt(app.clock[c]))))
  /\ UNCHANGED <<accessories, automaticSync, removing>>

ScanTimesOut ==
  /\ app.isScanning
  /\ LET lost  == {c \in Clock : wantsConnection(app.clock[c]) /\ ~app.clock[c].peripheral}
         ended == [app EXCEPT !.isScanning = FALSE, !.clock = [c \in Clock |->
                     IF c \notin lost THEN @[c]
                     ELSE IF @[c].automatic THEN [@[c] EXCEPT !.manualSyncRequested = FALSE]
                     ELSE stopConnection(@[c])]]
     IN app' = IF \E c \in lost : ~app.clock[c].automatic THEN updateScanState(ended) ELSE ended
  /\ UNCHANGED <<accessories, automaticSync, removing>>

\* Core Bluetooth has no timeout of its own: a clock may stay out of range.
DidConnect(c) ==
  /\ ~app.restoring /\ app.clock[c].link = "connecting"
  /\ LET u == WithLink(app.clock[c], "connected")
     IN app' = With(app, c,
          IF ~wantsConnection(u) THEN cancelPeripheralConnection(u)
          ELSE discoverClockServices(adopt([u EXCEPT !.reconnectTimer = FALSE,
                                           !.connectPending = FALSE, !.isConnected = TRUE])))
  /\ UNCHANGED <<accessories, automaticSync, removing>>

DidFailToConnect(c) ==
  /\ ~app.restoring /\ app.clock[c].link = "connecting"
  /\ LET u == WithLink(app.clock[c], "disconnected")
         a == finishManualSyncIfNeeded(
                With(app, c, [u EXCEPT !.connectPending = FALSE, !.isConnected = FALSE]), c)
     IN app' = IF u.peripheral THEN With(a, c, scheduleReconnect(a.clock[c]))
               ELSE With(app, c, u)
  /\ UNCHANGED <<accessories, automaticSync, removing>>

\* MUTANT: the attempt outlives its connection and its timer.
LoseTimerOnly(u, isReconnecting) ==
  [CancelTimer(u) EXCEPT
     !.connectPending = isReconnecting, !.isConnected = FALSE,
     !.characteristics = FALSE, !.sentInitialTime = FALSE]

LoseConnection(u, isReconnecting) ==
  [CancelTimer(CancelAttempt(u)) EXCEPT
     !.connectPending = isReconnecting, !.isConnected = FALSE,
     !.characteristics = FALSE, !.sentInitialTime = FALSE]

\* isReconnecting: the system tries again by itself.
DidDisconnect(c, isReconnecting) ==
  /\ ~app.restoring /\ app.clock[c].link \in {"connected", "disconnecting"}
  /\ isReconnecting => app.clock[c].link = "connected"
  /\ LET u == WithLink(app.clock[c], IF isReconnecting THEN "connecting" ELSE "disconnected")
         v == LoseConnection(u, isReconnecting)
     IN app' = IF ~u.peripheral THEN With(app, c, u)
               ELSE IF ~u.automatic THEN finishManualSyncIfNeeded(With(app, c, v), c)
               ELSE With(app, c, IF isReconnecting THEN v ELSE scheduleReconnect(v))
  /\ UNCHANGED <<accessories, automaticSync, removing>>

----------------------------------------------------------------------------
(* Core Bluetooth: the peripheral, and the clock behind it.                *)

OnLink(c) == ~app.restoring /\ app.clock[c].link = "connected" /\ app.clock[c].peripheral

DidDiscoverServices(c, ok) ==
  /\ OnLink(c) /\ app.clock[c].gatt = "services"
  /\ LET u == app.clock[c]
     IN app' = IF ok THEN With(app, c, [u EXCEPT !.gatt = "characteristics"])
               ELSE failClockSetup(With(app, c, [u EXCEPT !.gatt = "none"]), c)
  /\ UNCHANGED <<accessories, automaticSync, removing>>

DidDiscoverCharacteristics(c, ok) ==
  /\ OnLink(c) /\ app.clock[c].gatt = "characteristics"
  /\ LET u == app.clock[c]
     IN app' = IF ok THEN With(app, c, [u EXCEPT !.gatt = "notify", !.characteristics = TRUE])
               ELSE failClockSetup(With(app, c, [u EXCEPT !.gatt = "none"]), c)
  /\ UNCHANGED <<accessories, automaticSync, removing>>

\* The first time on a connection, the time is sent.
DidUpdateNotificationState(c, ok, encodes) ==
  /\ OnLink(c) /\ app.clock[c].gatt = "notify"
  /\ LET u == [app.clock[c] EXCEPT !.gatt = "none"]
         v == [u EXCEPT !.subscribed = TRUE, !.reconnects = 0, !.sentInitialTime = TRUE]
     IN app' = IF ~ok THEN failClockSetup(With(app, c, u), c)
               ELSE IF u.sentInitialTime THEN With(app, c, v)
               ELSE sendPhoneTime(With(app, c, v), c, FALSE, encodes)
  /\ UNCHANGED <<accessories, automaticSync, removing>>

\* The responses do not say which write they answer.
DidWriteValue(c, ok) ==
  /\ OnLink(c) /\ app.clock[c].writes > 0
  /\ LET u == [app.clock[c] EXCEPT !.writes = @ - 1]
     IN app' = IF ~ok
               THEN finishManualSyncIfNeeded(With(app, c, CancelTimer(CancelAttempt(u))), c)
               ELSE With(app, c,
                 IF u.isAwaiting
                 THEN ScheduleTimer([u EXCEPT !.hasWriteResponse = TRUE], "read")
                 ELSE u)
  /\ UNCHANGED <<accessories, automaticSync, removing>>

\* sync-request and time-needed.
StatusRequest(c, encodes) ==
  /\ OnLink(c) /\ app.clock[c].subscribed
  /\ app' = sendPhoneTime(app, c, FALSE, encodes)
  /\ UNCHANGED <<accessories, automaticSync, removing>>

\* time-accepted, rate-limited, time-rejected and invalid-time.
StatusResult(c) ==
  /\ OnLink(c)
  /\ LET u == app.clock[c]
     IN /\ u.isAwaiting /\ u.hasWriteResponse
        /\ app' = finishManualSyncIfNeeded(With(app, c, CancelTimer(CancelAttempt(u))), c)
  /\ UNCHANGED <<accessories, automaticSync, removing>>

----------------------------------------------------------------------------
(* Timers.                                                                 *)

ReconnectTimer(c) ==
  /\ app.clock[c].reconnectTimer
  /\ LET u == [app.clock[c] EXCEPT !.reconnectTimer = FALSE]
     IN app' = With(app, c, IF u.known /\ u.automatic THEN requestConnection(u) ELSE u)
  /\ UNCHANGED <<accessories, automaticSync, removing>>

\* MUTANT: a manual sync is not told that its write went unanswered.
GiveUpQuietly(c) ==
  /\ app.clock[c].timer = "writeResponse"
  /\ app' = With(app, c, CancelTimer(CancelAttempt(app.clock[c])))
  /\ UNCHANGED <<accessories, automaticSync, removing>>

WriteResponseCheck(c) ==
  /\ app.clock[c].timer = "writeResponse"
  /\ LET u == app.clock[c]
         v == CancelTimer(u)
     IN app' = IF u.timerCurrent /\ u.isAwaiting /\ ~u.hasWriteResponse
               THEN finishManualSyncIfNeeded(With(app, c, CancelAttempt(v)), c)
               ELSE With(app, c, v)
  /\ UNCHANGED <<accessories, automaticSync, removing>>

ReadCheck(c) ==
  /\ app.clock[c].timer = "read"
  /\ LET u == app.clock[c]
     IN app' = With(app, c, IF u.timerCurrent /\ u.isAwaiting /\ u.hasWriteResponse
                           THEN ScheduleTimer(u, "fail") ELSE CancelTimer(u))
  /\ UNCHANGED <<accessories, automaticSync, removing>>

\* acknowledgementTimedOut and what becomes of it.
FailCheck(c, encodes) ==
  /\ app.clock[c].timer = "fail"
  /\ LET u == app.clock[c]
         v == [CancelTimer(u) EXCEPT !.isAwaiting = FALSE, !.hasWriteResponse = FALSE]
     IN app' = IF ~(u.timerCurrent /\ u.isAwaiting /\ u.hasWriteResponse)
               THEN With(app, c, CancelTimer(u))
               ELSE IF u.attempt < MaxAttempts
               THEN sendPhoneTime(With(app, c, v), c, TRUE, encodes)
               ELSE finishManualSyncIfNeeded(With(app, c, CancelAttempt(v)), c)
  /\ UNCHANGED <<accessories, automaticSync, removing>>

----------------------------------------------------------------------------
\* The system ends the app, keeping some of its links for the next launch.
Relaunch(kept) ==
  /\ kept \subseteq {c \in Clock : app.clock[c].link \in {"connecting", "connected"}}
  /\ app' = [Launched EXCEPT !.restoring = kept # {}, !.clock = [c \in Clock |->
              IF c \in kept THEN WithLink(Unknown, app.clock[c].link) ELSE Unknown]]
  /\ removing' = {}
  /\ UNCHANGED <<accessories, automaticSync>>

Session ==
  \/ SessionActivated \/ addClock \/ PickerFailed \/ Invalidated
  \/ \E found \in SUBSET Clock : AccessoryChanged(found) \/ PickerDidDismiss(found)
  \/ \E c \in Clock, found \in SUBSET Clock :
       \/ AccessoryAdded(c, found) \/ AccessoryRemoved(c, found)
       \/ ForgetFailed(c, found) \/ ForgetDone(c, found)

User ==
  \E c \in Clock \ Quiet :
    \/ \E choice \in BOOLEAN, found \in SUBSET Clock :
         setAutomaticSync(c, choice, found) \/ syncNow(c, found, choice)
    \/ forgetClock(c)

Central ==
  \/ \E radio \in {"poweredOn", "poweredOff", "resetting"}, found \in SUBSET Clock :
       DidUpdateState(radio, found)
  \/ WillRestoreState \/ ScanTimesOut
  \/ \E c \in Clock : DidDiscover(c) \/ DidConnect(c) \/ DidFailToConnect(c)
  \/ \E c \in Clock, isReconnecting \in BOOLEAN : DidDisconnect(c, isReconnecting)

ClockAsks(c) == \E encodes \in BOOLEAN : StatusRequest(c, encodes)

Peripheral(c) ==
  \/ \E ok \in BOOLEAN :
       DidDiscoverServices(c, ok) \/ DidDiscoverCharacteristics(c, ok) \/ DidWriteValue(c, ok)
  \/ \E ok, encodes \in BOOLEAN : DidUpdateNotificationState(c, ok, encodes)
  \/ ClockAsks(c) \/ StatusResult(c)

AttemptTimer(c) ==
  \/ WriteResponseCheck(c) \/ ReadCheck(c)
  \/ \E encodes \in BOOLEAN : FailCheck(c, encodes)

Next ==
  \/ Session \/ User \/ Central
  \/ \E c \in Clock : Peripheral(c) \/ AttemptTimer(c) \/ ReconnectTimer(c)
  \/ \E kept \in SUBSET Clock : Relaunch(kept)

(* Timers fire, and a subscribed clock keeps asking (BleLink); nothing is  *)
(* assumed of iOS, the user or the radio.                                  *)
Spec ==
  /\ Init /\ [][Next]_vars
  /\ \A c \in Clock : WF_vars(AttemptTimer(c)) /\ WF_vars(ClockAsks(c))

----------------------------------------------------------------------------
(* Properties                                                              *)

\* The lifecycle's flag and the manager agree, and there is a manager only for an
\* authorized clock: the picker for a first clock opens without one.
ManagerFollowsClocks ==
  /\ app.sessionActivated => (app.initializationRequested <=> app.centralManager)
  /\ app.authorizedClocks = {} => ~app.centralManager

\* An attempt under way always has the timer of its stage and generation pending, and
\* no timer outlives its attempt: nothing stays "awaiting" for ever, which would
\* refuse all later attempts.
AttemptIsTimed ==
  \A c \in Clock :
    LET u == app.clock[c]
    IN IF u.isAwaiting
       THEN /\ u.timerCurrent
            /\ u.timer \in (IF u.hasWriteResponse THEN {"read", "fail"} ELSE {"writeResponse"})
       ELSE u.timer = "none"

\* A clock that neither automatic nor manual sync wants holds no connection and has
\* nothing under way that could open one.  While Bluetooth is on, a clock in automatic
\* sync whose peripheral is known is connected, on its way, or waiting for a reconnect,
\* until its delays are used up; and connectPending, which refuses further requests, has
\* a connection behind it.
LinkFollowsWish ==
  /\ TypeOK
  /\ \A c \in Clock :
       LET u == app.clock[c]
       IN /\ u.known /\ ~wantsConnection(u) /\ ~app.restoring =>
               /\ u.link \in {"disconnected", "disconnecting"}
               /\ ~u.peripheral /\ ~u.isConnected /\ ~u.connectPending /\ ~u.reconnectTimer
               /\ ~u.isAwaiting /\ u.timer = "none"
          /\ app.radio = "poweredOn" /\ u.known /\ u.automatic /\ u.peripheral =>
               u.link # "disconnected" \/ u.reconnectTimer \/ u.reconnects = MaxReconnects
          /\ u.connectPending => u.link = "connecting"

\* On a subscribed connection a manual sync ends, with the clock's answer or without.
ManualSyncEnds ==
  \A c \in Clock :
    app.clock[c].manualSyncRequested /\ app.clock[c].subscribed
      ~> ~app.clock[c].manualSyncRequested \/ ~app.clock[c].subscribed

=============================================================================
