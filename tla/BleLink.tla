------------------------------ MODULE BleLink ------------------------------
(***************************************************************************)
(* src/src/BleTimeService.cpp without the answer to a time write, which is *)
(* TimeArbitration: the connection with its bond, advertising with its     *)
(* change of cadence and its recovery, and the requests for a time.        *)
(*                                                                         *)
(* The NimBLE host task runs the callbacks, one at a time; the main task   *)
(* runs tick, and requestSync when NetworkTimeService wants a refresh.     *)
(* Both start and stop advertising.  The stack itself is external: it      *)
(* stops advertising when a phone connects, allows one connection, and     *)
(* may refuse to start or stop advertising or to disconnect a phone.       *)
(*                                                                         *)
(* Instants are kept relative to millis(): bootAge, recoveryAge and        *)
(* requestAge count up from bootStartedMs_, lastAdvertisingRecoveryMs_ and *)
(* lastSyncRequestMs_ and stop where the code tells no difference.  lag is *)
(* how far millis() has moved on since tick read its now.  The stores of   *)
(* requestSync are one step; so are the three loads of a condition in tick.*)
(***************************************************************************)
EXTENDS Integers, FiniteSets

CONSTANTS
  Phone, NoPhone,                \* the phones; nobody
  MaxBonds,                      \* CONFIG_BT_NIMBLE_MAX_BONDS
  Window,                        \* kNewBlePairingWindowMs
  RecoveryInterval, MaxRecoveries, \* kAdvertisingRecoveryIntervalMs, ...Attempts
  RetryAfter, MaxRetries,        \* kSyncRequestRetryMs, kMaximumSyncRequestRetries
  ResyncAfter,                   \* kResyncIntervalMs
  MaxFailures                    \* bound on starts of advertising refused in a row

ASSUME LinkAssumption ==
  /\ NoPhone \notin Phone
  /\ {MaxBonds, Window, RecoveryInterval, MaxRecoveries, RetryAfter, MaxRetries, ResyncAfter}
       \subseteq Nat \ {0}
  /\ MaxFailures \in Nat
  /\ RetryAfter <= ResyncAfter

VARIABLES
  link, peer, adv, intervals, failures,    \* the stack: connection, advertising, refused starts
  bonds,                                   \* the phones in the bond store, in flash
  connectionCount, activeConnectionBonded, hostPc,
  bootAge, slowAdvertisingConfigured, pairingWindowStatusLogged,
  advertisingRecoveryAttempts, recoveryAge,
  syncRequestPending, syncRequestRetries, requestAge,
  mainPc, lag, loaded,                     \* the main task's next step and its locals
  admitted,                                \* history: the pairing window was open at onConnect
  unwanted,                                \* history: a stranger NimBLE refused to disconnect
  straddled                                \* history: a restart decided in the window came after it

stack    == <<link, peer, adv, intervals, failures>>
host     == <<connectionCount, activeConnectionBonded, hostPc>>
cadence  == <<slowAdvertisingConfigured, pairingWindowStatusLogged>>
recovery == <<advertisingRecoveryAttempts, recoveryAge>>
request  == <<syncRequestPending, syncRequestRetries, requestAge>>
main     == <<mainPc, lag, loaded>>
history  == <<admitted, unwanted, straddled>>
vars == <<stack, bonds, host, bootAge, cadence, recovery, request, main, history>>

connected == connectionCount > 0

advertising == adv # "off"

pairingOpen == bootAge < Window

TypeOK ==
  /\ link \in {"none", "new", "plain", "bonded", "closing"}
  /\ peer \in Phone \union {NoPhone} /\ (peer = NoPhone <=> link = "none")
  /\ adv \in {"off", "fast", "slow"} /\ intervals \in {"fast", "slow"}
  /\ failures \in 0..MaxFailures
  /\ bonds \subseteq Phone
  /\ connectionCount \in 0..1 /\ activeConnectionBonded \in BOOLEAN
  /\ hostPc \in {"idle", "disconnect", "left", "restart"}
  /\ bootAge \in 0..Window
  /\ slowAdvertisingConfigured \in BOOLEAN /\ pairingWindowStatusLogged \in BOOLEAN
  /\ advertisingRecoveryAttempts \in 0..MaxRecoveries
  /\ recoveryAge \in 0..(RecoveryInterval + 1)
  /\ syncRequestPending \in BOOLEAN /\ syncRequestRetries \in 0..MaxRetries
  /\ requestAge \in 0..(ResyncAfter + 1)
  /\ mainPc \in {"tick", "stop", "slow", "store", "start", "recover", "restart", "request",
                 "retry", "repeat", "giveUp", "loop"}
  /\ lag \in 0..1 /\ loaded \in 0..MaxRetries
  /\ admitted \in BOOLEAN /\ unwanted \in BOOLEAN /\ straddled \in BOOLEAN

----------------------------------------------------------------------------
(* The stack.                                                              *)

\* What NimBLE may answer to a start.
StartOutcome ==
  IF advertising THEN {TRUE}
  ELSE IF link # "none" THEN {FALSE}
  ELSE IF failures < MaxFailures THEN BOOLEAN ELSE {TRUE}

\* Advertising that is under way keeps the cadence it was started with.
startAdvertising(ok) ==
  /\ ok \in StartOutcome
  /\ adv' = IF ok /\ ~advertising THEN intervals ELSE adv
  /\ failures' = IF ok THEN 0 ELSE IF link = "none" THEN failures + 1 ELSE failures
  /\ UNCHANGED <<link, peer, intervals>>

\* requestSync, on either task.
requestSync ==
  /\ requestAge' = 0 /\ syncRequestRetries' = 0 /\ syncRequestPending' = TRUE

Boot(ok) ==
  /\ link' = "none" /\ peer' = NoPhone
  /\ adv' = (IF ok THEN "fast" ELSE "off") /\ intervals' = "fast"
  /\ failures' = (IF ok THEN 0 ELSE failures + 1)
  /\ connectionCount' = 0 /\ activeConnectionBonded' = FALSE /\ hostPc' = "idle"
  /\ bootAge' = 0 /\ slowAdvertisingConfigured' = FALSE /\ pairingWindowStatusLogged' = FALSE
  /\ advertisingRecoveryAttempts' = 0 /\ recoveryAge' = 0
  /\ syncRequestPending' = FALSE /\ syncRequestRetries' = 0 /\ requestAge' = 0
  /\ mainPc' = "tick" /\ lag' = 0 /\ loaded' = 0
  /\ admitted' = FALSE /\ unwanted' = FALSE /\ straddled' = FALSE

\* begin().
Init ==
  /\ link = "none" /\ peer = NoPhone /\ intervals = "fast"
  /\ \/ adv = "fast" /\ failures = 0
     \/ adv = "off" /\ failures = 1 /\ MaxFailures > 0
  /\ bonds \in {B \in SUBSET Phone : IsFiniteSet(B) /\ Cardinality(B) <= MaxBonds}
  /\ connectionCount = 0 /\ activeConnectionBonded = FALSE /\ hostPc = "idle"
  /\ bootAge = 0 /\ slowAdvertisingConfigured = FALSE /\ pairingWindowStatusLogged = FALSE
  /\ advertisingRecoveryAttempts = 0 /\ recoveryAge = 0
  /\ syncRequestPending = FALSE /\ syncRequestRetries = 0 /\ requestAge = 0
  /\ mainPc = "tick" /\ lag = 0 /\ loaded = 0
  /\ admitted = FALSE /\ unwanted = FALSE /\ straddled = FALSE

----------------------------------------------------------------------------
(* The host task: a phone comes, pairs, subscribes, writes and goes.       *)

\* The connection exists before its callback runs, behind the one under way.
PhoneConnects(phone) ==
  /\ link = "none" /\ advertising
  /\ link' = "new" /\ peer' = phone /\ adv' = "off"
  /\ UNCHANGED <<intervals, failures, bonds, host, bootAge, cadence, recovery, request, main,
                 history>>

RoomForBond == Cardinality(bonds) < MaxBonds

\* MUTANT: a phone is rejected only while the window is open.
RejectsEverybodyElse == pairingOpen /\ peer \notin bonds

RejectsPhone == peer \notin bonds /\ ~pairingOpen

\* server_->disconnect: a refusal is only logged, and the link stays as it was.
disconnect(ok) == link' = IF ok THEN "closing" ELSE "plain"

\* Outside the window a stranger is disconnected; inside it the bond of another phone
\* makes room for it when the store is full.  NimBLE lists the bonds in any order.
onConnect(evicted, ok) ==
  /\ link = "new" /\ hostPc = "idle"
  /\ connectionCount' = connectionCount + 1
  /\ activeConnectionBonded' = FALSE
  /\ admitted' = pairingOpen /\ unwanted' = (RejectsPhone /\ ~ok)
  /\ IF RejectsPhone
     THEN disconnect(ok) /\ UNCHANGED <<bonds, request>>
     ELSE /\ link' = "plain"
          /\ IF peer \in bonds \/ RoomForBond
             THEN UNCHANGED bonds
             ELSE evicted \in bonds /\ bonds' = bonds \ {evicted}
          /\ requestSync
  /\ UNCHANGED <<peer, adv, intervals, failures, hostPc, bootAge, cadence, recovery, main,
                 straddled>>

\* NimBLE stores the bond of a phone; in a full store the bond of another gives way.
StoreBond(evicted) ==
  bonds' = {peer} \union (IF peer \in bonds \/ RoomForBond THEN bonds ELSE bonds \ {evicted})

\* The phone pairs, asked to or of its own accord, or fails to.
onAuthenticationComplete(paired, evicted, ok) ==
  /\ link = "plain" /\ hostPc = "idle"
  /\ activeConnectionBonded' = paired
  /\ IF paired
     THEN /\ peer \in bonds \/ RoomForBond \/ evicted \in bonds
          /\ link' = "bonded" /\ StoreBond(evicted) /\ requestSync
     ELSE disconnect(ok) /\ UNCHANGED <<bonds, request>>
  /\ UNCHANGED <<peer, adv, intervals, failures, connectionCount, hostPc, bootAge, cadence,
                 recovery, main, history>>

onStatusSubscribe ==
  /\ link \in {"plain", "bonded"} /\ hostPc = "idle"
  /\ requestSync
  /\ UNCHANGED <<stack, bonds, host, bootAge, cadence, recovery, main, history>>

\* The first line of onTimeWrite.  Only an encrypted link may write.
onTimeWrite ==
  /\ link = "bonded" /\ hostPc = "idle"
  /\ syncRequestPending' = FALSE
  /\ UNCHANGED <<stack, bonds, host, bootAge, cadence, recovery, syncRequestRetries, requestAge,
                 main, history>>

PhoneLeaves ==
  /\ link \in {"plain", "bonded", "closing"} /\ hostPc = "idle"
  /\ link' = "none" /\ peer' = NoPhone
  /\ hostPc' = "disconnect"
  /\ UNCHANGED <<adv, intervals, failures, bonds, connectionCount, activeConnectionBonded,
                 bootAge, cadence, recovery, request, main, history>>

\* onDisconnect: settles the connection ...
onDisconnect ==
  /\ hostPc = "disconnect"
  /\ connectionCount' = connectionCount - 1
  /\ activeConnectionBonded' = FALSE
  /\ syncRequestPending' = FALSE
  /\ hostPc' = "left"
  /\ UNCHANGED <<stack, bonds, bootAge, cadence, recovery, syncRequestRetries, requestAge,
                 main, history>>

\* MUTANT: after the window the main task is always left to restart advertising.
LeavesToMainAlways == ~pairingOpen

MainWillRestart == ~pairingOpen /\ ~slowAdvertisingConfigured

\* ... leaves advertising to the main task while the cadence is about to change ...
DisconnectDecide ==
  /\ hostPc = "left"
  /\ hostPc' = IF MainWillRestart THEN "idle" ELSE "restart"
  /\ UNCHANGED <<stack, bonds, connectionCount, activeConnectionBonded, bootAge, cadence,
                 recovery, request, main, history>>

\* ... and restarts it otherwise.
DisconnectRestart(ok) ==
  /\ hostPc = "restart"
  /\ startAdvertising(ok)
  /\ advertisingRecoveryAttempts' = IF ok THEN 0 ELSE advertisingRecoveryAttempts
  /\ straddled' = (straddled \/ (~pairingOpen /\ intervals = "fast"))
  /\ hostPc' = "idle"
  /\ UNCHANGED <<bonds, connectionCount, activeConnectionBonded, bootAge, cadence, recoveryAge,
                 request, main, admitted, unwanted>>

Callback ==
  \/ \E evicted \in Phone, ok \in BOOLEAN : onConnect(evicted, ok)
  \/ onDisconnect \/ DisconnectDecide
  \/ \E ok \in BOOLEAN : DisconnectRestart(ok)

Phones ==
  \/ \E phone \in Phone : PhoneConnects(phone)
  \/ \E paired, ok \in BOOLEAN, evicted \in Phone : onAuthenticationComplete(paired, evicted, ok)
  \/ onStatusSubscribe \/ onTimeWrite \/ PhoneLeaves

----------------------------------------------------------------------------
(* The main task: tick.                                                    *)

GoMain(step) == mainPc' = step /\ UNCHANGED <<lag, loaded>>

\* tick reads its now; the end of the window starts transitionToSlowAdvertising.
TickBegin ==
  /\ mainPc = "tick"
  /\ GoMain(IF ~pairingWindowStatusLogged /\ ~pairingOpen THEN "stop" ELSE "recover")
  /\ UNCHANGED <<stack, bonds, host, bootAge, cadence, recovery, request, history>>

\* A refused stop is tried again in the next pass.
TickStop(ok) ==
  /\ mainPc = "stop"
  /\ IF advertising /\ ~ok
     THEN GoMain("recover") /\ UNCHANGED adv
     ELSE GoMain("slow") /\ adv' = "off"
  /\ UNCHANGED <<link, peer, intervals, failures, bonds, host, bootAge, cadence, recovery,
                 request, history>>

TickSlow ==
  /\ mainPc = "slow"
  /\ intervals' = "slow"
  /\ GoMain("store")
  /\ UNCHANGED <<link, peer, adv, failures, bonds, host, bootAge, cadence, recovery, request,
                 history>>

TickStore ==
  /\ mainPc = "store"
  /\ slowAdvertisingConfigured' = TRUE
  /\ GoMain("start")
  /\ UNCHANGED <<stack, bonds, host, bootAge, pairingWindowStatusLogged, recovery, request,
                 history>>

TickStart(ok) ==
  /\ mainPc = "start"
  /\ IF connected THEN UNCHANGED stack ELSE startAdvertising(ok)
  /\ pairingWindowStatusLogged' = TRUE
  /\ GoMain("recover")
  /\ UNCHANGED <<bonds, host, bootAge, slowAdvertisingConfigured, recovery, request, history>>

\* MUTANT: recovery is tried once.
RecoveryOnlyOnce ==
  /\ ~connected /\ ~advertising
  /\ advertisingRecoveryAttempts = 0
  /\ recoveryAge - lag >= RecoveryInterval

RecoveryIsDue ==
  /\ ~connected /\ ~advertising
  /\ advertisingRecoveryAttempts < MaxRecoveries
  /\ recoveryAge - lag >= RecoveryInterval

TickRecover ==
  /\ mainPc = "recover"
  /\ IF RecoveryIsDue
     THEN /\ advertisingRecoveryAttempts' = advertisingRecoveryAttempts + 1
          /\ recoveryAge' = lag
          /\ GoMain("restart")
     ELSE GoMain("request") /\ UNCHANGED recovery
  /\ UNCHANGED <<stack, bonds, host, bootAge, cadence, request, history>>

TickRestart(ok) ==
  /\ mainPc = "restart"
  /\ startAdvertising(ok)
  /\ advertisingRecoveryAttempts' = IF ok THEN 0 ELSE advertisingRecoveryAttempts
  /\ GoMain("request")
  /\ UNCHANGED <<bonds, host, bootAge, cadence, recoveryAge, request, history>>

\* now - lastSyncRequestMs_ is unsigned: a request made since tick read its now
\* looks as old as can be.
RequestIsOlderThan(interval) ==
  requestAge < lag \/ requestAge - lag >= interval

\* MUTANT: only a request that is still pending is renewed.
RefreshOnlyPending ==
  connected /\ syncRequestPending /\ RequestIsOlderThan(ResyncAfter)

RefreshIsDue ==
  connected /\ ~syncRequestPending /\ RequestIsOlderThan(ResyncAfter)

TickRequest ==
  /\ mainPc = "request"
  /\ IF connected /\ syncRequestPending /\ RequestIsOlderThan(RetryAfter)
     THEN GoMain("retry") /\ UNCHANGED request
     ELSE /\ GoMain("loop")
          /\ IF RefreshIsDue THEN requestSync ELSE UNCHANGED request
  /\ UNCHANGED <<stack, bonds, host, bootAge, cadence, recovery, history>>

TickRetry ==
  /\ mainPc = "retry"
  /\ loaded' = syncRequestRetries
  /\ mainPc' = IF syncRequestRetries < MaxRetries THEN "repeat" ELSE "giveUp"
  /\ UNCHANGED <<lag, stack, bonds, host, bootAge, cadence, recovery, request, history>>

TickRepeat ==
  /\ mainPc = "repeat"
  /\ syncRequestRetries' = loaded + 1
  /\ requestAge' = lag
  /\ GoMain("loop")
  /\ UNCHANGED <<syncRequestPending, stack, bonds, host, bootAge, cadence, recovery, history>>

TickGiveUp ==
  /\ mainPc = "giveUp"
  /\ syncRequestPending' = FALSE
  /\ GoMain("loop")
  /\ UNCHANGED <<syncRequestRetries, requestAge, stack, bonds, host, bootAge, cadence,
                 recovery, history>>

\* loop(): NetworkTimeService may want a refresh.
LoopEnd(takeBleSyncRequest) ==
  /\ mainPc = "loop"
  /\ mainPc' = "tick" /\ lag' = 0 /\ loaded' = 0
  /\ IF takeBleSyncRequest THEN requestSync ELSE UNCHANGED request
  /\ UNCHANGED <<stack, bonds, host, bootAge, cadence, recovery, history>>

Main ==
  \/ TickBegin \/ TickSlow \/ TickStore \/ TickRecover
  \/ TickRequest \/ TickRetry \/ TickRepeat \/ TickGiveUp
  \/ \E ok \in BOOLEAN : TickStop(ok) \/ TickStart(ok) \/ TickRestart(ok) \/ LoopEnd(ok)

----------------------------------------------------------------------------
(* Time and power.                                                         *)

Older(age, limit) == IF age < limit THEN age + 1 ELSE age

\* Neither a pass of the loop nor the way of a new connection to its callback takes
\* long: at most one unit begins in a pass and none before the callback.
Elapse ==
  /\ mainPc = "tick" \/ lag = 0
  /\ link # "new"
  /\ lag' = IF mainPc = "tick" THEN 0 ELSE 1
  /\ bootAge' = Older(bootAge, Window)
  /\ recoveryAge' = Older(recoveryAge, RecoveryInterval + 1)
  /\ requestAge' = Older(requestAge, ResyncAfter + 1)
  /\ UNCHANGED <<stack, bonds, host, cadence, advertisingRecoveryAttempts, syncRequestPending,
                 syncRequestRetries, mainPc, loaded, history>>

\* A power loss at any point, or the recovery gesture at the start of a pass, which
\* clears the bonds first.
Reboot(clearBonds, ok) ==
  /\ clearBonds => mainPc = "tick"
  /\ ok \/ failures < MaxFailures
  /\ bonds' = IF clearBonds THEN {} ELSE bonds
  /\ Boot(ok)

Next ==
  \/ Phones \/ Callback \/ Main \/ Elapse
  \/ \E clearBonds \in BOOLEAN, ok \in BOOLEAN : Reboot(clearBonds, ok)

(* A callback that is due runs to its end, the loop runs for ever, and     *)
(* time passes; phones may come and go as they like.                       *)
Spec ==
  /\ Init /\ [][Next]_vars
  /\ WF_vars(Callback) /\ WF_vars(Main) /\ WF_vars(Elapse)

----------------------------------------------------------------------------
(* Properties                                                              *)

\* With nobody connected the clock is on the air, unless NimBLE refused to start it
\* (recovery's case) or the main task still has the change of cadence to do: the two
\* tasks never both leave the restart to the other (comment in onDisconnect).  And after
\* the change of cadence it advertises slowly, unless a restart that onDisconnect decided
\* within the window came after its end.
AdvertisingIsOwned ==
  /\ TypeOK
  /\ link = "none" /\ hostPc = "idle" /\ ~advertising =>
       \/ failures > 0
       \/ ~slowAdvertisingConfigured /\ ~pairingOpen
       \/ mainPc = "start"
  /\ slowAdvertisingConfigured /\ adv = "fast" => straddled

\* A phone that was not bonded becomes so only on a connection that was admitted while the
\* pairing window was open, however long pairing takes, or on one that onConnect meant to
\* end and NimBLE kept: the code only logs that (257-262) and accepts the pairing, although
\* README.md 474 has every new phone rejected after the window. An admitted phone finds
\* room in the bond store and costs no other its bond any more, and whoever pairs, the
\* store keeps its limit.
NewBondsAreAdmitted ==
  [][ ~(bonds' \subseteq bonds) =>
        /\ unwanted \/ (admitted /\ bonds \subseteq bonds')
        /\ bonds' \ bonds = {peer} /\ Cardinality(bonds') <= MaxBonds ]_vars

\* A clock off the air gets back on it, unless recovery has used up its attempts.
RecoveryIsTried ==
  []<>(advertising \/ link # "none" \/ advertisingRecoveryAttempts = MaxRecoveries)

\* The clock advertises whenever nobody is connected, once NimBLE lets it (README.md
\* 33, 606): refused starts delay it and no more.
ComesBackOnAir == []<>(advertising \/ link # "none")

\* A phone that stays connected is asked for the time again and again.
ConnectedPhoneIsAskedAgain ==
  connected /\ ~syncRequestPending ~> syncRequestPending \/ ~connected

=============================================================================
