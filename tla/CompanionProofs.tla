-------------------------- MODULE CompanionProofs --------------------------
(***************************************************************************)
(* Proofs about Companion, for any clocks and any number of attempts and   *)
(* reconnects: the Bluetooth manager exists for authorized clocks only, no *)
(* attempt loses its timer, and a connection is held for a clock that      *)
(* wants one.  Each method of the manager has a lemma on what it makes of  *)
(* a clock's record; the theorems put them together.                       *)
(***************************************************************************)
EXTENDS Companion, TLAPS

LinkState == {"disconnected", "connecting", "connected", "disconnecting"}

\* A link that is up or on its way.
Live(u) == u.link \in {"connecting", "connected"}

\* An attempt and its timer, as AttemptIsTimed asks of every clock.
Timed(u) ==
  IF u.isAwaiting
  THEN /\ u.timerCurrent
       /\ u.timer \in (IF u.hasWriteResponse THEN {"read", "fail"} ELSE {"writeResponse"})
  ELSE u.timer = "none"

\* Without a peripheral there is nothing to wait for; a link without one is a link of the
\* last launch, which is still to be restored.
Bare(u, restoring) ==
  /\ ~u.isConnected /\ ~u.connectPending /\ ~u.reconnectTimer /\ ~u.isAwaiting
  /\ Live(u) => restoring

\* The record of one clock, whatever Bluetooth does ...
Settled(u, restoring) ==
  /\ u \in ClockType /\ Timed(u)
  /\ ~u.known => ~u.automatic /\ ~u.manualSyncRequested
  /\ ~wantsConnection(u) \/ restoring => ~u.peripheral
  /\ ~u.peripheral => Bare(u, restoring)
  /\ u.connectPending => u.link = "connecting"

\* ... and while it is on.
Powered(u, on) ==
  on => /\ u.isConnected => u.link # "disconnected"
        /\ u.automatic /\ u.peripheral =>
             u.link # "disconnected" \/ u.reconnectTimer \/ u.reconnects = MaxReconnects

\* The manager and the lifecycle's flag come and go together, in an active session, and
\* Bluetooth has a state only with a manager.
ManagerFits(a) ==
  /\ a.initializationRequested <=> a.centralManager
  /\ a.centralManager => a.sessionActivated
  /\ ~a.centralManager => a.radio = "unknown"
  /\ a.isScanning => a.radio = "poweredOn"
  /\ a.restoring => a.radio = "unknown"

Steady(a) ==
  a \in AppType /\ ManagerFits(a) /\ \A c \in Clock : Settled(a.clock[c], a.restoring)

\* What every method of the manager keeps.
Sound(a) == Steady(a) /\ \A c \in Clock : Powered(a.clock[c], a.radio = "poweredOn")

\* The manager is for authorized clocks, and each of them has a runtime; they are the
\* session's accessories, and only these have links.
IInv ==
  /\ TypeOK /\ Sound(app)
  /\ app.centralManager => app.authorizedClocks # {}
  /\ app.authorizedClocks = IF app.sessionActivated THEN accessories ELSE {}
  /\ \A c \in Clock : app.clock[c].known <=> c \in app.authorizedClocks
  /\ \A c \in Clock : Live(app.clock[c]) => c \in accessories

----------------------------------------------------------------------------
(* The fields of a record that a method leaves alone                       *)

SameWish(u, v) ==
  /\ v.known = u.known /\ v.automatic = u.automatic
  /\ v.manualSyncRequested = u.manualSyncRequested

SameRoute(u, v) ==
  /\ v.peripheral = u.peripheral /\ v.isConnected = u.isConnected
  /\ v.connectPending = u.connectPending /\ v.reconnectTimer = u.reconnectTimer
  /\ v.reconnects = u.reconnects

SameAttempt(u, v) ==
  /\ v.isAwaiting = u.isAwaiting /\ v.hasWriteResponse = u.hasWriteResponse
  /\ v.timer = u.timer /\ v.timerCurrent = u.timerCurrent /\ v.attempt = u.attempt

LEMMA Bounds == MaxAttempts \in Nat \ {0} /\ MaxReconnects \in Nat \ {0} /\ MaxWrites \in Nat \ {0}
  BY CompanionAssumption DEF CompanionAssumption

LEMMA Zeros == 0 \in 0..MaxAttempts /\ 0 \in 0..MaxReconnects /\ 0 \in 0..MaxWrites
  BY Bounds

LEMMA WithLinkSets ==
  ASSUME NEW u \in ClockType, NEW link \in LinkState
  PROVE  LET r == WithLink(u, link) IN
         /\ r \in ClockType /\ r.link = link
         /\ SameWish(u, r) /\ SameRoute(u, r) /\ SameAttempt(u, r)
  <1> DEFINE r == WithLink(u, link)
  <1>1. r \in ClockType
    BY Zeros DEF WithLink, ClockType, LinkState
  <1>2. r.link = link /\ SameWish(u, r) /\ SameRoute(u, r) /\ SameAttempt(u, r)
    BY DEF WithLink, ClockType, SameWish, SameRoute, SameAttempt
  <1> QED
    BY <1>1, <1>2

LEMMA CancelAttemptSets ==
  ASSUME NEW u \in ClockType
  PROVE  LET r == CancelAttempt(u) IN
         /\ r \in ClockType /\ r.link = u.link /\ SameWish(u, r) /\ SameRoute(u, r)
         /\ ~r.isAwaiting /\ r.timer = u.timer
  <1> DEFINE r == CancelAttempt(u)
  <1>1. r \in ClockType
    BY Zeros DEF CancelAttempt, ClockType
  <1>2. /\ r.link = u.link /\ SameWish(u, r) /\ SameRoute(u, r)
        /\ ~r.isAwaiting /\ r.timer = u.timer
    BY DEF CancelAttempt, ClockType, SameWish, SameRoute
  <1> QED
    BY <1>1, <1>2

LEMMA CancelTimerSets ==
  ASSUME NEW u \in ClockType
  PROVE  LET r == CancelTimer(u) IN
         /\ r \in ClockType /\ r.link = u.link /\ SameWish(u, r) /\ SameRoute(u, r)
         /\ r.isAwaiting = u.isAwaiting /\ r.attempt = u.attempt /\ r.timer = "none"
  <1> DEFINE r == CancelTimer(u)
  <1>1. r \in ClockType
    BY DEF CancelTimer, ClockType
  <1>2. /\ r.link = u.link /\ SameWish(u, r) /\ SameRoute(u, r)
        /\ r.isAwaiting = u.isAwaiting /\ r.attempt = u.attempt /\ r.timer = "none"
    BY DEF CancelTimer, ClockType, SameWish, SameRoute
  <1> QED
    BY <1>1, <1>2

\* No attempt, and no timer of one.
LEMMA CancelBoth ==
  ASSUME NEW u \in ClockType
  PROVE  LET r == CancelTimer(CancelAttempt(u)) IN
         /\ r \in ClockType /\ r.link = u.link /\ SameWish(u, r) /\ SameRoute(u, r)
         /\ ~r.isAwaiting /\ r.timer = "none"
  BY CancelAttemptSets, CancelTimerSets DEF SameWish, SameRoute

LEMMA CancelConnection ==
  ASSUME NEW u \in ClockType
  PROVE  LET r == cancelPeripheralConnection(u) IN
         /\ r \in ClockType /\ ~Live(r) /\ (r.link = "disconnected" => u.link # "connected")
         /\ SameWish(u, r) /\ SameRoute(u, r) /\ SameAttempt(u, r)
  <1>1. u.link \in LinkState
    BY DEF ClockType, LinkState
  <1>2. cancelPeripheralConnection(u) =
          CASE u.link = "connected"  -> WithLink(u, "disconnecting")
            [] u.link = "connecting" -> WithLink(u, "disconnected")
            [] OTHER                 -> u
    BY DEF cancelPeripheralConnection
  <1>3. CASE u.link = "connected"
    BY <1>2, <1>3, WithLinkSets DEF LinkState, Live
  <1>4. CASE u.link = "connecting"
    BY <1>2, <1>4, WithLinkSets DEF LinkState, Live
  <1>5. CASE u.link \notin {"connected", "connecting"}
    BY <1>2, <1>5 DEF Live, SameWish, SameRoute, SameAttempt
  <1> QED
    BY <1>3, <1>4, <1>5

Stopped(u) ==
  [u EXCEPT !.reconnectTimer = FALSE, !.reconnects = 0, !.manualSyncRequested = FALSE,
            !.connectPending = FALSE, !.peripheral = FALSE, !.characteristics = FALSE,
            !.sentInitialTime = FALSE, !.isConnected = FALSE]

\* A record whose connection can be stopped for good: its link is its peripheral's, or
\* waits to be restored.
Stoppable(u, restoring) == u \in ClockType /\ (Live(u) => u.peripheral \/ restoring)

\* A stopped clock holds no connection and waits for none.
LEMMA StopConnection ==
  ASSUME NEW restoring, NEW u, Stoppable(u, restoring)
  PROVE  LET r == stopConnection(u) IN
         /\ r \in ClockType /\ ~r.peripheral /\ Bare(r, restoring) /\ r.timer = "none"
         /\ r.known = u.known /\ r.automatic = u.automatic /\ ~r.manualSyncRequested
         /\ Live(r) => Live(u)
  <1> DEFINE k == IF u.peripheral THEN cancelPeripheralConnection(u) ELSE u
             v == CancelTimer(CancelAttempt(k))
             r == stopConnection(u)
  <1>1. u \in ClockType /\ (Live(u) => u.peripheral \/ restoring)
    BY DEF Stoppable
  <1>2. /\ k \in ClockType /\ SameWish(u, k)
        /\ Live(k) => Live(u) /\ restoring
    BY <1>1, CancelConnection DEF SameWish
  <1> HIDE DEF k
  <1>3. /\ v \in ClockType /\ v.link = k.link /\ SameWish(k, v)
        /\ ~v.isAwaiting /\ v.timer = "none"
    BY <1>2, CancelBoth
  <1>4. r = Stopped(v)
    BY DEF stopConnection, Stopped, k
  <1> HIDE DEF v, r
  <1>5. r \in ClockType
    BY <1>3, <1>4, Zeros DEF Stopped, ClockType
  <1>6. /\ ~r.peripheral /\ ~r.isConnected /\ ~r.connectPending /\ ~r.reconnectTimer
        /\ ~r.manualSyncRequested /\ r.known = v.known /\ r.automatic = v.automatic
        /\ r.isAwaiting = v.isAwaiting /\ r.timer = v.timer /\ r.link = v.link
    BY <1>3, <1>4 DEF Stopped, ClockType
  <1>7. /\ r \in ClockType /\ ~r.peripheral /\ Bare(r, restoring) /\ r.timer = "none"
        /\ r.known = u.known /\ r.automatic = u.automatic /\ ~r.manualSyncRequested
        /\ Live(r) => Live(u)
    BY <1>2, <1>3, <1>5, <1>6 DEF Bare, Live, SameWish
  <1> QED
    BY <1>7 DEF r

LEMMA BareSettles ==
  ASSUME NEW restoring, NEW u \in ClockType, ~u.peripheral, Bare(u, restoring),
         u.timer = "none", ~u.known => ~u.automatic /\ ~u.manualSyncRequested
  PROVE  Settled(u, restoring) /\ \A on : Powered(u, on)
  BY DEF Settled, Bare, Timed, Powered

LEMMA SettledStops ==
  ASSUME NEW restoring, NEW u, Settled(u, restoring)
  PROVE  Stoppable(u, restoring)
  BY DEF Settled, Stoppable, Bare

\* A record with a peripheral to connect to.
Adopted(u) ==
  /\ u \in ClockType /\ Timed(u) /\ u.peripheral /\ wantsConnection(u)
  /\ u.connectPending => u.link = "connecting"

LEMMA AdoptSets ==
  ASSUME NEW u \in ClockType, Timed(u)
  PROVE  LET r == adopt(u) IN
         /\ r \in ClockType /\ Timed(r) /\ r.peripheral /\ r.link = u.link /\ SameWish(u, r)
         /\ r.isConnected = u.isConnected /\ r.connectPending = u.connectPending
  <1> DEFINE v == CancelTimer(CancelAttempt(u))
             w == [v EXCEPT !.peripheral = TRUE, !.characteristics = FALSE,
                            !.sentInitialTime = FALSE]
  <1>1. /\ v \in ClockType /\ v.link = u.link /\ SameWish(u, v) /\ SameRoute(u, v)
        /\ ~v.isAwaiting /\ v.timer = "none"
    BY CancelBoth
  <1>2. adopt(u) = IF u.peripheral THEN u ELSE w
    BY DEF adopt
  <1> HIDE DEF v
  <1>3. w \in ClockType
    BY <1>1 DEF ClockType
  <1>4. /\ w.peripheral /\ w.link = v.link /\ SameWish(v, w)
        /\ w.isConnected = v.isConnected /\ w.connectPending = v.connectPending
        /\ ~w.isAwaiting /\ w.timer = v.timer
    BY <1>1 DEF ClockType, SameWish
  <1> HIDE DEF w
  <1> QED
    BY <1>1, <1>2, <1>3, <1>4 DEF Timed, SameWish, SameRoute

LEMMA SettledAdopts ==
  ASSUME NEW u, NEW restoring, Settled(u, restoring), wantsConnection(u)
  PROVE  Adopted(adopt(u)) /\ SameWish(u, adopt(u)) /\ adopt(u).link = u.link
  <1>1. u \in ClockType /\ Timed(u) /\ (u.connectPending => u.link = "connecting")
    BY DEF Settled
  <1>2. LET r == adopt(u) IN
        /\ r \in ClockType /\ Timed(r) /\ r.peripheral /\ r.link = u.link /\ SameWish(u, r)
        /\ r.isConnected = u.isConnected /\ r.connectPending = u.connectPending
    BY <1>1, AdoptSets
  <1> QED
    BY <1>1, <1>2 DEF Adopted, SameWish, wantsConnection

\* An adopted clock whose link is up, or on its way, is settled.
LEMMA AdoptedSettles ==
  ASSUME NEW u, Adopted(u), u.link # "disconnected"
  PROVE  Settled(u, FALSE) /\ \A on : Powered(u, on)
  BY DEF Adopted, Settled, Powered, wantsConnection

LEMMA RequestConnection ==
  ASSUME NEW u, Adopted(u)
  PROVE  LET r == requestConnection(u) IN
         Settled(r, FALSE) /\ (\A on : Powered(r, on)) /\ SameWish(u, r)
  <1> DEFINE w == WithLink(u, "connecting")
             v == [w EXCEPT !.reconnectTimer = FALSE, !.connectPending = TRUE]
  <1>1. u \in ClockType
    BY DEF Adopted
  <1>2. /\ w \in ClockType /\ w.link = "connecting"
        /\ SameWish(u, w) /\ SameRoute(u, w) /\ SameAttempt(u, w)
    BY <1>1, WithLinkSets DEF LinkState
  <1>3. requestConnection(u) = IF u.link = "disconnected" THEN v ELSE u
    BY DEF requestConnection, Adopted
  <1> HIDE DEF w
  <1>4. /\ v \in ClockType
    BY <1>2 DEF ClockType
  <1>5. /\ v.link = w.link /\ v.peripheral = w.peripheral /\ SameWish(w, v) /\ SameAttempt(w, v)
    BY <1>2 DEF ClockType, SameWish, SameAttempt
  <1> HIDE DEF v
  <1>6. u.link = "disconnected" => Adopted(v) /\ SameWish(u, v) /\ v.link = "connecting"
    BY <1>2, <1>4, <1>5
       DEF Adopted, Timed, SameWish, SameRoute, SameAttempt, wantsConnection
  <1> QED
    BY <1>3, <1>6, AdoptedSettles DEF SameWish

LEMMA DiscoverServices ==
  ASSUME NEW u \in ClockType
  PROVE  LET r == discoverClockServices(u) IN
         /\ r \in ClockType /\ r.link = u.link
         /\ SameWish(u, r) /\ SameRoute(u, r) /\ SameAttempt(u, r)
  <1> DEFINE v == [u EXCEPT !.gatt = "services"]
  <1>1. v \in ClockType
    BY DEF ClockType
  <1>2. v.link = u.link /\ SameWish(u, v) /\ SameRoute(u, v) /\ SameAttempt(u, v)
    BY DEF ClockType, SameWish, SameRoute, SameAttempt
  <1>3. discoverClockServices(u) \in {u, v}
    BY DEF discoverClockServices
  <1> HIDE DEF v
  <1> QED
    BY <1>1, <1>2, <1>3 DEF SameWish, SameRoute, SameAttempt

\* What discovery leaves alone is all that matters here.
LEMMA SameSettles ==
  ASSUME NEW restoring, NEW on, NEW u, NEW v \in ClockType, v.link = u.link,
         SameWish(u, v), SameRoute(u, v), SameAttempt(u, v)
  PROVE  /\ Settled(u, restoring) => Settled(v, restoring)
         /\ Powered(u, on) => Powered(v, on)
         /\ Adopted(u) => Adopted(v)
  BY DEF SameWish, SameRoute, SameAttempt, Settled, Powered, Adopted, Timed, Bare, Live,
         wantsConnection

LEMMA MarkConnected ==
  ASSUME NEW u, Adopted(u), u.link = "connected"
  PROVE  LET r == discoverClockServices([u EXCEPT !.isConnected = TRUE]) IN
         Settled(r, FALSE) /\ (\A on : Powered(r, on)) /\ SameWish(u, r)
  <1> DEFINE v == [u EXCEPT !.isConnected = TRUE]
  <1>1. v \in ClockType
    BY DEF Adopted, ClockType
  <1>2. /\ v.link = u.link /\ v.peripheral = u.peripheral /\ SameWish(u, v) /\ SameAttempt(u, v)
        /\ v.connectPending = u.connectPending
    BY DEF Adopted, ClockType, SameWish, SameAttempt
  <1> HIDE DEF v
  <1>3. Adopted(v)
    BY <1>1, <1>2 DEF Adopted, Timed, SameWish, SameAttempt, wantsConnection
  <1>4. Settled(v, FALSE) /\ \A on : Powered(v, on)
    BY <1>2, <1>3, AdoptedSettles
  <1>5. LET r == discoverClockServices(v) IN
        /\ r \in ClockType /\ r.link = v.link
        /\ SameWish(v, r) /\ SameRoute(v, r) /\ SameAttempt(v, r)
    BY <1>1, DiscoverServices
  <1>6. LET r == discoverClockServices(v) IN
        Settled(r, FALSE) /\ (\A on : Powered(r, on)) /\ SameWish(u, r)
    BY <1>2, <1>4, <1>5, SameSettles DEF SameWish
  <1> QED
    BY <1>6 DEF v

LEMMA MarkPending ==
  ASSUME NEW u, Adopted(u), u.link = "connecting"
  PROVE  LET r == [u EXCEPT !.connectPending = TRUE] IN
         Settled(r, FALSE) /\ (\A on : Powered(r, on)) /\ SameWish(u, r)
  <1> DEFINE v == [u EXCEPT !.connectPending = TRUE]
  <1>1. v \in ClockType
    BY DEF Adopted, ClockType
  <1>2. v.link = u.link /\ v.peripheral = u.peripheral /\ SameWish(u, v) /\ SameAttempt(u, v)
    BY DEF Adopted, ClockType, SameWish, SameAttempt
  <1> HIDE DEF v
  <1>3. Adopted(v)
    BY <1>1, <1>2 DEF Adopted, Timed, SameWish, SameAttempt, wantsConnection
  <1> QED
    BY <1>2, <1>3, AdoptedSettles DEF v

LEMMA ConnectSettles ==
  ASSUME NEW u, Adopted(u)
  PROVE  LET r == Connect(u) IN
         Settled(r, FALSE) /\ (\A on : Powered(r, on)) /\ SameWish(u, r)
  <1>1. u.link \in LinkState /\ u.peripheral
    BY DEF Adopted, ClockType, LinkState
  <1>2. CASE u.link = "connected"
    BY <1>1, <1>2, MarkConnected DEF Connect
  <1>3. CASE u.link = "disconnected"
    BY <1>1, <1>3, RequestConnection DEF Connect
  <1>4. CASE u.link = "connecting"
    BY <1>1, <1>4, MarkPending DEF Connect
  <1>5. CASE u.link = "disconnecting"
    BY <1>1, <1>5, AdoptedSettles DEF Connect, SameWish
  <1> QED
    BY <1>1, <1>2, <1>3, <1>4, <1>5 DEF LinkState

\* Nothing else about an attempt matters than that it is timed and has a peripheral.
LEMMA AttemptSettles ==
  ASSUME NEW restoring, NEW on, NEW u, NEW v \in ClockType, v.link = u.link,
         SameWish(u, v), SameRoute(u, v), Timed(v), v.isAwaiting => v.peripheral
  PROVE  /\ Settled(u, restoring) => Settled(v, restoring)
         /\ Powered(u, on) => Powered(v, on)
  BY DEF SameWish, SameRoute, Settled, Powered, Bare, Live, wantsConnection

LEMMA CancelSettles ==
  ASSUME NEW restoring, NEW u, Settled(u, restoring)
  PROVE  LET r == CancelTimer(CancelAttempt(u)) IN
         /\ Settled(r, restoring) /\ r.link = u.link /\ SameWish(u, r)
         /\ \A on : Powered(u, on) => Powered(r, on)
  <1> DEFINE r == CancelTimer(CancelAttempt(u))
  <1>1. u \in ClockType
    BY DEF Settled
  <1>2. /\ r \in ClockType /\ r.link = u.link /\ SameWish(u, r) /\ SameRoute(u, r)
        /\ ~r.isAwaiting /\ r.timer = "none"
    BY <1>1, CancelBoth
  <1> HIDE DEF r
  <1>3. Timed(r)
    BY <1>2 DEF Timed
  <1>4. /\ Settled(r, restoring) /\ r.link = u.link /\ SameWish(u, r)
        /\ \A on : Powered(u, on) => Powered(r, on)
    BY <1>2, <1>3, AttemptSettles
  <1> QED
    BY <1>4 DEF r

LEMMA StopSettles ==
  ASSUME NEW restoring, NEW u, Settled(u, restoring)
  PROVE  LET r == stopConnection(u) IN
         /\ Settled(r, restoring) /\ (\A on : Powered(r, on))
         /\ r.known = u.known /\ r.automatic = u.automatic /\ ~r.manualSyncRequested
         /\ Live(r) => Live(u)
  <1> DEFINE r == stopConnection(u)
  <1>1. /\ r \in ClockType /\ ~r.peripheral /\ Bare(r, restoring) /\ r.timer = "none"
        /\ r.known = u.known /\ r.automatic = u.automatic /\ ~r.manualSyncRequested
        /\ Live(r) => Live(u)
    BY SettledStops, StopConnection
  <1>2. ~r.known => ~r.automatic
    BY <1>1 DEF Settled
  <1> HIDE DEF r
  <1>3. Settled(r, restoring) /\ \A on : Powered(r, on)
    BY <1>1, <1>2, BareSettles
  <1> QED
    BY <1>1, <1>3 DEF r

\* A record that was stoppable is one of a clock nobody knows.
LEMMA ForgetSettles ==
  ASSUME NEW restoring, NEW u, Stoppable(u, restoring)
  PROVE  LET r == Forget(u) IN
         /\ Settled(r, restoring) /\ (\A on : Powered(r, on)) /\ ~r.known
         /\ Live(r) => Live(u)
  <1> DEFINE v == stopConnection(u)
             r == Forget(u)
  <1>1. /\ v \in ClockType /\ ~v.peripheral /\ Bare(v, restoring) /\ v.timer = "none"
        /\ ~v.manualSyncRequested /\ (Live(v) => Live(u))
    BY StopConnection
  <1>2. r = [v EXCEPT !.known = FALSE, !.automatic = FALSE]
    BY DEF Forget
  <1> HIDE DEF v, r
  <1>3. r \in ClockType
    BY <1>1, <1>2 DEF ClockType
  <1>4. /\ ~r.known /\ ~r.automatic /\ r.manualSyncRequested = v.manualSyncRequested
        /\ r.link = v.link /\ SameRoute(v, r) /\ SameAttempt(v, r)
    BY <1>1, <1>2 DEF ClockType, SameRoute, SameAttempt
  <1>5. Bare(r, restoring) /\ ~r.peripheral /\ r.timer = "none" /\ ~r.manualSyncRequested
    BY <1>1, <1>4 DEF Bare, Live, SameRoute, SameAttempt
  <1>6. Settled(r, restoring) /\ \A on : Powered(r, on)
    BY <1>3, <1>4, <1>5, BareSettles
  <1>7. Live(r) => Live(u)
    BY <1>1, <1>4 DEF Live
  <1> QED
    BY <1>4, <1>6, <1>7 DEF r

\* A link that is gone for good: nothing is left to restore, and a clock that has no
\* peripheral has lost nothing else.
LEMMA DropSettles ==
  ASSUME NEW restoring, NEW after, NEW u, Settled(u, restoring), ~u.peripheral
  PROVE  LET r == WithLink(u, "disconnected") IN
         /\ Settled(r, after) /\ (\A on : Powered(r, on)) /\ SameWish(u, r) /\ ~Live(r)
         /\ ~r.peripheral
  <1> DEFINE r == WithLink(u, "disconnected")
  <1>1. u \in ClockType
    BY DEF Settled
  <1>2. /\ r \in ClockType /\ r.link = "disconnected"
        /\ SameWish(u, r) /\ SameRoute(u, r) /\ SameAttempt(u, r)
    BY <1>1, WithLinkSets DEF LinkState
  <1> HIDE DEF r
  <1>3. /\ Bare(r, after) /\ ~r.peripheral /\ ~Live(r) /\ r.timer = "none"
        /\ ~r.known => ~r.automatic /\ ~r.manualSyncRequested
    BY <1>2 DEF Settled, Bare, Live, Timed, SameWish, SameRoute, SameAttempt
  <1>4. Settled(r, after) /\ \A on : Powered(r, on)
    BY <1>2, <1>3, BareSettles
  <1> QED
    BY <1>2, <1>3, <1>4 DEF r

\* After its connection is lost, a clock in automatic sync waits for the reconnect timer
\* or has used its delays up.
LEMMA ReconnectSettles ==
  ASSUME NEW u, Adopted(u), u.automatic, ~u.isConnected
  PROVE  LET r == scheduleReconnect(u) IN
         Settled(r, FALSE) /\ (\A on : Powered(r, on)) /\ SameWish(u, r) /\ r.link = u.link
  <1> DEFINE v == [u EXCEPT !.reconnectTimer = TRUE, !.reconnects = @ + 1]
             w == [u EXCEPT !.reconnectTimer = FALSE]
             r == scheduleReconnect(u)
  <1>1. u \in ClockType /\ u.reconnects \in 0..MaxReconnects
    BY DEF Adopted, ClockType
  <1>2. r = IF u.reconnects < MaxReconnects THEN v ELSE w
    BY DEF scheduleReconnect
  <1>3. ASSUME u.reconnects < MaxReconnects
        PROVE  v \in ClockType /\ v.reconnectTimer
    <2>1. u.reconnects + 1 \in 0..MaxReconnects
      BY <1>1, <1>3, Bounds
    <2> QED
      BY <1>1, <2>1 DEF ClockType
  <1>4. w \in ClockType
    BY <1>1 DEF ClockType
  <1>5. ASSUME ~(u.reconnects < MaxReconnects)
        PROVE  u.reconnects = MaxReconnects
    BY <1>1, <1>5, Bounds
  <1>6. /\ v.link = u.link /\ v.peripheral = u.peripheral /\ v.isConnected = u.isConnected
        /\ v.connectPending = u.connectPending /\ SameWish(u, v) /\ SameAttempt(u, v)
    BY <1>1 DEF ClockType, SameWish, SameAttempt
  <1>7. /\ w.link = u.link /\ w.peripheral = u.peripheral /\ w.isConnected = u.isConnected
        /\ w.connectPending = u.connectPending /\ SameWish(u, w) /\ SameAttempt(u, w)
        /\ w.reconnects = u.reconnects
    BY <1>1 DEF ClockType, SameWish, SameAttempt
  <1> HIDE DEF v, w, r
  <1>8. /\ r \in ClockType /\ r.link = u.link /\ r.peripheral = u.peripheral
        /\ r.isConnected = u.isConnected /\ r.connectPending = u.connectPending
        /\ SameWish(u, r) /\ SameAttempt(u, r)
    BY <1>2, <1>3, <1>4, <1>6, <1>7
  <1>9. r.reconnectTimer \/ r.reconnects = MaxReconnects
    BY <1>2, <1>3, <1>5, <1>7
  <1>10. Settled(r, FALSE) /\ \A on : Powered(r, on)
    BY <1>8, <1>9
       DEF Adopted, Settled, Powered, Timed, SameWish, SameAttempt, wantsConnection
  <1> QED
    BY <1>8, <1>10 DEF r

Sent(u) == [ScheduleTimer(u, "writeResponse") EXCEPT !.writes = IF @ < MaxWrites THEN @ + 1 ELSE @]

LEMMA SendSettles ==
  ASSUME NEW restoring, NEW isRetry, NEW u,
         Settled(u, restoring), u.peripheral, MayAttempt(u, isRetry)
  PROVE  LET r == Sent(BeginAttempt(u, isRetry)) IN
         /\ Settled(r, restoring) /\ SameWish(u, r) /\ r.link = u.link
         /\ \A on : Powered(u, on) => Powered(r, on)
  <1> DEFINE v == BeginAttempt(u, isRetry)
             w == ScheduleTimer(v, "writeResponse")
             r == Sent(v)
  <1>1. u \in ClockType /\ u.attempt \in 0..MaxAttempts /\ u.writes \in 0..MaxWrites
    BY DEF Settled, ClockType
  <1>2. (IF isRetry THEN u.attempt + 1 ELSE 1) \in 0..MaxAttempts
    BY <1>1, Bounds DEF MayAttempt
  <1>3. v \in ClockType
    BY <1>1, <1>2 DEF BeginAttempt, ClockType
  <1>4. /\ v.link = u.link /\ SameWish(u, v) /\ SameRoute(u, v) /\ v.writes = u.writes
        /\ v.isAwaiting /\ ~v.hasWriteResponse
    BY <1>1 DEF BeginAttempt, ClockType, SameWish, SameRoute
  <1> HIDE DEF v
  <1>5. w \in ClockType
    BY <1>3 DEF ScheduleTimer, ClockType
  <1>6. /\ w.link = v.link /\ SameWish(v, w) /\ SameRoute(v, w) /\ w.writes = v.writes
        /\ w.isAwaiting = v.isAwaiting /\ w.hasWriteResponse = v.hasWriteResponse
        /\ w.timer = "writeResponse" /\ w.timerCurrent
    BY <1>3 DEF ScheduleTimer, ClockType, SameWish, SameRoute
  <1>7. r = [w EXCEPT !.writes = IF @ < MaxWrites THEN @ + 1 ELSE @]
    BY DEF Sent
  <1> HIDE DEF w, r
  <1>8. (IF w.writes < MaxWrites THEN w.writes + 1 ELSE w.writes) \in 0..MaxWrites
    BY <1>1, <1>4, <1>6, Bounds
  <1>9. r \in ClockType
    BY <1>5, <1>7, <1>8 DEF ClockType
  <1>10. r.link = w.link /\ SameWish(w, r) /\ SameRoute(w, r) /\ SameAttempt(w, r)
    BY <1>5, <1>7 DEF ClockType, SameWish, SameRoute, SameAttempt
  <1>11. /\ r.link = u.link /\ SameWish(u, r) /\ SameRoute(u, r) /\ r.peripheral
         /\ Timed(r)
    BY <1>4, <1>6, <1>10 DEF SameWish, SameRoute, SameAttempt, Timed
  <1>12. /\ Settled(r, restoring) /\ SameWish(u, r) /\ r.link = u.link
         /\ \A on : Powered(u, on) => Powered(r, on)
    BY <1>9, <1>11, AttemptSettles
  <1> QED
    BY <1>12 DEF r, v

----------------------------------------------------------------------------
(* The manager's methods                                                   *)

SameApp(a, b) ==
  /\ b.sessionActivated = a.sessionActivated /\ b.authorizedClocks = a.authorizedClocks
  /\ b.initializationRequested = a.initializationRequested
  /\ b.centralManager = a.centralManager
  /\ b.radio = a.radio /\ b.restoring = a.restoring

\* Who is known stays so, and nobody else gets a link.
Moves(u, v) == v.known = u.known /\ (Live(v) => Live(u) \/ u.known)

\* What a method of the manager does, other than letting clocks come and go.
Follows(a, b) ==
  Sound(b) /\ SameApp(a, b) /\ \A c \in Clock : Moves(a.clock[c], b.clock[c])

\* What it makes of one clock's record.
Becomes(a, u, v) ==
  Settled(v, a.restoring) /\ Powered(v, a.radio = "poweredOn") /\ Moves(u, v)

LEMMA FollowsSelf ==
  ASSUME NEW a, Sound(a)
  PROVE  Follows(a, a)
  BY DEF Follows, SameApp, Moves

LEMMA FollowsOn ==
  ASSUME NEW a, NEW b, NEW d, Follows(a, b), Follows(b, d)
  PROVE  Follows(a, d)
  BY DEF Follows, SameApp, Moves

LEMMA WithSets ==
  ASSUME NEW a \in AppType, NEW c \in Clock, NEW u \in ClockType
  PROVE  LET r == With(a, c, u) IN
         /\ r \in AppType /\ SameApp(a, r) /\ r.isScanning = a.isScanning
         /\ r.clock[c] = u /\ \A d \in Clock \ {c} : r.clock[d] = a.clock[d]
  <1> DEFINE k == [a.clock EXCEPT ![c] = u]
             r == With(a, c, u)
  <1>1. a.clock \in [Clock -> ClockType]
    BY DEF AppType
  <1>2. k \in [Clock -> ClockType] /\ k[c] = u /\ \A d \in Clock \ {c} : k[d] = a.clock[d]
    BY <1>1
  <1>3. r = [a EXCEPT !.clock = k]
    BY DEF With
  <1> HIDE DEF k, r
  <1>4. r \in AppType /\ r.clock = k
    BY <1>2, <1>3 DEF AppType
  <1>5. SameApp(a, r) /\ r.isScanning = a.isScanning
    BY <1>3 DEF AppType, SameApp
  <1>6. /\ r \in AppType /\ SameApp(a, r) /\ r.isScanning = a.isScanning
        /\ r.clock[c] = u /\ \A d \in Clock \ {c} : r.clock[d] = a.clock[d]
    BY <1>2, <1>4, <1>5
  <1> QED
    BY <1>6 DEF r

LEMMA WithTwice ==
  ASSUME NEW a \in AppType, NEW c \in Clock, NEW u, NEW v
  PROVE  With(With(a, c, u), c, v) = With(a, c, v)
  BY DEF With, AppType

LEMMA WithSame ==
  ASSUME NEW a \in AppType, NEW c \in Clock
  PROVE  With(a, c, a.clock[c]) = a
  BY DEF With, AppType

LEMMA SameFits ==
  ASSUME NEW a, NEW b, SameApp(a, b), ManagerFits(a), b.isScanning => b.radio = "poweredOn"
  PROVE  ManagerFits(b)
  BY DEF SameApp, ManagerFits

LEMMA WithFollows ==
  ASSUME NEW a, Sound(a), NEW c \in Clock, NEW u, Becomes(a, a.clock[c], u)
  PROVE  Follows(a, With(a, c, u))
  <1> DEFINE r == With(a, c, u)
  <1>1. a \in AppType /\ u \in ClockType /\ ManagerFits(a)
    BY DEF Sound, Steady, Becomes, Settled
  <1>2. /\ r \in AppType /\ SameApp(a, r) /\ r.isScanning = a.isScanning
        /\ r.clock[c] = u /\ \A d \in Clock \ {c} : r.clock[d] = a.clock[d]
    BY <1>1, WithSets
  <1> HIDE DEF r
  <1>3. ManagerFits(r)
    BY <1>1, <1>2, SameFits DEF SameApp, ManagerFits
  <1>4. \A d \in Clock : /\ Settled(r.clock[d], r.restoring)
                         /\ Powered(r.clock[d], r.radio = "poweredOn")
                         /\ Moves(a.clock[d], r.clock[d])
    <2> TAKE d \in Clock
    <2>1. r.restoring = a.restoring /\ r.radio = a.radio
      BY <1>2 DEF SameApp
    <2>2. CASE d = c
      BY <1>2, <2>1, <2>2 DEF Becomes
    <2>3. CASE d # c
      BY <1>2, <2>1, <2>3 DEF Sound, Steady, Moves
    <2> QED
      BY <2>2, <2>3
  <1>5. Follows(a, r)
    BY <1>2, <1>3, <1>4 DEF Follows, Sound, Steady
  <1> QED
    BY <1>5 DEF r

\* The same for a method that goes through all the clocks.
LEMMA ClocksFollow ==
  ASSUME NEW a \in AppType, ManagerFits(a), NEW k,
         \A c \in Clock : Becomes(a, a.clock[c], k[c]),
         NEW r, r \in AppType, r.clock = k, SameApp(a, r), r.isScanning => r.radio = "poweredOn"
  PROVE  Follows(a, r)
  <1>1. ManagerFits(r)
    BY SameFits
  <1>2. r.restoring = a.restoring /\ r.radio = a.radio
    BY DEF SameApp
  <1> QED
    BY <1>1, <1>2 DEF Follows, Sound, Steady, Becomes

LEMMA UpdateScanState ==
  ASSUME NEW a, Sound(a)
  PROVE  Follows(a, updateScanState(a)) /\ updateScanState(a).clock = a.clock
  <1> DEFINE s == \E c \in Clock : wantsConnection(a.clock[c]) /\ ~a.clock[c].peripheral
             b == [a EXCEPT !.isScanning = s]
  <1>1. a \in AppType /\ ManagerFits(a)
    BY DEF Sound, Steady
  <1>2. s \in BOOLEAN
    OBVIOUS
  <1>3. updateScanState(a) = IF ~a.centralManager \/ a.radio # "poweredOn" THEN a ELSE b
    BY DEF updateScanState
  <1> HIDE DEF s
  <1>4. b \in AppType
    BY <1>1, <1>2 DEF AppType
  <1>5. b.clock = a.clock /\ SameApp(a, b)
    BY <1>1 DEF AppType, SameApp
  <1> HIDE DEF b
  <1>6. ASSUME a.radio = "poweredOn"
        PROVE  Follows(a, b)
    <2>1. b.radio = "poweredOn" /\ ManagerFits(b)
      BY <1>1, <1>5, <1>6, SameFits DEF SameApp
    <2>2. b.restoring = a.restoring /\ b.radio = a.radio
      BY <1>5 DEF SameApp
    <2> QED
      BY <1>4, <1>5, <2>1, <2>2 DEF Follows, Sound, Steady, Moves
  <1> QED
    BY <1>3, <1>5, <1>6, FollowsSelf

LEMMA FinishManualSync ==
  ASSUME NEW a, Sound(a), NEW c \in Clock
  PROVE  Follows(a, finishManualSyncIfNeeded(a, c))
  <1> DEFINE u == a.clock[c]
             v == [u EXCEPT !.manualSyncRequested = FALSE]
             w == stopConnection(u)
  <1>1. Settled(u, a.restoring) /\ Powered(u, a.radio = "poweredOn") /\ u \in ClockType
    BY DEF Sound, Steady, Settled
  <1>2. finishManualSyncIfNeeded(a, c) =
          IF ~u.manualSyncRequested THEN a
          ELSE IF u.automatic THEN With(a, c, v) ELSE updateScanState(With(a, c, w))
    BY DEF finishManualSyncIfNeeded
  <1>3. ASSUME u.automatic
        PROVE  Follows(a, With(a, c, v))
    <2>1. v \in ClockType
      BY <1>1 DEF ClockType
    <2>2. /\ v.link = u.link /\ v.known = u.known /\ v.automatic = u.automatic
          /\ ~v.manualSyncRequested /\ SameRoute(u, v) /\ SameAttempt(u, v)
      BY <1>1 DEF ClockType, SameRoute, SameAttempt
    <2> HIDE DEF v, u
    <2>3. Becomes(a, u, v)
      BY <1>1, <1>3, <2>1, <2>2 DEF Becomes, Moves, Settled, Powered, Bare, Live, Timed,
                                   SameRoute, SameAttempt, wantsConnection
    <2> QED
      BY <2>3, WithFollows DEF u
  <1>4. Follows(a, updateScanState(With(a, c, w)))
    <2>1. Becomes(a, u, w)
      BY <1>1, StopSettles DEF Becomes, Moves
    <2> HIDE DEF w
    <2>2. Follows(a, With(a, c, w))
      BY <2>1, WithFollows
    <2>3. Sound(With(a, c, w))
      BY <2>2 DEF Follows
    <2> QED
      BY <2>2, <2>3, UpdateScanState, FollowsOn
  <1> QED
    BY <1>2, <1>3, <1>4, FollowsSelf

LEMMA FailClockSetup ==
  ASSUME NEW a, Sound(a), NEW c \in Clock, a.clock[c].link = "connected"
  PROVE  Follows(a, failClockSetup(a, c))
  <1> DEFINE u == a.clock[c]
             v == cancelPeripheralConnection(u)
  <1>1. Settled(u, a.restoring) /\ u \in ClockType
    BY DEF Sound, Steady, Settled
  <1>2. failClockSetup(a, c) = IF u.automatic /\ u.peripheral THEN With(a, c, v)
                               ELSE finishManualSyncIfNeeded(a, c)
    BY DEF failClockSetup
  <1>3. v = WithLink(u, "disconnecting")
    BY DEF cancelPeripheralConnection
  <1> HIDE DEF v
  <1>4. /\ v \in ClockType /\ v.link = "disconnecting"
        /\ SameWish(u, v) /\ SameRoute(u, v) /\ SameAttempt(u, v)
    BY <1>1, <1>3, WithLinkSets DEF LinkState
  <1>5. u.link = "connected"
    OBVIOUS
  <1> HIDE DEF u
  <1>6. Becomes(a, u, v)
    BY <1>1, <1>4, <1>5 DEF Becomes, Moves, Settled, Powered, Bare, Live, Timed,
                      SameWish, SameRoute, SameAttempt, wantsConnection
  <1>7. Follows(a, With(a, c, v))
    BY <1>6, WithFollows DEF u
  <1> QED
    BY <1>2, <1>7, FinishManualSync

LEMMA SendPhoneTime ==
  ASSUME NEW a, Sound(a), NEW c \in Clock, NEW isRetry, NEW encodes
  PROVE  Follows(a, sendPhoneTime(a, c, isRetry, encodes))
  <1> DEFINE u == a.clock[c]
             v == BeginAttempt(u, isRetry)
             sends == /\ u.peripheral /\ u.link = "connected" /\ u.characteristics
                      /\ MayAttempt(u, isRetry)
  <1>1. /\ Settled(u, a.restoring) /\ Powered(u, a.radio = "poweredOn")
        /\ u \in ClockType
    BY DEF Sound, Steady, Settled
  <1>2. sendPhoneTime(a, c, isRetry, encodes) =
          IF ~sends THEN a
          ELSE IF encodes THEN With(a, c, Sent(v))
          ELSE finishManualSyncIfNeeded(With(a, c, CancelAttempt(v)), c)
    BY DEF sendPhoneTime, Sent
  <1>3. ASSUME sends
        PROVE  Follows(a, With(a, c, Sent(v)))
    <2>1. Becomes(a, u, Sent(v))
      BY <1>1, <1>3, SendSettles DEF Becomes, Moves, SameWish, Live
    <2> QED
      BY <2>1, WithFollows
  <1>4. ASSUME sends
        PROVE  Follows(a, With(a, c, CancelAttempt(v)))
    <2>1. u.attempt \in 0..MaxAttempts /\ ~u.isAwaiting
      BY <1>1, <1>4 DEF ClockType, MayAttempt
    <2>2. (IF isRetry THEN u.attempt + 1 ELSE 1) \in 0..MaxAttempts
      BY <1>4, <2>1, Bounds DEF MayAttempt
    <2>3. v \in ClockType
      BY <1>1, <2>2 DEF BeginAttempt, ClockType
    <2>4. v.link = u.link /\ SameWish(u, v) /\ SameRoute(u, v) /\ v.timer = u.timer
      BY <1>1 DEF BeginAttempt, ClockType, SameWish, SameRoute
    <2> HIDE DEF v, u
    <2>5. LET r == CancelAttempt(v) IN
          /\ r \in ClockType /\ r.link = v.link /\ SameWish(v, r) /\ SameRoute(v, r)
          /\ ~r.isAwaiting /\ r.timer = v.timer
      BY <2>3, CancelAttemptSets
    <2>6. u.timer = "none"
      BY <1>1, <2>1 DEF Settled, Timed
    <2>7. LET r == CancelAttempt(v) IN
          /\ r \in ClockType /\ r.link = u.link /\ SameWish(u, r) /\ SameRoute(u, r)
          /\ ~r.isAwaiting /\ Timed(r)
      BY <2>4, <2>5, <2>6 DEF SameWish, SameRoute, Timed
    <2>8. Becomes(a, u, CancelAttempt(v))
      BY <1>1, <2>7, AttemptSettles DEF Becomes, Moves, SameWish, Live
    <2> QED
      BY <2>8, WithFollows DEF u
  <1> HIDE DEF sends, v
  <1>5. ASSUME sends
        PROVE  Follows(a, finishManualSyncIfNeeded(With(a, c, CancelAttempt(v)), c))
    <2>1. Sound(With(a, c, CancelAttempt(v)))
      BY <1>4, <1>5 DEF Follows
    <2> QED
      BY <1>4, <1>5, <2>1, FinishManualSync, FollowsOn
  <1> QED
    BY <1>2, <1>3, <1>5, FollowsSelf

\* A clock that is wanted is connected to, if its peripheral is known or found.
Reached(u, c, found) ==
  IF ~wantsConnection(u) THEN u ELSE Connect(IF c \in found THEN adopt(u) ELSE u)

LEMMA ReachSettles ==
  ASSUME NEW u, Settled(u, FALSE), NEW c, NEW found
  PROVE  LET r == Reached(u, c, found) IN
         Settled(r, FALSE) /\ (\A on : Powered(r, on)) /\ Moves(u, r)
  <1> DEFINE r == Reached(u, c, found)
  <1>1. CASE ~wantsConnection(u)
    <2>1. r = u
      BY <1>1 DEF Reached
    <2>2. \A on : Powered(u, on)
      BY <1>1 DEF Settled, Powered, Bare
    <2> QED
      BY <2>1, <2>2 DEF Moves
  <1>2. CASE wantsConnection(u) /\ c \notin found /\ ~u.peripheral
    <2>1. r = u
      BY <1>2 DEF Reached, Connect
    <2>2. \A on : Powered(u, on)
      BY <1>2 DEF Settled, Powered, Bare
    <2> QED
      BY <2>1, <2>2 DEF Moves
  <1>3. CASE wantsConnection(u) /\ (c \in found \/ u.peripheral)
    <2> DEFINE v == IF c \in found THEN adopt(u) ELSE u
    <2>1. Adopted(v) /\ SameWish(u, v)
      <3>1. c \in found => Adopted(adopt(u)) /\ SameWish(u, adopt(u))
        BY <1>3, SettledAdopts
      <3>2. c \notin found => Adopted(u) /\ SameWish(u, u)
        BY <1>3 DEF Settled, Adopted, SameWish
      <3> QED
        BY <3>1, <3>2
    <2>2. r = Connect(v)
      BY <1>3 DEF Reached
    <2> HIDE DEF v, r
    <2>3. Settled(r, FALSE) /\ (\A on : Powered(r, on)) /\ SameWish(v, r)
      BY <2>1, <2>2, ConnectSettles
    <2>4. Moves(u, r)
      BY <1>3, <2>1, <2>3 DEF Moves, SameWish, wantsConnection
    <2> QED
      BY <2>3, <2>4 DEF r
  <1> QED
    BY <1>1, <1>2, <1>3

\* Whatever changed a wish or the count of reconnects, connecting makes good.
LEMMA ConnectClocks ==
  ASSUME NEW a, Steady(a), NEW found
  PROVE  Follows(a, connectAuthorizedClocks(a, found))
  <1> DEFINE k == [c \in Clock |-> Reached(a.clock[c], c, found)]
             b == [a EXCEPT !.clock = k]
             off == ~a.sessionActivated \/ ~a.centralManager \/ a.radio # "poweredOn"
  <1>1. a \in AppType /\ ManagerFits(a) /\ \A c \in Clock : Settled(a.clock[c], a.restoring)
    BY DEF Steady
  <1>2. connectAuthorizedClocks(a, found) = IF off THEN a ELSE updateScanState(b)
    BY DEF connectAuthorizedClocks, Reached
  <1>3. ASSUME off
        PROVE  Sound(a)
    <2>1. a.radio # "poweredOn"
      BY <1>1, <1>3 DEF ManagerFits
    <2> QED
      BY <2>1 DEF Sound, Powered
  <1> HIDE DEF off
  <1>4. ASSUME ~off
        PROVE  Follows(a, b)
    <2>1. a.restoring = FALSE
      BY <1>1, <1>4 DEF off, ManagerFits, AppType
    <2>2. \A c \in Clock : Becomes(a, a.clock[c], k[c])
      <3> TAKE c \in Clock
      <3>1. Settled(a.clock[c], FALSE)
        BY <1>1, <2>1
      <3>2. k[c] = Reached(a.clock[c], c, found)
        OBVIOUS
      <3> HIDE DEF k
      <3>3. /\ Settled(k[c], FALSE) /\ Moves(a.clock[c], k[c])
            /\ \A on : Powered(k[c], on)
        BY <3>1, <3>2, ReachSettles
      <3> QED
        BY <2>1, <3>3 DEF Becomes
    <2>3. k \in [Clock -> ClockType]
      <3>1. \A c \in Clock : k[c] \in ClockType
        BY <2>2 DEF Becomes, Settled
      <3> QED
        BY <3>1
    <2> HIDE DEF k
    <2>4. b \in AppType /\ b.clock = k
      BY <1>1, <2>3 DEF AppType
    <2>5. SameApp(a, b) /\ b.isScanning = a.isScanning
      BY <1>1 DEF AppType, SameApp
    <2> HIDE DEF b
    <2>6. b.isScanning => b.radio = "poweredOn"
      BY <1>1, <2>5 DEF SameApp, ManagerFits
    <2> QED
      BY <1>1, <2>2, <2>4, <2>5, <2>6, ClocksFollow
  <1> HIDE DEF b
  <1>5. ASSUME ~off
        PROVE  Follows(a, updateScanState(b))
    <2>1. Sound(b)
      BY <1>4, <1>5 DEF Follows
    <2> QED
      BY <1>4, <1>5, <2>1, UpdateScanState, FollowsOn
  <1> QED
    BY <1>2, <1>3, <1>5, FollowsSelf

----------------------------------------------------------------------------
(* Clocks come and go                                                      *)

\* Everything but the agreement of lifecycle and manager, which the end of a session
\* breaks for a moment; the clocks of gone may not be settled.
Loose(a, gone) ==
  /\ a \in AppType /\ (a.isScanning => a.radio = "poweredOn")
  /\ \A c \in gone : Stoppable(a.clock[c], a.restoring)
  /\ \A c \in Clock \ gone :
       Settled(a.clock[c], a.restoring) /\ Powered(a.clock[c], a.radio = "poweredOn")

\* Nobody gets a link.
Loses(a, b) == \A c \in Clock : Live(b.clock[c]) => Live(a.clock[c])

LEMMA ScanKeepsLoose ==
  ASSUME NEW a, Loose(a, {})
  PROVE  LET r == updateScanState(a) IN
         Loose(r, {}) /\ SameApp(a, r) /\ r.clock = a.clock
  <1> DEFINE s == \E c \in Clock : wantsConnection(a.clock[c]) /\ ~a.clock[c].peripheral
             b == [a EXCEPT !.isScanning = s]
             r == updateScanState(a)
  <1>1. a \in AppType
    BY DEF Loose
  <1>2. s \in BOOLEAN
    OBVIOUS
  <1>3. r = IF ~a.centralManager \/ a.radio # "poweredOn" THEN a ELSE b
    BY DEF updateScanState
  <1> HIDE DEF s
  <1>4. b \in AppType
    BY <1>1, <1>2 DEF AppType
  <1>5. b.clock = a.clock /\ SameApp(a, b)
    BY <1>1 DEF AppType, SameApp
  <1> HIDE DEF b
  <1>6. a.radio = "poweredOn" => Loose(b, {})
    BY <1>4, <1>5 DEF Loose, SameApp
  <1> QED
    BY <1>3, <1>5, <1>6 DEF SameApp

LEMMA RemoveRuntimes ==
  ASSUME NEW a, NEW gone \in SUBSET Clock, Loose(a, gone)
  PROVE  LET r == removeRuntimes(a, gone) IN
         /\ Loose(r, {}) /\ SameApp(a, r) /\ Loses(a, r)
         /\ \A c \in Clock : r.clock[c].known <=> c \notin gone /\ a.clock[c].known
  <1> DEFINE k == [c \in Clock |-> IF c \in gone THEN Forget(a.clock[c]) ELSE a.clock[c]]
             b == [a EXCEPT !.clock = k]
             r == removeRuntimes(a, gone)
  <1>1. a \in AppType /\ (a.isScanning => a.radio = "poweredOn")
    BY DEF Loose
  <1>2. r = IF gone = {} THEN a ELSE updateScanState(b)
    BY DEF removeRuntimes
  <1>3. \A c \in Clock :
          /\ Settled(k[c], a.restoring) /\ Powered(k[c], a.radio = "poweredOn")
          /\ k[c].known <=> c \notin gone /\ a.clock[c].known
          /\ Live(k[c]) => Live(a.clock[c])
    <2> TAKE c \in Clock
    <2>1. CASE c \in gone
      <3>1. Stoppable(a.clock[c], a.restoring)
        BY <2>1 DEF Loose
      <3> QED
        BY <2>1, <3>1, ForgetSettles
    <2>2. CASE c \notin gone
      BY <1>1, <2>2 DEF Loose, AppType, ClockType
    <2> QED
      BY <2>1, <2>2
  <1>4. k \in [Clock -> ClockType]
    <2>1. \A c \in Clock : k[c] \in ClockType
      BY <1>3 DEF Settled
    <2> QED
      BY <2>1
  <1> HIDE DEF k
  <1>5. b \in AppType /\ b.clock = k
    BY <1>1, <1>4 DEF AppType
  <1>6. SameApp(a, b) /\ b.isScanning = a.isScanning
    BY <1>1 DEF AppType, SameApp
  <1> HIDE DEF b, r
  <1>7. Loose(b, {})
    BY <1>1, <1>3, <1>5, <1>6 DEF Loose, SameApp
  <1>8. CASE gone = {}
    <2>1. r = a
      BY <1>2, <1>8
    <2>2. SameApp(a, a) /\ Loses(a, a)
      BY DEF SameApp, Loses
    <2>3. Loose(r, {}) /\ SameApp(a, r) /\ Loses(a, r)
      BY <1>8, <2>1, <2>2
    <2>4. \A c \in Clock : r.clock[c].known <=> c \notin gone /\ a.clock[c].known
      BY <1>8, <2>1
    <2> QED
      BY <2>3, <2>4 DEF r
  <1>9. CASE gone # {}
    <2>1. Loose(r, {}) /\ SameApp(b, r) /\ r.clock = k
      BY <1>2, <1>5, <1>7, <1>9, ScanKeepsLoose
    <2>2. SameApp(a, r)
      BY <1>6, <2>1 DEF SameApp
    <2>3. Loses(a, r)
      BY <1>3, <2>1 DEF Loses
    <2> QED
      BY <1>3, <2>1, <2>2, <2>3 DEF r
  <1> QED
    BY <1>8, <1>9

LEMMA LooseSound ==
  ASSUME NEW a, Loose(a, {}), ManagerFits(a)
  PROVE  Sound(a)
  BY DEF Loose, Sound, Steady

LEMMA SoundLoose ==
  ASSUME NEW a, Sound(a), NEW gone \in SUBSET Clock
  PROVE  Loose(a, gone)
  BY SettledStops DEF Loose, Sound, Steady, ManagerFits

\* A clock nobody knew has no peripheral and wants none yet.
LEMMA LearnSettles ==
  ASSUME NEW restoring, NEW u, Settled(u, restoring), ~u.known, NEW on \in BOOLEAN
  PROVE  LET r == [u EXCEPT !.known = TRUE, !.automatic = on] IN
         /\ Settled(r, restoring) /\ r.known /\ r.link = u.link
         /\ \A p : Powered(r, p)
  <1> DEFINE r == [u EXCEPT !.known = TRUE, !.automatic = on]
  <1>1. u \in ClockType
    BY DEF Settled
  <1>2. r \in ClockType
    BY <1>1 DEF ClockType
  <1>3. /\ r.known /\ r.link = u.link /\ SameRoute(u, r) /\ SameAttempt(u, r)
    BY <1>1 DEF ClockType, SameRoute, SameAttempt
  <1> HIDE DEF r
  <1>4. ~r.peripheral /\ Bare(r, restoring) /\ r.timer = "none"
    BY <1>3 DEF Settled, Bare, Live, Timed, SameRoute, SameAttempt, wantsConnection
  <1>5. Settled(r, restoring) /\ \A p : Powered(r, p)
    BY <1>2, <1>3, <1>4, BareSettles
  <1> QED
    BY <1>3, <1>5 DEF r

LEMMA ReconcileClocks ==
  ASSUME NEW a, NEW authorized \in SUBSET Clock, automaticSync \in [Clock -> BOOLEAN],
         Loose(a, {c \in Clock \ authorized : a.clock[c].known})
  PROVE  LET r == reconcileAuthorizedClocks(a, authorized) IN
         /\ Loose(r, {}) /\ SameApp(a, r) /\ Loses(a, r)
         /\ \A c \in Clock : r.clock[c].known <=> c \in authorized
  <1> DEFINE gone == {c \in Clock \ authorized : a.clock[c].known}
             b == removeRuntimes(a, gone)
             Learnt(c) == [b.clock[c] EXCEPT !.known = TRUE, !.automatic = automaticSync[c]]
             k == [c \in Clock |->
                    IF c \in authorized /\ ~b.clock[c].known THEN Learnt(c) ELSE b.clock[c]]
             r == reconcileAuthorizedClocks(a, authorized)
  <1>1. /\ Loose(b, {}) /\ SameApp(a, b) /\ Loses(a, b)
        /\ \A c \in Clock : b.clock[c].known <=> c \notin gone /\ a.clock[c].known
    BY RemoveRuntimes
  <1>2. \A c \in Clock : b.clock[c].known => c \in authorized
    BY <1>1
  <1>3. r = [b EXCEPT !.clock = k]
    BY DEF reconcileAuthorizedClocks
  <1>4. b \in AppType
    BY <1>1 DEF Loose
  <1> HIDE DEF b, gone, r
  <1>5. \A c \in Clock :
          /\ Settled(k[c], b.restoring) /\ Powered(k[c], b.radio = "poweredOn")
          /\ k[c].known <=> c \in authorized
          /\ k[c].link = b.clock[c].link
    <2> TAKE c \in Clock
    <2>1. Settled(b.clock[c], b.restoring) /\ Powered(b.clock[c], b.radio = "poweredOn")
      BY <1>1 DEF Loose
    <2>2. CASE c \in authorized /\ ~b.clock[c].known
      <3>1. k[c] = Learnt(c)
        BY <2>2
      <3>2. automaticSync[c] \in BOOLEAN
        OBVIOUS
      <3>3. /\ Settled(Learnt(c), b.restoring) /\ Learnt(c).known
            /\ Learnt(c).link = b.clock[c].link
            /\ \A p : Powered(Learnt(c), p)
        BY <2>1, <2>2, <3>2, LearnSettles
      <3> HIDE DEF Learnt, k
      <3> QED
        BY <2>2, <3>1, <3>3
    <2>3. CASE ~(c \in authorized /\ ~b.clock[c].known)
      <3>1. k[c] = b.clock[c]
        BY <2>3
      <3> HIDE DEF k
      <3> QED
        BY <1>2, <2>1, <2>3, <3>1
    <2> QED
      BY <2>2, <2>3
  <1>6. k \in [Clock -> ClockType]
    <2>1. \A c \in Clock : k[c] \in ClockType
      BY <1>5 DEF Settled
    <2> QED
      BY <2>1
  <1> HIDE DEF k
  <1>7. r \in AppType /\ r.clock = k
    BY <1>3, <1>4, <1>6 DEF AppType
  <1>8. SameApp(b, r) /\ r.isScanning = b.isScanning
    BY <1>3, <1>4 DEF AppType, SameApp
  <1>9. Loose(r, {})
    BY <1>1, <1>5, <1>7, <1>8 DEF Loose, SameApp
  <1>10. SameApp(a, r)
    BY <1>1, <1>8 DEF SameApp
  <1>11. Loses(a, r)
    BY <1>1, <1>5, <1>7 DEF Loses, Live
  <1>12. \A c \in Clock : r.clock[c].known <=> c \in authorized
    BY <1>5, <1>7
  <1> QED
    BY <1>9, <1>10, <1>11, <1>12 DEF r, gone

\* Without its manager a clock has no link, and there is nothing to restore.
LEMMA TearSettles ==
  ASSUME NEW restoring, NEW after, NEW u, Settled(u, restoring)
  PROVE  LET r == WithLink(stopConnection(u), "disconnected") IN
         Settled(r, after) /\ r.known = u.known /\ ~Live(r)
  <1> DEFINE v == stopConnection(u)
  <1>1. Settled(v, restoring) /\ v.known = u.known
    BY StopSettles
  <1>2. ~v.peripheral
    BY SettledStops, StopConnection
  <1> HIDE DEF v
  <1> QED
    BY <1>1, <1>2, DropSettles DEF SameWish, v

\* What is left when the manager goes.
LEMMA TearDown ==
  ASSUME NEW a \in AppType, \A c \in Clock : Settled(a.clock[c], a.restoring),
         ~a.initializationRequested
  PROVE  LET r == tearDownCoreBluetooth(a) IN
         /\ Sound(r) /\ ~r.centralManager
         /\ r.sessionActivated = a.sessionActivated /\ r.authorizedClocks = a.authorizedClocks
         /\ \A c \in Clock : r.clock[c].known = a.clock[c].known /\ ~Live(r.clock[c])
  <1> DEFINE k == [c \in Clock |-> WithLink(stopConnection(a.clock[c]), "disconnected")]
             r == tearDownCoreBluetooth(a)
  <1>1. r = [a EXCEPT !.isScanning = FALSE, !.centralManager = FALSE, !.radio = "unknown",
                      !.restoring = FALSE, !.clock = k]
    BY DEF tearDownCoreBluetooth
  <1>2. \A c \in Clock :
          Settled(k[c], FALSE) /\ k[c].known = a.clock[c].known /\ ~Live(k[c])
    BY TearSettles
  <1>3. k \in [Clock -> ClockType]
    <2>1. \A c \in Clock : k[c] \in ClockType
      BY <1>2 DEF Settled
    <2> QED
      BY <2>1
  <1> HIDE DEF k, r
  <1>4. r \in AppType /\ r.clock = k
    BY <1>1, <1>3 DEF AppType
  <1>5. /\ r.isScanning = FALSE /\ r.centralManager = FALSE /\ r.radio = "unknown"
        /\ r.restoring = FALSE /\ r.initializationRequested = a.initializationRequested
        /\ r.sessionActivated = a.sessionActivated /\ r.authorizedClocks = a.authorizedClocks
    BY <1>1 DEF AppType
  <1>6. Sound(r)
    BY <1>2, <1>4, <1>5 DEF Sound, Steady, ManagerFits, Powered
  <1>7. /\ Sound(r) /\ ~r.centralManager
        /\ r.sessionActivated = a.sessionActivated /\ r.authorizedClocks = a.authorizedClocks
        /\ \A c \in Clock : r.clock[c].known = a.clock[c].known /\ ~Live(r.clock[c])
    BY <1>2, <1>4, <1>5, <1>6
  <1> QED
    BY <1>7 DEF r

\* Only the manager's existence changes.
LEMMA RequestBluetooth ==
  ASSUME NEW a, Sound(a), NEW found, a.sessionActivated, a.authorizedClocks # {}
  PROVE  LET r == requestBluetoothInitialization(a, found) IN
         /\ Sound(r) /\ r.clock = a.clock
         /\ r.sessionActivated = a.sessionActivated /\ r.authorizedClocks = a.authorizedClocks
  <1> DEFINE b == [a EXCEPT !.initializationRequested = TRUE]
             d == [b EXCEPT !.centralManager = TRUE]
             r == requestBluetoothInitialization(a, found)
  <1>1. a \in AppType /\ ManagerFits(a)
    BY DEF Sound, Steady
  <1>2. CASE ~MayInitialize(a)
    BY <1>2 DEF requestBluetoothInitialization
  <1>3. CASE MayInitialize(a)
    <2>1. ~a.initializationRequested /\ ~a.centralManager
      BY <1>1, <1>3 DEF MayInitialize, ManagerFits
    <2>2. r = initializeCoreBluetooth(b, found)
      BY <1>3 DEF requestBluetoothInitialization
    <2>3. ~b.centralManager /\ b.sessionActivated /\ b.authorizedClocks # {}
      BY <1>1, <2>1 DEF AppType
    <2>4. r = d
      BY <2>2, <2>3 DEF initializeCoreBluetooth
    <2>5. d \in AppType
      BY <1>1 DEF AppType
    <2>6. /\ d.initializationRequested /\ d.centralManager /\ d.clock = a.clock
          /\ d.sessionActivated = a.sessionActivated
          /\ d.authorizedClocks = a.authorizedClocks /\ d.radio = a.radio
          /\ d.restoring = a.restoring /\ d.isScanning = a.isScanning
      BY <1>1 DEF AppType
    <2> HIDE DEF d, b
    <2>7. Sound(d)
      BY <1>1, <2>5, <2>6 DEF Sound, Steady, ManagerFits
    <2> QED
      BY <2>4, <2>6, <2>7
  <1> QED
    BY <1>2, <1>3

LEMMA Release ==
  ASSUME NEW a, Sound(a)
  PROVE  LET r == ReleaseBluetooth(a) IN
         /\ Sound(r) /\ ~r.centralManager
         /\ r.sessionActivated = a.sessionActivated /\ r.authorizedClocks = a.authorizedClocks
         /\ Loses(a, r) /\ \A c \in Clock : r.clock[c].known = a.clock[c].known
  <1> DEFINE b == [a EXCEPT !.initializationRequested = FALSE]
             r == ReleaseBluetooth(a)
  <1>1. a \in AppType /\ ManagerFits(a) /\ \A c \in Clock : Settled(a.clock[c], a.restoring)
    BY DEF Sound, Steady
  <1>2. CASE ~a.initializationRequested
    <2>1. r = a
      BY <1>2 DEF ReleaseBluetooth
    <2> QED
      BY <1>1, <1>2, <2>1 DEF ManagerFits, Loses
  <1>3. CASE a.initializationRequested
    <2>1. r = tearDownCoreBluetooth(b)
      BY <1>3 DEF ReleaseBluetooth
    <2>2. b \in AppType
      BY <1>1 DEF AppType
    <2>3. /\ ~b.initializationRequested /\ b.clock = a.clock /\ b.restoring = a.restoring
          /\ b.sessionActivated = a.sessionActivated /\ b.authorizedClocks = a.authorizedClocks
      BY <1>1 DEF AppType
    <2> HIDE DEF b
    <2>4. /\ Sound(r) /\ ~r.centralManager
          /\ r.sessionActivated = b.sessionActivated /\ r.authorizedClocks = b.authorizedClocks
          /\ \A c \in Clock : r.clock[c].known = b.clock[c].known /\ ~Live(r.clock[c])
      BY <1>1, <2>1, <2>2, <2>3, TearDown
    <2> HIDE DEF r
    <2>5. /\ Sound(r) /\ ~r.centralManager
          /\ r.sessionActivated = a.sessionActivated /\ r.authorizedClocks = a.authorizedClocks
          /\ Loses(a, r) /\ \A c \in Clock : r.clock[c].known = a.clock[c].known
      BY <2>3, <2>4 DEF Loses
    <2> QED
      BY <2>5 DEF r
  <1> QED
    BY <1>2, <1>3

\* What holds of the manager between two callbacks, but for who is authorized.
Managed(a) == Sound(a) /\ (a.centralManager => a.authorizedClocks # {})

LEMMA ReplaceClocks ==
  ASSUME NEW a, NEW authorized, NEW found, Sound(a), authorized \in SUBSET Clock,
         authorized = {} \/ a.sessionActivated
  PROVE  LET r == replaceAuthorizedClocks(a, authorized, found) IN
         /\ Managed(r) /\ (r.sessionActivated <=> a.sessionActivated)
         /\ r.authorizedClocks = authorized /\ Loses(a, r)
         /\ \A c \in Clock : r.clock[c].known = a.clock[c].known
  <1> DEFINE b == [a EXCEPT !.authorizedClocks = authorized]
             r == replaceAuthorizedClocks(a, authorized, found)
  <1>1. a \in AppType /\ ManagerFits(a)
    BY DEF Sound, Steady
  <1>2. r = IF authorized # {} THEN requestBluetoothInitialization(b, found)
            ELSE ReleaseBluetooth(b)
    BY DEF replaceAuthorizedClocks
  <1>3. b \in AppType
    BY <1>1 DEF AppType
  <1>4. /\ b.authorizedClocks = authorized /\ b.clock = a.clock
        /\ b.sessionActivated = a.sessionActivated /\ b.centralManager = a.centralManager
        /\ b.initializationRequested = a.initializationRequested
        /\ b.radio = a.radio /\ b.restoring = a.restoring /\ b.isScanning = a.isScanning
    BY <1>1 DEF AppType
  <1> HIDE DEF b
  <1>5. Sound(b)
    BY <1>1, <1>3, <1>4 DEF Sound, Steady, ManagerFits
  <1> HIDE DEF r
  <1>6. CASE authorized # {}
    <2>1. /\ Sound(r) /\ r.clock = b.clock
          /\ r.sessionActivated = b.sessionActivated /\ r.authorizedClocks = b.authorizedClocks
      BY <1>2, <1>4, <1>5, <1>6, RequestBluetooth
    <2> QED
      BY <1>4, <1>6, <2>1 DEF Managed, Loses, r
  <1>7. CASE authorized = {}
    <2>1. /\ Sound(r) /\ ~r.centralManager
          /\ r.sessionActivated = b.sessionActivated /\ r.authorizedClocks = b.authorizedClocks
          /\ Loses(b, r) /\ \A c \in Clock : r.clock[c].known = b.clock[c].known
      BY <1>2, <1>5, <1>7, Release
    <2> QED
      BY <1>4, <1>7, <2>1 DEF Managed, Loses, r
  <1> QED
    BY <1>6, <1>7

\* Whatever the session says is authorized, the clocks with a runtime are these.
LEMMA ReconcileSession ==
  ASSUME NEW a, ManagerFits(a), a.sessionActivated, automaticSync \in [Clock -> BOOLEAN],
         NEW authorized \in SUBSET Clock, NEW found,
         Loose(a, {c \in Clock \ authorized : a.clock[c].known})
  PROVE  LET r == reconcileWithAccessorySession(a, authorized, found) IN
         /\ Managed(r) /\ r.sessionActivated /\ r.authorizedClocks = authorized
         /\ Loses(a, r) /\ \A c \in Clock : r.clock[c].known <=> c \in authorized
  <1> DEFINE b == reconcileAuthorizedClocks(a, authorized)
             r == reconcileWithAccessorySession(a, authorized, found)
  <1>1. /\ Loose(b, {}) /\ SameApp(a, b) /\ Loses(a, b)
        /\ \A c \in Clock : b.clock[c].known <=> c \in authorized
    BY ReconcileClocks
  <1>2. r = replaceAuthorizedClocks(b, authorized, found)
    BY DEF reconcileWithAccessorySession
  <1> HIDE DEF b
  <1>3. ManagerFits(b)
    BY <1>1, SameFits DEF Loose
  <1>4. Sound(b) /\ b.sessionActivated
    BY <1>1, <1>3, LooseSound DEF SameApp
  <1> HIDE DEF r
  <1>5. /\ Managed(r) /\ (r.sessionActivated <=> b.sessionActivated)
        /\ r.authorizedClocks = authorized /\ Loses(b, r)
        /\ \A c \in Clock : r.clock[c].known = b.clock[c].known
    <2>1. authorized = {} \/ b.sessionActivated
      BY <1>4
    <2>2. LET q == replaceAuthorizedClocks(b, authorized, found) IN
          /\ Managed(q) /\ (q.sessionActivated <=> b.sessionActivated)
          /\ q.authorizedClocks = authorized /\ Loses(b, q)
          /\ \A c \in Clock : q.clock[c].known = b.clock[c].known
      BY <1>4, <2>1, ReplaceClocks
    <2> QED
      BY <1>2, <2>2
  <1>6. /\ Managed(r) /\ r.sessionActivated /\ r.authorizedClocks = authorized
        /\ Loses(a, r) /\ \A c \in Clock : r.clock[c].known <=> c \in authorized
    BY <1>1, <1>4, <1>5 DEF Loses
  <1> QED
    BY <1>6 DEF r

----------------------------------------------------------------------------
(* One step                                                                *)

\* A method that lets nobody come or go keeps the invariant.
LEMMA FollowsKeeps ==
  ASSUME IInv, Follows(app, app'), accessories' = accessories,
         automaticSync' \in [Clock -> BOOLEAN], removing' \subseteq Clock
  PROVE  IInv'
  <1>1. /\ Sound(app') /\ app' \in AppType /\ SameApp(app, app')
        /\ \A c \in Clock : Moves(app.clock[c], app'.clock[c])
    BY DEF Follows, Sound, Steady
  <1>2. TypeOK'
    BY <1>1 DEF IInv, TypeOK
  <1>3. /\ app'.centralManager => app'.authorizedClocks # {}
        /\ app'.authorizedClocks = IF app'.sessionActivated THEN accessories' ELSE {}
        /\ \A c \in Clock : app'.clock[c].known <=> c \in app'.authorizedClocks
    BY <1>1 DEF IInv, SameApp, Moves
  <1>4. \A c \in Clock : Live(app'.clock[c]) => c \in accessories'
    <2>1. app.authorizedClocks \subseteq accessories
      BY DEF IInv, TypeOK, AppType
    <2> QED
      BY <1>1, <2>1 DEF IInv, Moves
  <1> QED
    BY <1>1, <1>2, <1>3, <1>4 DEF IInv

\* The state of a manager whose clocks and authorizations are the session's.
LEMMA ManagedKeeps ==
  ASSUME IInv, Managed(app'),
         accessories' \subseteq Clock, automaticSync' \in [Clock -> BOOLEAN],
         removing' \subseteq Clock,
         app'.authorizedClocks = IF app'.sessionActivated THEN accessories' ELSE {},
         \A c \in Clock : app'.clock[c].known <=> c \in app'.authorizedClocks,
         \A c \in Clock : Live(app'.clock[c]) => c \in accessories'
  PROVE  IInv'
  <1>1. Sound(app') /\ app' \in AppType
    BY DEF Managed, Sound, Steady
  <1>2. TypeOK'
    BY <1>1 DEF TypeOK
  <1> QED
    BY <1>1, <1>2 DEF IInv, Managed

LEMMA Holds ==
  ASSUME IInv
  PROVE  /\ app \in AppType /\ ManagerFits(app) /\ Sound(app) /\ Managed(app)
         /\ accessories \subseteq Clock /\ automaticSync \in [Clock -> BOOLEAN]
         /\ removing \subseteq Clock /\ app.authorizedClocks \subseteq accessories
         /\ app.authorizedClocks \in SUBSET Clock
         /\ \A c \in Clock : /\ Settled(app.clock[c], app.restoring)
                             /\ Powered(app.clock[c], app.radio = "poweredOn")
                             /\ app.clock[c] \in ClockType
                             /\ app.clock[c].known <=> c \in app.authorizedClocks
                             /\ Live(app.clock[c]) => c \in accessories
  <1>1. \A c \in Clock : /\ Settled(app.clock[c], app.restoring)
                         /\ Powered(app.clock[c], app.radio = "poweredOn")
                         /\ app.clock[c] \in ClockType
    BY DEF IInv, Sound, Steady, Settled
  <1>2. /\ app \in AppType /\ ManagerFits(app) /\ Sound(app) /\ Managed(app)
        /\ accessories \subseteq Clock /\ automaticSync \in [Clock -> BOOLEAN]
        /\ removing \subseteq Clock
    BY DEF IInv, TypeOK, Sound, Steady, Managed
  <1>3. app.authorizedClocks \subseteq accessories /\ app.authorizedClocks \in SUBSET Clock
    BY <1>2 DEF IInv
  <1> QED
    BY <1>1, <1>2, <1>3 DEF IInv

LEMMA QuietKeeps ==
  ASSUME IInv, Follows(app, app'), UNCHANGED <<accessories, automaticSync, removing>>
  PROVE  IInv'
  <1>1. automaticSync' \in [Clock -> BOOLEAN] /\ removing' \subseteq Clock
    BY Holds
  <1> QED
    BY <1>1, FollowsKeeps

LEMMA RecordKeeps ==
  ASSUME IInv, NEW c \in Clock, NEW u, Becomes(app, app.clock[c], u),
         app' = With(app, c, u), UNCHANGED <<accessories, automaticSync, removing>>
  PROVE  IInv'
  BY Holds, WithFollows, QuietKeeps

LEMMA SoundClocks ==
  ASSUME NEW a, Sound(a), NEW b \in AppType, b.clock = a.clock, b.radio = a.radio,
         b.restoring = a.restoring, ManagerFits(b)
  PROVE  Sound(b)
  BY DEF Sound, Steady

LEMMA FollowsManaged ==
  ASSUME NEW a, NEW b, Managed(a), Follows(a, b)
  PROVE  Managed(b)
  BY DEF Managed, Follows, SameApp

\* A record that is settled may ask for a connection, whatever it has lost.
LEMMA WithConnects ==
  ASSUME NEW a, Sound(a), NEW c \in Clock, NEW u, Settled(u, a.restoring),
         Moves(a.clock[c], u), NEW found
  PROVE  Follows(a, connectAuthorizedClocks(With(a, c, u), found))
  <1> DEFINE b == With(a, c, u)
             r == connectAuthorizedClocks(b, found)
  <1>1. a \in AppType /\ u \in ClockType /\ ManagerFits(a)
    BY DEF Sound, Steady, Settled
  <1>2. /\ b \in AppType /\ SameApp(a, b) /\ b.isScanning = a.isScanning
        /\ b.clock[c] = u /\ \A d \in Clock \ {c} : b.clock[d] = a.clock[d]
    BY <1>1, WithSets
  <1> HIDE DEF b
  <1>3. ManagerFits(b)
    BY <1>1, <1>2, SameFits DEF SameApp, ManagerFits
  <1>4. \A d \in Clock : Settled(b.clock[d], b.restoring) /\ Moves(a.clock[d], b.clock[d])
    <2> TAKE d \in Clock
    <2>1. CASE d = c
      BY <1>2, <2>1 DEF SameApp
    <2>2. CASE d # c
      BY <1>2, <2>2 DEF SameApp, Sound, Steady, Moves
    <2> QED
      BY <2>1, <2>2
  <1>5. Steady(b)
    BY <1>2, <1>3, <1>4 DEF Steady
  <1>6. Follows(b, r)
    BY <1>5, ConnectClocks
  <1> HIDE DEF r
  <1>7. Follows(a, r)
    BY <1>2, <1>4, <1>6 DEF Follows, SameApp, Moves
  <1> QED
    BY <1>7 DEF r, b

----------------------------------------------------------------------------
(* The session and the user                                                *)

LEMMA SessionActivatedKeeps ==
  ASSUME IInv, SessionActivated
  PROVE  IInv'
  <1> DEFINE a == [app EXCEPT !.sessionActivated = TRUE]
             gone == {c \in Clock \ accessories : a.clock[c].known}
             b == reconcileAuthorizedClocks(a, accessories)
             d == [b EXCEPT !.authorizedClocks = accessories]
             e == [d EXCEPT !.initializationRequested = FALSE]
  <1>1. /\ ~app.sessionActivated /\ UNCHANGED <<accessories, automaticSync, removing>>
        /\ app' = IF accessories = {} THEN e ELSE requestBluetoothInitialization(d, {})
    BY DEF SessionActivated
  <1>2. app \in AppType /\ ManagerFits(app) /\ Sound(app)
    BY Holds
  <1>3. a \in AppType
    BY <1>2 DEF AppType
  <1>4. /\ a.sessionActivated /\ a.clock = app.clock /\ a.centralManager = app.centralManager
        /\ a.initializationRequested = app.initializationRequested /\ a.radio = app.radio
        /\ a.restoring = app.restoring /\ a.isScanning = app.isScanning
    BY <1>2 DEF AppType
  <1>5. ~a.centralManager /\ ManagerFits(a)
    BY <1>1, <1>2, <1>4 DEF ManagerFits
  <1> HIDE DEF a
  <1>6. Sound(a)
    BY <1>2, <1>3, <1>4, <1>5, SoundClocks
  <1>7. Loose(a, gone)
    BY <1>6, SoundLoose
  <1>8. /\ Loose(b, {}) /\ SameApp(a, b) /\ Loses(a, b)
        /\ \A c \in Clock : b.clock[c].known <=> c \in accessories
    BY <1>7, Holds, ReconcileClocks
  <1> HIDE DEF b, gone
  <1>9. b \in AppType /\ ManagerFits(b) /\ ~b.centralManager /\ b.sessionActivated
    BY <1>4, <1>5, <1>8, SameFits DEF Loose, SameApp
  <1>10. d \in AppType
    BY <1>9, Holds DEF AppType
  <1>11. /\ d.authorizedClocks = accessories /\ d.clock = b.clock /\ d.radio = b.radio
         /\ d.restoring = b.restoring /\ d.isScanning = b.isScanning
         /\ d.sessionActivated = b.sessionActivated /\ d.centralManager = b.centralManager
         /\ d.initializationRequested = b.initializationRequested
    BY <1>9 DEF AppType
  <1> HIDE DEF d
  <1>12. Sound(d) /\ d.sessionActivated /\ ~d.centralManager
    BY <1>8, <1>9, <1>10, <1>11, LooseSound, SoundClocks DEF ManagerFits
  <1>13. /\ Sound(app') /\ app'.clock = d.clock /\ app'.authorizedClocks = accessories
         /\ app'.sessionActivated
         /\ accessories = {} => ~app'.centralManager
    <2>1. CASE accessories = {}
      <3>1. e \in AppType
        BY <1>10 DEF AppType
      <3>2. /\ e.authorizedClocks = accessories /\ e.clock = d.clock /\ e.radio = d.radio
            /\ e.restoring = d.restoring /\ e.isScanning = d.isScanning
            /\ e.sessionActivated = d.sessionActivated /\ e.centralManager = d.centralManager
            /\ ~e.initializationRequested
        BY <1>10, <1>11 DEF AppType
      <3> HIDE DEF e
      <3>3. Sound(e)
        BY <1>12, <3>1, <3>2, SoundClocks DEF Sound, Steady, ManagerFits
      <3> QED
        BY <1>1, <1>12, <2>1, <3>2, <3>3
    <2>2. CASE accessories # {}
      BY <1>1, <1>11, <1>12, <2>2, RequestBluetooth
    <2> QED
      BY <2>1, <2>2
  <1>14. Managed(app')
    BY <1>13 DEF Managed
  <1>15. \A c \in Clock : Live(app'.clock[c]) => c \in accessories
    BY <1>4, <1>8, <1>11, <1>13, Holds DEF Loses
  <1> QED
    BY <1>1, <1>8, <1>11, <1>13, <1>14, <1>15, Holds, ManagedKeeps

LEMMA PickerSets ==
  ASSUME NEW a, Sound(a), NEW active \in BOOLEAN
  PROVE  LET r == [a EXCEPT !.pickerIsActive = active] IN
         Follows(a, r) /\ r.clock = a.clock
  <1> DEFINE r == [a EXCEPT !.pickerIsActive = active]
  <1>1. a \in AppType /\ ManagerFits(a)
    BY DEF Sound, Steady
  <1>2. r \in AppType
    BY <1>1 DEF AppType
  <1>3. SameApp(a, r) /\ r.clock = a.clock /\ r.isScanning = a.isScanning
    BY <1>1 DEF AppType, SameApp
  <1> HIDE DEF r
  <1>4. Sound(r)
    BY <1>1, <1>2, <1>3, SoundClocks DEF SameApp, ManagerFits
  <1> QED
    BY <1>3, <1>4 DEF Follows, Moves, r

LEMMA AddClockKeeps ==
  ASSUME IInv, addClock
  PROVE  IInv'
  <1>1. /\ app' = [app EXCEPT !.pickerIsActive = TRUE]
        /\ UNCHANGED <<accessories, automaticSync, removing>>
    BY DEF addClock
  <1>2. Follows(app, [app EXCEPT !.pickerIsActive = TRUE])
    BY Holds, PickerSets
  <1> QED
    BY <1>1, <1>2, QuietKeeps

LEMMA PickerFailedKeeps ==
  ASSUME IInv, PickerFailed
  PROVE  IInv'
  <1> DEFINE a == [app EXCEPT !.pickerIsActive = FALSE]
  <1>1. /\ app' = IF a.authorizedClocks = {} THEN ReleaseBluetooth(a) ELSE a
        /\ UNCHANGED <<accessories, automaticSync, removing>>
    BY DEF PickerFailed
  <1>2. Follows(app, a) /\ a.clock = app.clock
    BY Holds, PickerSets
  <1> HIDE DEF a
  <1>3. CASE a.authorizedClocks # {}
    BY <1>1, <1>2, <1>3, QuietKeeps
  <1>4. CASE a.authorizedClocks = {}
    <2>1. /\ Sound(a) /\ a.sessionActivated = app.sessionActivated
          /\ a.authorizedClocks = app.authorizedClocks
      BY <1>2 DEF Follows, SameApp
    <2>2. /\ Sound(app') /\ ~app'.centralManager
          /\ app'.sessionActivated = a.sessionActivated
          /\ app'.authorizedClocks = a.authorizedClocks
          /\ Loses(a, app') /\ \A c \in Clock : app'.clock[c].known = a.clock[c].known
      BY <1>1, <1>4, <2>1, Release
    <2>3. Managed(app')
      BY <2>2 DEF Managed
    <2>4. \A c \in Clock : Live(app'.clock[c]) => c \in accessories
      BY <1>2, <2>2, Holds DEF Loses
    <2>5. /\ app'.authorizedClocks = IF app'.sessionActivated THEN accessories ELSE {}
          /\ \A c \in Clock : app'.clock[c].known <=> c \in app'.authorizedClocks
      BY <1>2, <2>1, <2>2 DEF IInv
    <2> QED
      BY <1>1, <2>3, <2>4, <2>5, Holds, ManagedKeeps
  <1> QED
    BY <1>3, <1>4

LEMMA AccessoryAddedKeeps ==
  ASSUME IInv, NEW c \in Clock, NEW found, AccessoryAdded(c, found)
  PROVE  IInv'
  <1> DEFINE authorized == app.authorizedClocks \union {c}
             a == [app EXCEPT !.authorizedClocks = authorized]
             gone == {d \in Clock \ authorized : a.clock[d].known}
             b == reconcileAuthorizedClocks(a, authorized)
  <1>1. app \in AppType /\ ManagerFits(app) /\ Sound(app) /\ authorized \in SUBSET Clock
    BY Holds
  <1>2. a.authorizedClocks = authorized
    BY <1>1 DEF AppType
  <1>3. /\ app.sessionActivated /\ accessories' = accessories \union {c}
        /\ UNCHANGED <<automaticSync, removing>>
        /\ app' = IF app.pickerIsActive THEN b ELSE connectAuthorizedClocks(b, found)
    BY <1>2 DEF AccessoryAdded
  <1>4. a \in AppType
    BY <1>1 DEF AppType
  <1>5. /\ a.sessionActivated = app.sessionActivated /\ a.clock = app.clock
        /\ a.centralManager = app.centralManager
        /\ a.initializationRequested = app.initializationRequested /\ a.radio = app.radio
        /\ a.restoring = app.restoring /\ a.isScanning = app.isScanning
    BY <1>1 DEF AppType
  <1> HIDE DEF a, authorized
  <1>6. ManagerFits(a) /\ Sound(a)
    <2>1. ManagerFits(a)
      BY <1>1, <1>5 DEF ManagerFits
    <2> QED
      BY <1>1, <1>4, <1>5, <2>1, SoundClocks
  <1>7. Loose(a, gone)
    BY <1>6, SoundLoose
  <1>8. /\ Loose(b, {}) /\ SameApp(a, b) /\ Loses(a, b)
        /\ \A d \in Clock : b.clock[d].known <=> d \in authorized
    BY <1>1, <1>7, Holds, ReconcileClocks
  <1> HIDE DEF b, gone
  <1>9. Sound(b)
    <2>1. ManagerFits(b)
      BY <1>6, <1>8, SameFits DEF Loose
    <2> QED
      BY <1>8, <2>1, LooseSound
  <1>10. Follows(b, app')
    <2>1. Steady(b)
      BY <1>9 DEF Sound
    <2> QED
      BY <1>3, <1>9, <2>1, FollowsSelf, ConnectClocks
  <1>11. /\ authorized = accessories' /\ authorized # {}
    BY <1>3 DEF IInv, authorized
  <1>12. Managed(b)
    BY <1>2, <1>8, <1>9, <1>11 DEF Managed, SameApp
  <1>13. Managed(app')
    BY <1>10, <1>12, FollowsManaged
  <1>14. app'.authorizedClocks = authorized /\ app'.sessionActivated
    BY <1>2, <1>3, <1>5, <1>8, <1>10 DEF Follows, SameApp
  <1>15. \A d \in Clock : app'.clock[d].known <=> d \in authorized
    BY <1>8, <1>10 DEF Follows, Moves
  <1>16. \A d \in Clock : Live(app'.clock[d]) => d \in accessories'
    BY <1>3, <1>5, <1>8, <1>10, <1>11, Holds DEF Follows, Moves, Loses
  <1>17. /\ accessories' \subseteq Clock /\ removing' \subseteq Clock
         /\ automaticSync' \in [Clock -> BOOLEAN]
    BY <1>3, Holds
  <1> QED
    BY <1>11, <1>13, <1>14, <1>15, <1>16, <1>17, ManagedKeeps

\* The session's list, heard again.
LEMMA SessionHeard ==
  ASSUME IInv, app.sessionActivated, NEW found
  PROVE  LET r == reconcileWithAccessorySession(app, accessories, found) IN
         /\ Managed(r) /\ r.sessionActivated /\ r.authorizedClocks = accessories
         /\ Loses(app, r) /\ \A c \in Clock : r.clock[c].known <=> c \in accessories
  <1>1. Loose(app, {c \in Clock \ accessories : app.clock[c].known})
    BY Holds, SoundLoose
  <1> QED
    BY <1>1, Holds, ReconcileSession

LEMMA HeardKeeps ==
  ASSUME IInv, NEW a, Managed(a), a.sessionActivated, a.authorizedClocks = accessories,
         Loses(app, a), \A c \in Clock : a.clock[c].known <=> c \in accessories,
         Follows(a, app'), UNCHANGED <<accessories, automaticSync, removing>>
  PROVE  IInv'
  <1>1. Managed(app')
    BY FollowsManaged
  <1>2. app'.authorizedClocks = accessories /\ app'.sessionActivated
    BY DEF Follows, SameApp
  <1>3. \A c \in Clock : app'.clock[c].known <=> c \in accessories
    BY DEF Follows, Moves
  <1>4. \A c \in Clock : Live(app'.clock[c]) => c \in accessories
    BY Holds DEF Follows, Moves, Loses
  <1> QED
    BY <1>1, <1>2, <1>3, <1>4, Holds, ManagedKeeps

LEMMA AccessoryChangedKeeps ==
  ASSUME IInv, NEW found, AccessoryChanged(found)
  PROVE  IInv'
  <1> DEFINE a == reconcileWithAccessorySession(app, accessories, found)
  <1>1. /\ app.sessionActivated /\ UNCHANGED <<accessories, automaticSync, removing>>
        /\ app' = IF app.pickerIsActive THEN a ELSE connectAuthorizedClocks(a, found)
    BY DEF AccessoryChanged
  <1>2. /\ Managed(a) /\ a.sessionActivated /\ a.authorizedClocks = accessories
        /\ Loses(app, a) /\ \A c \in Clock : a.clock[c].known <=> c \in accessories
    BY <1>1, SessionHeard
  <1> HIDE DEF a
  <1>3. Sound(a) /\ Steady(a)
    BY <1>2 DEF Managed, Sound
  <1>4. Follows(a, app')
    BY <1>1, <1>3, FollowsSelf, ConnectClocks
  <1> QED
    BY <1>1, <1>2, <1>4, HeardKeeps

LEMMA PickerDidDismissKeeps ==
  ASSUME IInv, NEW found, PickerDidDismiss(found)
  PROVE  IInv'
  <1> DEFINE b == reconcileWithAccessorySession(app, accessories, found)
             a == [b EXCEPT !.pickerIsActive = FALSE]
             requests == a.authorizedClocks # {} /\ MayInitialize(a)
  <1>1. /\ app.sessionActivated /\ UNCHANGED <<accessories, automaticSync, removing>>
        /\ app' = IF requests THEN requestBluetoothInitialization(a, found)
                  ELSE connectAuthorizedClocks(a, found)
    BY DEF PickerDidDismiss
  <1>2. /\ Managed(b) /\ b.sessionActivated /\ b.authorizedClocks = accessories
        /\ Loses(app, b) /\ \A c \in Clock : b.clock[c].known <=> c \in accessories
    BY <1>1, SessionHeard
  <1> HIDE DEF b
  <1>3. Follows(b, a) /\ a.clock = b.clock
    BY <1>2, PickerSets DEF Managed
  <1> HIDE DEF a
  <1>4. Managed(a) /\ Sound(a) /\ Steady(a)
    BY <1>2, <1>3, FollowsManaged DEF Managed, Sound
  <1>5. /\ a.sessionActivated /\ a.authorizedClocks = accessories /\ Loses(app, a)
        /\ \A c \in Clock : a.clock[c].known <=> c \in accessories
    BY <1>2, <1>3 DEF Follows, SameApp, Loses
  <1>6. CASE ~requests
    <2>1. Follows(a, app')
      BY <1>1, <1>4, <1>6, ConnectClocks
    <2> QED
      BY <1>1, <1>4, <1>5, <2>1, HeardKeeps
  <1>7. CASE requests
    <2>1. /\ Sound(app') /\ app'.clock = a.clock
          /\ app'.sessionActivated = a.sessionActivated
          /\ app'.authorizedClocks = a.authorizedClocks
      BY <1>1, <1>4, <1>5, <1>7, RequestBluetooth
    <2>2. Managed(app')
      BY <1>7, <2>1 DEF Managed
    <2>3. Follows(app', app')
      BY <2>1, FollowsSelf
    <2>4. Loses(app, app')
      BY <1>5, <2>1 DEF Loses
    <2> QED
      BY <1>1, <1>5, <2>1, <2>2, <2>3, <2>4, HeardKeeps
  <1> QED
    BY <1>6, <1>7

\* An accessory that is revoked loses its link first.
LEMMA RevokedSets ==
  ASSUME IInv, NEW c \in Clock
  PROVE  LET r == Revoked(c) IN
         /\ r \in AppType /\ SameApp(app, r) /\ ManagerFits(r)
         /\ r.clock[c] \in ClockType /\ ~Live(r.clock[c])
         /\ r.clock[c].known = app.clock[c].known
         /\ \A d \in Clock \ {c} : r.clock[d] = app.clock[d]
         /\ ~app.clock[c].known => /\ Settled(r.clock[c], r.restoring)
                                   /\ Powered(r.clock[c], r.radio = "poweredOn")
  <1> DEFINE u == app.clock[c]
             v == WithLink(u, "disconnected")
             r == Revoked(c)
  <1>1. app \in AppType /\ ManagerFits(app) /\ u \in ClockType /\ Settled(u, app.restoring)
    BY Holds
  <1>2. r = With(app, c, v)
    BY DEF Revoked
  <1>3. v \in ClockType /\ v.link = "disconnected" /\ SameWish(u, v)
    BY <1>1, WithLinkSets DEF LinkState
  <1>4. ~u.known => Settled(v, app.restoring) /\ Powered(v, app.radio = "poweredOn")
    <2>1. ~u.known => ~u.peripheral
      BY <1>1 DEF Settled, wantsConnection
    <2> QED
      BY <1>1, <2>1, DropSettles
  <1> HIDE DEF u, v, r
  <1>5. /\ r \in AppType /\ SameApp(app, r) /\ r.isScanning = app.isScanning
        /\ r.clock[c] = v /\ \A d \in Clock \ {c} : r.clock[d] = app.clock[d]
    BY <1>1, <1>2, <1>3, WithSets
  <1>6. ManagerFits(r)
    BY <1>1, <1>5, SameFits DEF SameApp, ManagerFits
  <1>7. ~Live(v) /\ v.known = u.known
    BY <1>3 DEF Live, SameWish
  <1> QED
    BY <1>3, <1>4, <1>5, <1>6, <1>7 DEF r, u, SameApp

LEMMA AccessoryRemovedKeeps ==
  ASSUME IInv, NEW c \in Clock, NEW found, AccessoryRemoved(c, found)
  PROVE  IInv'
  <1> DEFINE a == Revoked(c)
             authorized == accessories \ {c}
             gone == {d \in Clock \ authorized : a.clock[d].known}
  <1>1. /\ app.sessionActivated /\ c \in accessories /\ accessories' = authorized
        /\ UNCHANGED <<automaticSync, removing>>
        /\ app' = reconcileWithAccessorySession(a, authorized, found)
    BY DEF AccessoryRemoved
  <1>2. /\ a \in AppType /\ SameApp(app, a) /\ ManagerFits(a)
        /\ a.clock[c] \in ClockType /\ ~Live(a.clock[c])
        /\ a.clock[c].known = app.clock[c].known
        /\ \A d \in Clock \ {c} : a.clock[d] = app.clock[d]
    BY RevokedSets
  <1>3. app.clock[c].known
    BY <1>1 DEF IInv
  <1>4. authorized \in SUBSET Clock
    BY Holds
  <1> HIDE DEF a
  <1>5. Loose(a, gone)
    <2>1. c \in gone
      BY <1>2, <1>3
    <2>2. \A d \in gone : Stoppable(a.clock[d], a.restoring)
      <3> TAKE d \in gone
      <3>1. CASE d = c
        BY <1>2, <3>1 DEF Stoppable
      <3>2. CASE d # c
        BY <1>2, <3>2, Holds, SettledStops DEF SameApp
      <3> QED
        BY <3>1, <3>2
    <2>3. \A d \in Clock \ gone :
            Settled(a.clock[d], a.restoring) /\ Powered(a.clock[d], a.radio = "poweredOn")
      <3> TAKE d \in Clock \ gone
      <3>1. d # c
        BY <2>1
      <3> QED
        BY <1>2, <3>1, Holds DEF SameApp
    <2>4. a.isScanning => a.radio = "poweredOn"
      BY <1>2 DEF ManagerFits
    <2> QED
      BY <1>2, <2>2, <2>3, <2>4 DEF Loose
  <1>6. a.sessionActivated
    BY <1>1, <1>2 DEF SameApp
  <1>7. /\ Managed(app') /\ app'.sessionActivated /\ app'.authorizedClocks = authorized
        /\ Loses(a, app') /\ \A d \in Clock : app'.clock[d].known <=> d \in authorized
    <2>1. automaticSync \in [Clock -> BOOLEAN]
      BY Holds
    <2> HIDE DEF authorized
    <2>2. LET r == reconcileWithAccessorySession(a, authorized, found) IN
          /\ Managed(r) /\ r.sessionActivated /\ r.authorizedClocks = authorized
          /\ Loses(a, r) /\ \A d \in Clock : r.clock[d].known <=> d \in authorized
      BY <1>2, <1>4, <1>5, <1>6, <2>1, ReconcileSession
    <2> QED
      BY <1>1, <2>2
  <1>8. \A d \in Clock : Live(app'.clock[d]) => d \in authorized
    BY <1>2, <1>7, Holds DEF Loses
  <1> QED
    BY <1>1, <1>4, <1>7, <1>8, Holds, ManagedKeeps

LEMMA InvalidatedKeeps ==
  ASSUME IInv, Invalidated
  PROVE  IInv'
  <1> DEFINE a == [app EXCEPT !.sessionActivated = FALSE]
             none == {}
             gone == {c \in Clock \ none : a.clock[c].known}
             b == reconcileAuthorizedClocks(a, none)
             d == [b EXCEPT !.pickerIsActive = FALSE, !.authorizedClocks = {},
                            !.initializationRequested = FALSE]
  <1>1. app' = tearDownCoreBluetooth(d) /\ UNCHANGED <<accessories, automaticSync, removing>>
    BY DEF Invalidated
  <1>2. app \in AppType /\ ManagerFits(app) /\ Sound(app)
    BY Holds
  <1>3. a \in AppType
    BY <1>2 DEF AppType
  <1>4. /\ ~a.sessionActivated /\ a.clock = app.clock /\ a.radio = app.radio
        /\ a.restoring = app.restoring /\ a.isScanning = app.isScanning
    BY <1>2 DEF AppType
  <1> HIDE DEF a
  <1>5. Loose(a, gone)
    <2>1. Loose(app, gone)
      BY <1>2, SoundLoose
    <2> QED
      BY <1>3, <1>4, <2>1 DEF Loose
  <1>6. /\ Loose(b, {}) /\ SameApp(a, b)
        /\ \A c \in Clock : b.clock[c].known <=> c \in none
    <2>1. none \in SUBSET Clock
      OBVIOUS
    <2> HIDE DEF none
    <2> QED
      BY <1>5, <2>1, Holds, ReconcileClocks
  <1> HIDE DEF b, gone
  <1>7. b \in AppType /\ ~b.sessionActivated /\ \A c \in Clock : Settled(b.clock[c], b.restoring)
    BY <1>4, <1>6 DEF Loose, SameApp
  <1>8. d \in AppType
    BY <1>7 DEF AppType
  <1>9. /\ ~d.initializationRequested /\ d.clock = b.clock /\ d.restoring = b.restoring
        /\ d.sessionActivated = b.sessionActivated /\ d.authorizedClocks = {}
    BY <1>7 DEF AppType
  <1> HIDE DEF d
  <1>10. /\ Sound(app') /\ ~app'.centralManager
         /\ app'.sessionActivated = d.sessionActivated
         /\ app'.authorizedClocks = d.authorizedClocks
         /\ \A c \in Clock : app'.clock[c].known = d.clock[c].known /\ ~Live(app'.clock[c])
    BY <1>1, <1>7, <1>8, <1>9, TearDown
  <1>11. Managed(app')
    BY <1>10 DEF Managed
  <1>12. ~app'.sessionActivated /\ app'.authorizedClocks = {}
    BY <1>7, <1>9, <1>10
  <1>13. \A c \in Clock : app'.clock[c].known <=> c \in app'.authorizedClocks
    BY <1>6, <1>9, <1>10, <1>12
  <1> QED
    BY <1>1, <1>10, <1>11, <1>12, <1>13, Holds, ManagedKeeps

LEMMA ForgetDoneKeeps ==
  ASSUME IInv, NEW c \in Clock, NEW found, ForgetDone(c, found)
  PROVE  IInv'
  <1> DEFINE a == Revoked(c)
             gone == {d \in {c} : app.clock[d].known}
             b == removeRuntimes(a, gone)
             authorized == app.authorizedClocks \ {c}
  <1>1. /\ removing' = removing \ {c} /\ accessories' = accessories \ {c}
        /\ app' = replaceAuthorizedClocks(b, authorized, found)
        /\ automaticSync' = [automaticSync EXCEPT ![c] = TRUE]
    BY DEF ForgetDone
  <1>2. /\ a \in AppType /\ SameApp(app, a) /\ ManagerFits(a)
        /\ a.clock[c] \in ClockType /\ ~Live(a.clock[c])
        /\ a.clock[c].known = app.clock[c].known
        /\ \A d \in Clock \ {c} : a.clock[d] = app.clock[d]
        /\ ~app.clock[c].known => /\ Settled(a.clock[c], a.restoring)
                                  /\ Powered(a.clock[c], a.radio = "poweredOn")
    BY RevokedSets
  <1>3. authorized \in SUBSET Clock /\ gone \in SUBSET Clock
    BY Holds
  <1> HIDE DEF a
  <1>4. Loose(a, gone)
    <2>1. \A d \in gone : Stoppable(a.clock[d], a.restoring)
      BY <1>2 DEF Stoppable
    <2>2. \A d \in Clock \ gone :
            Settled(a.clock[d], a.restoring) /\ Powered(a.clock[d], a.radio = "poweredOn")
      <3> TAKE d \in Clock \ gone
      <3>1. CASE d = c
        BY <1>2, <3>1
      <3>2. CASE d # c
        BY <1>2, <3>2, Holds DEF SameApp
      <3> QED
        BY <3>1, <3>2
    <2>3. a.isScanning => a.radio = "poweredOn"
      BY <1>2 DEF ManagerFits
    <2> QED
      BY <1>2, <2>1, <2>2, <2>3 DEF Loose
  <1>5. /\ Loose(b, {}) /\ SameApp(a, b) /\ Loses(a, b)
        /\ \A d \in Clock : b.clock[d].known <=> d \notin gone /\ a.clock[d].known
    BY <1>3, <1>4, RemoveRuntimes
  <1>6. \A d \in Clock : b.clock[d].known <=> d \in authorized
    <2> TAKE d \in Clock
    <2>1. CASE d = c
      BY <1>2, <1>5, <2>1
    <2>2. CASE d # c
      BY <1>2, <1>5, <2>2, Holds
    <2> QED
      BY <2>1, <2>2
  <1> HIDE DEF b, gone
  <1>7. Sound(b)
    <2>1. ManagerFits(b)
      BY <1>2, <1>5, SameFits DEF Loose
    <2> QED
      BY <1>5, <2>1, LooseSound
  <1>8. (b.sessionActivated <=> app.sessionActivated)
    BY <1>2, <1>5 DEF SameApp
  <1>9. authorized = IF app.sessionActivated THEN accessories' ELSE {}
    BY <1>1 DEF IInv
  <1> HIDE DEF authorized
  <1>10. /\ Managed(app') /\ (app'.sessionActivated <=> b.sessionActivated)
         /\ app'.authorizedClocks = authorized /\ Loses(b, app')
         /\ \A d \in Clock : app'.clock[d].known = b.clock[d].known
    <2>1. authorized = {} \/ b.sessionActivated
      BY <1>8, <1>9
    <2>2. LET r == replaceAuthorizedClocks(b, authorized, found) IN
          /\ Managed(r) /\ (r.sessionActivated <=> b.sessionActivated)
          /\ r.authorizedClocks = authorized /\ Loses(b, r)
          /\ \A d \in Clock : r.clock[d].known = b.clock[d].known
      BY <1>3, <1>7, <2>1, ReplaceClocks
    <2> QED
      BY <1>1, <2>2
  <1>11. app'.authorizedClocks = IF app'.sessionActivated THEN accessories' ELSE {}
    BY <1>8, <1>9, <1>10
  <1>12. \A d \in Clock : app'.clock[d].known <=> d \in app'.authorizedClocks
    BY <1>6, <1>10
  <1>13. \A d \in Clock : Live(app'.clock[d]) => d \in accessories'
    BY <1>1, <1>2, <1>5, <1>10, Holds DEF Loses
  <1>14. /\ accessories' \subseteq Clock /\ removing' \subseteq Clock
         /\ automaticSync' \in [Clock -> BOOLEAN]
    BY <1>1, Holds
  <1> QED
    BY <1>10, <1>11, <1>12, <1>13, <1>14, ManagedKeeps

LEMMA ForgetFailedKeeps ==
  ASSUME IInv, NEW c \in Clock, NEW found, ForgetFailed(c, found)
  PROVE  IInv'
  <1>1. /\ app' = connectAuthorizedClocks(app, found) /\ removing' = removing \ {c}
        /\ UNCHANGED <<accessories, automaticSync>>
    BY DEF ForgetFailed
  <1>2. Follows(app, app')
    BY <1>1, Holds, ConnectClocks DEF Sound
  <1>3. automaticSync' \in [Clock -> BOOLEAN] /\ removing' \subseteq Clock
    BY <1>1, Holds
  <1> QED
    BY <1>1, <1>2, <1>3, FollowsKeeps

LEMMA ForgetClockKeeps ==
  ASSUME IInv, NEW c \in Clock, forgetClock(c)
  PROVE  IInv'
  <1> DEFINE u == app.clock[c]
             v == stopConnection(u)
  <1>1. /\ app' = IF u.known THEN With(app, c, v) ELSE app
        /\ removing' = removing \union {c} /\ UNCHANGED <<accessories, automaticSync>>
    BY DEF forgetClock
  <1>2. Becomes(app, u, v)
    BY Holds, StopSettles DEF Becomes, Moves
  <1> HIDE DEF v
  <1>3. Follows(app, app')
    BY <1>1, <1>2, Holds, WithFollows, FollowsSelf
  <1>4. automaticSync' \in [Clock -> BOOLEAN] /\ removing' \subseteq Clock
    BY <1>1, Holds
  <1> QED
    BY <1>1, <1>3, <1>4, FollowsKeeps

\* The record of a clock whose owner has decided about automatic sync.
LEMMA DecideSets ==
  ASSUME NEW u \in ClockType, NEW enabled \in BOOLEAN
  PROVE  LET r == [u EXCEPT !.automatic = enabled] IN
         /\ r \in ClockType /\ r.automatic = enabled /\ r.known = u.known /\ r.link = u.link
         /\ r.manualSyncRequested = u.manualSyncRequested
         /\ SameRoute(u, r) /\ SameAttempt(u, r)
  <1> DEFINE r == [u EXCEPT !.automatic = enabled]
  <1>1. r \in ClockType
    BY DEF ClockType
  <1>2. /\ r.automatic = enabled /\ r.known = u.known /\ r.link = u.link
        /\ r.manualSyncRequested = u.manualSyncRequested
        /\ SameRoute(u, r) /\ SameAttempt(u, r)
    BY DEF ClockType, SameRoute, SameAttempt
  <1> QED
    BY <1>1, <1>2

\* A fresh start for the reconnects costs nothing but the record's claim to have tried.
LEMMA FreshSets ==
  ASSUME NEW u \in ClockType
  PROVE  LET r == [u EXCEPT !.reconnects = 0] IN
         /\ r \in ClockType /\ r.link = u.link /\ SameWish(u, r) /\ SameAttempt(u, r)
         /\ r.peripheral = u.peripheral /\ r.isConnected = u.isConnected
         /\ r.connectPending = u.connectPending /\ r.reconnectTimer = u.reconnectTimer
  <1> DEFINE r == [u EXCEPT !.reconnects = 0]
  <1>1. r \in ClockType
    BY Zeros DEF ClockType
  <1>2. /\ r.link = u.link /\ SameWish(u, r) /\ SameAttempt(u, r)
        /\ r.peripheral = u.peripheral /\ r.isConnected = u.isConnected
        /\ r.connectPending = u.connectPending /\ r.reconnectTimer = u.reconnectTimer
    BY DEF ClockType, SameWish, SameAttempt
  <1> QED
    BY <1>1, <1>2

LEMMA SetAutomaticSyncKeeps ==
  ASSUME IInv, NEW c \in Clock, NEW enabled \in BOOLEAN, NEW found,
         setAutomaticSync(c, enabled, found)
  PROVE  IInv'
  <1> DEFINE u == app.clock[c]
             v == [u EXCEPT !.automatic = enabled]
             w == [v EXCEPT !.reconnects = 0]
             x == stopConnection(v)
  <1>1. /\ u.known /\ automaticSync' = [automaticSync EXCEPT ![c] = enabled]
        /\ app' = IF enabled THEN connectAuthorizedClocks(With(app, c, w), found)
                  ELSE updateScanState(With(app, c, x))
        /\ UNCHANGED <<accessories, removing>>
    BY DEF setAutomaticSync
  <1>2. /\ u \in ClockType /\ Settled(u, app.restoring) /\ Sound(app)
    BY Holds
  <1> HIDE DEF u
  <1>3. /\ v \in ClockType /\ v.automatic = enabled /\ v.known = u.known /\ v.link = u.link
        /\ v.manualSyncRequested = u.manualSyncRequested
        /\ SameRoute(u, v) /\ SameAttempt(u, v)
    BY <1>2, DecideSets
  <1> HIDE DEF v
  <1>4. CASE enabled
    <2>1. /\ w \in ClockType /\ w.link = v.link /\ SameWish(v, w) /\ SameAttempt(v, w)
          /\ w.peripheral = v.peripheral /\ w.isConnected = v.isConnected
          /\ w.connectPending = v.connectPending /\ w.reconnectTimer = v.reconnectTimer
      BY <1>3, FreshSets
    <2> HIDE DEF w
    <2>2. Settled(w, app.restoring)
      BY <1>1, <1>2, <1>3, <1>4, <2>1 DEF Settled, Bare, Live, Timed, SameWish, SameRoute,
                                     SameAttempt, wantsConnection
    <2>3. Moves(u, w)
      BY <1>3, <2>1 DEF Moves, SameWish, Live
    <2> QED
      <3>1. Follows(app, app')
        BY <1>1, <1>2, <1>4, <2>2, <2>3, WithConnects DEF u
      <3>2. automaticSync' \in [Clock -> BOOLEAN] /\ removing' \subseteq Clock
        BY <1>1, Holds
      <3> QED
        BY <1>1, <3>1, <3>2, FollowsKeeps
  <1>5. CASE ~enabled
    <2>1. Stoppable(v, app.restoring)
      BY <1>2, <1>3 DEF Settled, Stoppable, Bare, Live, SameRoute
    <2>2. /\ x \in ClockType /\ ~x.peripheral /\ Bare(x, app.restoring) /\ x.timer = "none"
          /\ x.known = v.known /\ x.automatic = v.automatic /\ ~x.manualSyncRequested
          /\ Live(x) => Live(v)
      BY <2>1, StopConnection
    <2> HIDE DEF x
    <2>3. Settled(x, app.restoring) /\ \A on : Powered(x, on)
      BY <1>3, <1>5, <2>2, BareSettles
    <2>4. Becomes(app, u, x)
      BY <1>3, <2>2, <2>3 DEF Becomes, Moves, Live
    <2>5. Follows(app, With(app, c, x))
      BY <1>2, <2>4, WithFollows DEF u
    <2>6. Follows(app, app')
      <3>1. Sound(With(app, c, x))
        BY <2>5 DEF Follows
      <3> QED
        BY <1>1, <1>5, <2>5, <3>1, UpdateScanState, FollowsOn
    <2>7. automaticSync' \in [Clock -> BOOLEAN] /\ removing' \subseteq Clock
      BY <1>1, Holds
    <2> QED
      BY <1>1, <2>6, <2>7, FollowsKeeps
  <1> QED
    BY <1>4, <1>5

LEMMA SyncNowKeeps ==
  ASSUME IInv, NEW c \in Clock, NEW found, NEW encodes, syncNow(c, found, encodes)
  PROVE  IInv'
  <1> DEFINE u == app.clock[c]
             v == [u EXCEPT !.manualSyncRequested = TRUE, !.reconnects = 0]
             a == With(app, c, v)
  <1>1. /\ u.known /\ UNCHANGED <<accessories, automaticSync, removing>>
        /\ app' = IF ~v.isConnected THEN connectAuthorizedClocks(a, found)
                  ELSE IF ~v.characteristics THEN With(app, c, discoverClockServices(v))
                  ELSE sendPhoneTime(a, c, FALSE, encodes)
    BY DEF syncNow
  <1>2. /\ u \in ClockType /\ Settled(u, app.restoring) /\ Sound(app)
        /\ Powered(u, app.radio = "poweredOn")
    BY Holds
  <1> HIDE DEF u
  <1>3. v \in ClockType
    BY <1>2, Zeros DEF ClockType
  <1>4. /\ v.known = u.known /\ v.automatic = u.automatic /\ v.manualSyncRequested
        /\ v.link = u.link /\ v.peripheral = u.peripheral /\ v.isConnected = u.isConnected
        /\ v.connectPending = u.connectPending /\ v.reconnectTimer = u.reconnectTimer
        /\ SameAttempt(u, v)
    BY <1>2 DEF ClockType, SameAttempt
  <1> HIDE DEF v
  <1>5. Settled(v, app.restoring) /\ Moves(u, v)
    BY <1>1, <1>2, <1>3, <1>4
       DEF Settled, Bare, Live, Timed, SameAttempt, Moves, wantsConnection
  <1>6. CASE ~v.isConnected
    BY <1>1, <1>2, <1>5, <1>6, WithConnects, QuietKeeps DEF u
  <1>7. CASE v.isConnected
    <2>1. Powered(v, app.radio = "poweredOn")
      BY <1>2, <1>4, <1>7 DEF Powered
    <2>2. Becomes(app, u, v)
      BY <1>5, <2>1 DEF Becomes
    <2>3. CASE ~v.characteristics
      <3> DEFINE x == discoverClockServices(v)
      <3>1. /\ x \in ClockType /\ x.link = v.link
            /\ SameWish(v, x) /\ SameRoute(v, x) /\ SameAttempt(v, x)
        BY <1>3, DiscoverServices
      <3>2. app' = With(app, c, x)
        BY <1>1, <1>7, <2>3
      <3> HIDE DEF x
      <3>3. Becomes(app, u, x)
        BY <2>2, <3>1, SameSettles DEF Becomes, Moves, SameWish, Live
      <3> QED
        BY <1>1, <3>2, <3>3, RecordKeeps DEF u
    <2>4. CASE v.characteristics
      <3>1. Follows(app, a)
        BY <1>2, <2>2, WithFollows DEF u
      <3>2. app' = sendPhoneTime(a, c, FALSE, encodes)
        BY <1>1, <1>7, <2>4
      <3> HIDE DEF a
      <3>3. Follows(a, app')
        BY <3>1, <3>2, SendPhoneTime DEF Follows
      <3> QED
        BY <1>1, <3>1, <3>3, FollowsOn, QuietKeeps
    <2> QED
      BY <2>3, <2>4
  <1> QED
    BY <1>6, <1>7

----------------------------------------------------------------------------
(* The central                                                             *)

\* Below poweredOn, nothing is under way any more.
LEMMA CutSettles ==
  ASSUME NEW u, Settled(u, FALSE), NEW connected \in BOOLEAN
  PROVE  LET v == WithLink(u, "disconnected")
             r == [CancelTimer(CancelAttempt(v)) EXCEPT
                     !.reconnectTimer = FALSE, !.connectPending = FALSE,
                     !.isConnected = connected /\ @]
         IN  Settled(r, FALSE) /\ r.known = u.known /\ ~Live(r)
  <1> DEFINE v == WithLink(u, "disconnected")
             w == CancelTimer(CancelAttempt(v))
             b == connected /\ w.isConnected
             r == [w EXCEPT !.reconnectTimer = FALSE, !.connectPending = FALSE,
                            !.isConnected = connected /\ @]
  <1>1. u \in ClockType
    BY DEF Settled
  <1>2. /\ v \in ClockType /\ v.link = "disconnected"
        /\ SameWish(u, v) /\ SameRoute(u, v) /\ SameAttempt(u, v)
    BY <1>1, WithLinkSets DEF LinkState
  <1> HIDE DEF v
  <1>3. /\ w \in ClockType /\ w.link = v.link /\ SameWish(v, w) /\ SameRoute(v, w)
        /\ ~w.isAwaiting /\ w.timer = "none"
    BY <1>2, CancelBoth
  <1> HIDE DEF w
  <1>4. b \in BOOLEAN /\ (b => w.isConnected)
    OBVIOUS
  <1>5. r = [w EXCEPT !.reconnectTimer = FALSE, !.connectPending = FALSE, !.isConnected = b]
    OBVIOUS
  <1> HIDE DEF b, r
  <1>6. r \in ClockType
    BY <1>3, <1>4, <1>5 DEF ClockType
  <1>7. /\ r.link = w.link /\ SameWish(w, r) /\ SameAttempt(w, r)
        /\ r.peripheral = w.peripheral /\ ~r.connectPending /\ ~r.reconnectTimer
        /\ r.isConnected = b
    BY <1>3, <1>5 DEF ClockType, SameWish, SameAttempt
  <1>8. Settled(r, FALSE)
    BY <1>2, <1>3, <1>4, <1>6, <1>7 DEF Settled, Bare, Live, Timed, SameWish, SameRoute,
                                        SameAttempt, wantsConnection
  <1>9. r.known = u.known /\ ~Live(r)
    BY <1>2, <1>3, <1>7 DEF SameWish, Live
  <1> QED
    BY <1>8, <1>9 DEF r, w, v

LEMMA DidUpdateStateKeeps ==
  ASSUME IInv, NEW radio \in {"poweredOn", "poweredOff", "resetting"}, NEW found,
         DidUpdateState(radio, found)
  PROVE  IInv'
  <1> DEFINE a == [app EXCEPT !.radio = radio]
             k == [c \in Clock |->
                    LET u == WithLink(app.clock[c], "disconnected")
                    IN  IF ~u.known THEN u
                        ELSE [CancelTimer(CancelAttempt(u)) EXCEPT
                                !.reconnectTimer = FALSE, !.connectPending = FALSE,
                                !.isConnected = radio # "poweredOff" /\ @]]
             b == [a EXCEPT !.isScanning = FALSE, !.clock = k]
  <1>1. app \in AppType /\ ManagerFits(app) /\ Sound(app)
    BY Holds
  <1>2. a \in AppType
    BY <1>1 DEF AppType
  <1>3. /\ a.sessionActivated = app.sessionActivated /\ a.radio = radio
        /\ a.authorizedClocks = app.authorizedClocks /\ a.clock = app.clock
        /\ a.initializationRequested = app.initializationRequested
        /\ a.centralManager = app.centralManager /\ a.restoring = app.restoring
        /\ a.isScanning = app.isScanning
    BY <1>1 DEF AppType
  <1>4. /\ app.centralManager /\ app.restoring = FALSE
        /\ UNCHANGED <<accessories, automaticSync, removing>>
        /\ app' = IF radio = "poweredOn" THEN connectAuthorizedClocks(a, found) ELSE b
    <2>1. app.restoring = FALSE
      BY <1>1 DEF DidUpdateState, AppType
    <2>2. [a EXCEPT !.isScanning = FALSE, !.clock = [c \in Clock |->
             LET u == WithLink(@[c], "disconnected")
             IN  IF ~u.known THEN u
                 ELSE [CancelTimer(CancelAttempt(u)) EXCEPT
                         !.reconnectTimer = FALSE, !.connectPending = FALSE,
                         !.isConnected = radio # "poweredOff" /\ @]]] = b
      BY <1>3
    <2> QED
      BY <2>1, <2>2 DEF DidUpdateState
  <1> HIDE DEF a
  <1>5. /\ Sound(app') /\ app'.centralManager
        /\ app'.sessionActivated = app.sessionActivated
        /\ app'.authorizedClocks = app.authorizedClocks
        /\ \A c \in Clock : Moves(app.clock[c], app'.clock[c])
    <2>1. CASE radio = "poweredOn"
      <3>1. Steady(a)
        BY <1>1, <1>2, <1>3, <1>4, <2>1, Holds DEF Steady, ManagerFits
      <3>2. Follows(a, app')
        BY <1>4, <2>1, <3>1, ConnectClocks
      <3> QED
        BY <1>3, <1>4, <3>2 DEF Follows, SameApp
    <2>2. CASE radio # "poweredOn"
      <3>1. app' = b
        BY <1>4, <2>2
      <3>2. \A c \in Clock : /\ Settled(k[c], FALSE) /\ k[c].known = app.clock[c].known
                             /\ ~Live(k[c])
        <4> TAKE c \in Clock
        <4> DEFINE u == app.clock[c]
                   v == WithLink(u, "disconnected")
                   on == radio # "poweredOff"
                   w == [CancelTimer(CancelAttempt(v)) EXCEPT
                           !.reconnectTimer = FALSE, !.connectPending = FALSE,
                           !.isConnected = on /\ @]
        <4>1. Settled(u, FALSE) /\ u \in ClockType
          BY <1>4, Holds
        <4>2. k[c] = IF ~v.known THEN v ELSE w
          OBVIOUS
        <4>3. v.known = u.known
          BY <4>1, WithLinkSets DEF LinkState, SameWish
        <4>4. CASE ~u.known
          <5>1. ~u.peripheral
            BY <4>1, <4>4 DEF Settled, wantsConnection
          <5>2. Settled(v, FALSE) /\ ~Live(v)
            BY <4>1, <5>1, DropSettles
          <5> QED
            BY <4>2, <4>3, <4>4, <5>2
        <4>5. CASE u.known
          <5>1. on \in BOOLEAN
            OBVIOUS
          <5> HIDE DEF on
          <5>2. Settled(w, FALSE) /\ w.known = u.known /\ ~Live(w)
            BY <4>1, <5>1, CutSettles
          <5>3. k[c] = w
            BY <4>2, <4>3, <4>5
          <5> HIDE DEF w, k
          <5> QED
            BY <5>2, <5>3
        <4> QED
          BY <4>4, <4>5
      <3>3. k \in [Clock -> ClockType]
        <4>1. \A c \in Clock : k[c] \in ClockType
          BY <3>2 DEF Settled
        <4> QED
          BY <4>1
      <3> HIDE DEF k
      <3>4. b \in AppType /\ b.clock = k
        BY <1>2, <3>3 DEF AppType
      <3>5. SameApp(a, b) /\ b.isScanning = FALSE
        BY <1>2 DEF AppType, SameApp
      <3> HIDE DEF b
      <3>6. ManagerFits(b)
        BY <1>1, <1>3, <1>4, <3>5 DEF SameApp, ManagerFits
      <3>7. Sound(b)
        BY <1>3, <1>4, <2>2, <3>2, <3>4, <3>5, <3>6 DEF SameApp, Sound, Steady, Powered
      <3> QED
        BY <1>3, <1>4, <3>1, <3>2, <3>4, <3>5, <3>7 DEF SameApp, Moves
    <2> QED
      BY <2>1, <2>2
  <1>6. Managed(app')
    BY <1>4, <1>5 DEF IInv, Managed
  <1>7. /\ app'.authorizedClocks = IF app'.sessionActivated THEN accessories ELSE {}
        /\ \A c \in Clock : app'.clock[c].known <=> c \in app'.authorizedClocks
        /\ \A c \in Clock : Live(app'.clock[c]) => c \in accessories
    BY <1>5, Holds DEF IInv, Moves
  <1> QED
    BY <1>4, <1>6, <1>7, Holds, ManagedKeeps

\* A clock of the last launch gets its peripheral back, or its link cancelled.
Restored(u) ==
  IF ~u.known \/ u.link \notin {"connecting", "connected"} THEN u
  ELSE IF ~wantsConnection(u) THEN cancelPeripheralConnection(u)
  ELSE IF u.link = "connected"
  THEN discoverClockServices([adopt(u) EXCEPT !.isConnected = TRUE])
  ELSE [adopt(u) EXCEPT !.connectPending = TRUE]

LEMMA RestoreSettles ==
  ASSUME NEW u, Settled(u, TRUE), Live(u) => u.known
  PROVE  LET r == Restored(u) IN
         Settled(r, FALSE) /\ (\A on : Powered(r, on)) /\ Moves(u, r)
  <1> DEFINE r == Restored(u)
  <1>1. /\ u \in ClockType /\ ~u.peripheral /\ u.timer = "none"
        /\ ~u.isConnected /\ ~u.connectPending /\ ~u.reconnectTimer /\ ~u.isAwaiting
        /\ ~u.known => ~u.automatic /\ ~u.manualSyncRequested
    BY DEF Settled, Bare, Timed
  <1>2. CASE ~Live(u)
    <2>1. r = u
      BY <1>2 DEF Restored, Live
    <2>2. Bare(u, FALSE)
      BY <1>1, <1>2 DEF Bare
    <2> QED
      BY <1>1, <2>1, <2>2, BareSettles DEF Moves
  <1>3. CASE Live(u) /\ ~wantsConnection(u)
    <2> DEFINE v == cancelPeripheralConnection(u)
    <2>1. r = v
      BY <1>3 DEF Restored, Live
    <2>2. /\ v \in ClockType /\ ~Live(v)
          /\ SameWish(u, v) /\ SameRoute(u, v) /\ SameAttempt(u, v)
      BY <1>1, CancelConnection
    <2> HIDE DEF v, r
    <2>3. /\ Bare(v, FALSE) /\ ~v.peripheral /\ v.timer = "none"
          /\ ~v.known => ~v.automatic /\ ~v.manualSyncRequested
      BY <1>1, <2>2 DEF Bare, SameWish, SameRoute, SameAttempt
    <2>4. Settled(v, FALSE) /\ \A on : Powered(v, on)
      BY <2>2, <2>3, BareSettles
    <2>5. Moves(u, v)
      BY <2>2 DEF Moves, SameWish
    <2> QED
      BY <2>1, <2>4, <2>5 DEF r
  <1>4. CASE Live(u) /\ wantsConnection(u)
    <2> DEFINE v == adopt(u)
    <2>1. Adopted(v) /\ SameWish(u, v) /\ v.link = u.link
      BY <1>4, SettledAdopts
    <2>2. u.known
      BY <1>4
    <2>3. CASE u.link = "connected"
      <3>1. r = discoverClockServices([v EXCEPT !.isConnected = TRUE])
        BY <1>4, <2>2, <2>3 DEF Restored
      <3> HIDE DEF v, r
      <3>2. Settled(r, FALSE) /\ (\A on : Powered(r, on)) /\ SameWish(v, r)
        BY <2>1, <2>3, <3>1, MarkConnected
      <3> QED
        BY <2>1, <2>2, <3>2 DEF Moves, SameWish, r
    <2>4. CASE u.link = "connecting"
      <3>1. r = [v EXCEPT !.connectPending = TRUE]
        BY <1>4, <2>2, <2>4 DEF Restored
      <3> HIDE DEF v, r
      <3>2. Settled(r, FALSE) /\ (\A on : Powered(r, on)) /\ SameWish(v, r)
        BY <2>1, <2>4, <3>1, MarkPending
      <3> QED
        BY <2>1, <2>2, <3>2 DEF Moves, SameWish, r
    <2> QED
      BY <1>4, <2>3, <2>4 DEF Live
  <1> QED
    BY <1>2, <1>3, <1>4

LEMMA WillRestoreStateKeeps ==
  ASSUME IInv, WillRestoreState
  PROVE  IInv'
  <1> DEFINE k == [c \in Clock |-> Restored(app.clock[c])]
             b == [app EXCEPT !.restoring = FALSE, !.clock = k]
  <1>1. app \in AppType /\ ManagerFits(app) /\ Sound(app)
    BY Holds
  <1>2. app.centralManager /\ app.restoring = TRUE
    BY <1>1 DEF WillRestoreState, AppType
  <1>3. app' = b /\ UNCHANGED <<accessories, automaticSync, removing>>
    BY DEF WillRestoreState, Restored
  <1>4. \A c \in Clock : /\ Settled(k[c], FALSE) /\ Moves(app.clock[c], k[c])
                         /\ \A on : Powered(k[c], on)
    <2> TAKE c \in Clock
    <2>1. Settled(app.clock[c], TRUE)
      BY <1>2, Holds
    <2>2. Live(app.clock[c]) => app.clock[c].known
      BY <1>1, <1>2 DEF IInv, ManagerFits
    <2>3. k[c] = Restored(app.clock[c])
      OBVIOUS
    <2> HIDE DEF k
    <2> QED
      BY <2>1, <2>2, <2>3, RestoreSettles
  <1>5. k \in [Clock -> ClockType]
    <2>1. \A c \in Clock : k[c] \in ClockType
      BY <1>4 DEF Settled
    <2> QED
      BY <2>1
  <1> HIDE DEF k
  <1>6. b \in AppType /\ b.clock = k
    BY <1>1, <1>5 DEF AppType
  <1>7. /\ b.restoring = FALSE /\ b.sessionActivated = app.sessionActivated
        /\ b.authorizedClocks = app.authorizedClocks /\ b.isScanning = app.isScanning
        /\ b.initializationRequested = app.initializationRequested
        /\ b.centralManager = app.centralManager /\ b.radio = app.radio
    BY <1>1 DEF AppType
  <1> HIDE DEF b
  <1>8. Sound(b)
    BY <1>1, <1>4, <1>6, <1>7 DEF Sound, Steady, ManagerFits
  <1>9. Managed(b)
    BY <1>7, <1>8 DEF IInv, Managed
  <1>10. /\ b.authorizedClocks = IF b.sessionActivated THEN accessories ELSE {}
         /\ \A c \in Clock : b.clock[c].known <=> c \in b.authorizedClocks
         /\ \A c \in Clock : Live(b.clock[c]) => c \in accessories
    BY <1>4, <1>6, <1>7, Holds DEF IInv, Moves
  <1> QED
    BY <1>3, <1>9, <1>10, Holds, ManagedKeeps

LEMMA DidDiscoverKeeps ==
  ASSUME IInv, NEW c \in Clock, DidDiscover(c)
  PROVE  IInv'
  <1> DEFINE u == app.clock[c]
             v == requestConnection(adopt(u))
  <1>1. /\ app.isScanning /\ wantsConnection(u) /\ app' = updateScanState(With(app, c, v))
        /\ UNCHANGED <<accessories, automaticSync, removing>>
    BY DEF DidDiscover
  <1>2. app.restoring = FALSE
    BY <1>1, Holds DEF ManagerFits, AppType
  <1>3. Settled(u, FALSE) /\ Sound(app)
    BY <1>2, Holds
  <1> HIDE DEF u
  <1>4. Adopted(adopt(u)) /\ SameWish(u, adopt(u))
    BY <1>1, <1>3, SettledAdopts
  <1>5. Settled(v, FALSE) /\ (\A on : Powered(v, on)) /\ SameWish(adopt(u), v)
    BY <1>4, RequestConnection
  <1> HIDE DEF v
  <1>6. Becomes(app, u, v)
    BY <1>1, <1>2, <1>4, <1>5 DEF Becomes, Moves, SameWish, wantsConnection
  <1>7. Follows(app, With(app, c, v))
    BY <1>3, <1>6, WithFollows DEF u
  <1>8. Sound(With(app, c, v))
    BY <1>7 DEF Follows
  <1> QED
    BY <1>1, <1>7, <1>8, UpdateScanState, FollowsOn, QuietKeeps

\* A request that no scan has answered is taken back.
Missed(u) ==
  IF u.automatic THEN [u EXCEPT !.manualSyncRequested = FALSE] ELSE stopConnection(u)

LEMMA MissSettles ==
  ASSUME NEW u, Settled(u, FALSE), ~u.peripheral
  PROVE  LET r == Missed(u) IN
         Settled(r, FALSE) /\ (\A on : Powered(r, on)) /\ Moves(u, r)
  <1> DEFINE r == Missed(u)
             v == [u EXCEPT !.manualSyncRequested = FALSE]
  <1>1. u \in ClockType
    BY DEF Settled
  <1>2. CASE ~u.automatic
    BY <1>2, StopSettles DEF Missed, Moves
  <1>3. CASE u.automatic
    <2>1. r = v
      BY <1>3 DEF Missed
    <2>2. v \in ClockType
      BY <1>1 DEF ClockType
    <2>3. /\ v.link = u.link /\ v.known = u.known /\ v.automatic = u.automatic
          /\ ~v.manualSyncRequested /\ SameRoute(u, v) /\ SameAttempt(u, v)
      BY <1>1 DEF ClockType, SameRoute, SameAttempt
    <2> HIDE DEF v, r
    <2>4. /\ ~v.peripheral /\ Bare(v, FALSE) /\ v.timer = "none"
          /\ ~v.known => ~v.automatic /\ ~v.manualSyncRequested
      BY <2>3 DEF Settled, Bare, Live, Timed, SameRoute, SameAttempt
    <2>5. Settled(v, FALSE) /\ \A on : Powered(v, on)
      BY <2>2, <2>4, BareSettles
    <2>6. Moves(u, v)
      BY <2>3 DEF Moves, Live
    <2> QED
      BY <2>1, <2>5, <2>6 DEF r
  <1> QED
    BY <1>2, <1>3

LEMMA ScanTimesOutKeeps ==
  ASSUME IInv, ScanTimesOut
  PROVE  IInv'
  <1> DEFINE lost == {c \in Clock : wantsConnection(app.clock[c]) /\ ~app.clock[c].peripheral}
             k == [c \in Clock |-> IF c \notin lost THEN app.clock[c] ELSE Missed(app.clock[c])]
             b == [app EXCEPT !.isScanning = FALSE, !.clock = k]
  <1>1. app \in AppType /\ ManagerFits(app) /\ Sound(app)
    BY Holds
  <1>2. app.isScanning /\ UNCHANGED <<accessories, automaticSync, removing>>
    BY DEF ScanTimesOut
  <1>3. app' = IF \E c \in lost : ~app.clock[c].automatic THEN updateScanState(b) ELSE b
    BY DEF ScanTimesOut, Missed
  <1>4. app.restoring = FALSE
    BY <1>1, <1>2 DEF ManagerFits, AppType
  <1>5. \A c \in Clock : Becomes(app, app.clock[c], k[c])
    <2> TAKE c \in Clock
    <2>1. Settled(app.clock[c], FALSE) /\ Powered(app.clock[c], app.radio = "poweredOn")
      BY <1>4, Holds
    <2>2. CASE c \notin lost
      <3>1. k[c] = app.clock[c]
        BY <2>2
      <3> QED
        BY <1>4, <2>1, <3>1 DEF Becomes, Moves
    <2>3. CASE c \in lost
      <3>1. k[c] = Missed(app.clock[c]) /\ ~app.clock[c].peripheral
        BY <2>3
      <3> HIDE DEF k, lost
      <3> QED
        BY <1>4, <2>1, <3>1, MissSettles DEF Becomes
    <2> QED
      BY <2>2, <2>3
  <1>6. k \in [Clock -> ClockType]
    <2>1. \A c \in Clock : k[c] \in ClockType
      BY <1>5 DEF Becomes, Settled
    <2> QED
      BY <2>1
  <1> HIDE DEF k, lost
  <1>7. b \in AppType /\ b.clock = k
    BY <1>1, <1>6 DEF AppType
  <1>8. SameApp(app, b) /\ b.isScanning = FALSE
    BY <1>1 DEF AppType, SameApp
  <1> HIDE DEF b
  <1>9. Follows(app, b)
    BY <1>1, <1>5, <1>7, <1>8, ClocksFollow
  <1>10. Follows(app, app')
    <2>1. Sound(b)
      BY <1>9 DEF Follows
    <2> QED
      BY <1>3, <1>9, <2>1, UpdateScanState, FollowsOn
  <1> QED
    BY <1>2, <1>10, QuietKeeps

LEMMA DidConnectKeeps ==
  ASSUME IInv, NEW c \in Clock, DidConnect(c)
  PROVE  IInv'
  <1> DEFINE u == app.clock[c]
             v == WithLink(u, "connected")
             w == [v EXCEPT !.reconnectTimer = FALSE, !.connectPending = FALSE,
                            !.isConnected = TRUE]
             x == adopt(w)
             y == discoverClockServices(x)
  <1>1. /\ ~app.restoring /\ u.link = "connecting"
        /\ UNCHANGED <<accessories, automaticSync, removing>>
        /\ app' = With(app, c, IF ~wantsConnection(v) THEN cancelPeripheralConnection(v) ELSE y)
    BY DEF DidConnect
  <1>2. app.restoring = FALSE
    BY <1>1, Holds DEF AppType
  <1>3. Settled(u, FALSE) /\ u \in ClockType
    BY <1>2, Holds
  <1> HIDE DEF u
  <1>4. /\ v \in ClockType /\ v.link = "connected"
        /\ SameWish(u, v) /\ SameRoute(u, v) /\ SameAttempt(u, v)
    BY <1>3, WithLinkSets DEF LinkState
  <1> HIDE DEF v
  <1>5. CASE ~wantsConnection(v)
    <2> DEFINE z == cancelPeripheralConnection(v)
    <2>1. /\ z \in ClockType /\ ~Live(z) /\ (z.link = "disconnected" => v.link # "connected")
          /\ SameWish(v, z) /\ SameRoute(v, z) /\ SameAttempt(v, z)
      BY <1>4, CancelConnection
    <2>2. app' = With(app, c, z)
      BY <1>1, <1>5
    <2> HIDE DEF z
    <2>3. ~u.peripheral
      BY <1>3, <1>4, <1>5 DEF Settled, SameWish, wantsConnection
    <2>4. /\ ~z.peripheral /\ Bare(z, FALSE) /\ z.timer = "none"
          /\ ~z.known => ~z.automatic /\ ~z.manualSyncRequested
      BY <1>3, <1>4, <2>1, <2>3
         DEF Settled, Bare, Live, Timed, SameWish, SameRoute, SameAttempt
    <2>5. Settled(z, FALSE) /\ \A on : Powered(z, on)
      BY <2>1, <2>4, BareSettles
    <2>6. Becomes(app, u, z)
      BY <1>2, <1>4, <2>1, <2>5 DEF Becomes, Moves, SameWish
    <2> QED
      BY <1>1, <2>2, <2>6, RecordKeeps DEF u
  <1>6. CASE wantsConnection(v)
    <2>1. w \in ClockType
      BY <1>4 DEF ClockType
    <2>2. /\ w.link = v.link /\ w.peripheral = v.peripheral /\ SameWish(v, w)
          /\ SameAttempt(v, w) /\ ~w.connectPending
      BY <1>4 DEF ClockType, SameWish, SameAttempt
    <2> HIDE DEF w
    <2>3. Timed(w)
      BY <1>3, <1>4, <2>2 DEF Settled, Timed, SameAttempt
    <2>4. /\ x \in ClockType /\ Timed(x) /\ x.peripheral /\ x.link = w.link /\ SameWish(w, x)
          /\ x.isConnected = w.isConnected /\ x.connectPending = w.connectPending
      BY <2>1, <2>3, AdoptSets
    <2> HIDE DEF x
    <2>5. Adopted(x) /\ x.link # "disconnected"
      BY <1>4, <1>6, <2>2, <2>4 DEF Adopted, SameWish, wantsConnection
    <2>6. Settled(x, FALSE) /\ \A on : Powered(x, on)
      BY <2>5, AdoptedSettles
    <2>7. /\ y \in ClockType /\ y.link = x.link
          /\ SameWish(x, y) /\ SameRoute(x, y) /\ SameAttempt(x, y)
      BY <2>4, DiscoverServices
    <2>8. app' = With(app, c, y)
      BY <1>1, <1>6
    <2> HIDE DEF y
    <2>9. Settled(y, FALSE) /\ \A on : Powered(y, on)
      BY <2>6, <2>7, SameSettles
    <2>10. Becomes(app, u, y)
      BY <1>1, <1>2, <1>4, <2>2, <2>4, <2>7, <2>9 DEF Becomes, Moves, SameWish, Live
    <2> QED
      BY <1>1, <2>8, <2>10, RecordKeeps DEF u
  <1> QED
    BY <1>5, <1>6

Failed(u) == [u EXCEPT !.connectPending = FALSE, !.isConnected = FALSE]

LEMMA FailSets ==
  ASSUME NEW u \in ClockType
  PROVE  LET r == Failed(u) IN
         /\ r \in ClockType /\ r.link = u.link /\ SameWish(u, r) /\ SameAttempt(u, r)
         /\ r.peripheral = u.peripheral /\ ~r.connectPending /\ ~r.isConnected
  <1> DEFINE r == Failed(u)
  <1>1. r \in ClockType
    BY DEF Failed, ClockType
  <1>2. /\ r.link = u.link /\ SameWish(u, r) /\ SameAttempt(u, r)
        /\ r.peripheral = u.peripheral /\ ~r.connectPending /\ ~r.isConnected
    BY DEF Failed, ClockType, SameWish, SameAttempt
  <1> QED
    BY <1>1, <1>2

LEMMA DidFailToConnectKeeps ==
  ASSUME IInv, NEW c \in Clock, DidFailToConnect(c)
  PROVE  IInv'
  <1> DEFINE t == app.clock[c]
             u == WithLink(t, "disconnected")
             v == Failed(u)
             b == With(app, c, v)
             a == finishManualSyncIfNeeded(b, c)
  <1>1. /\ ~app.restoring /\ UNCHANGED <<accessories, automaticSync, removing>>
        /\ app' = IF u.peripheral THEN With(a, c, scheduleReconnect(a.clock[c]))
                  ELSE With(app, c, u)
    BY DEF DidFailToConnect, Failed
  <1>2. app.restoring = FALSE /\ app \in AppType /\ Sound(app)
    BY <1>1, Holds DEF AppType
  <1>3. Settled(t, FALSE) /\ t \in ClockType
    BY <1>2, Holds
  <1> HIDE DEF t
  <1>4. /\ u \in ClockType /\ u.link = "disconnected"
        /\ SameWish(t, u) /\ SameRoute(t, u) /\ SameAttempt(t, u)
    BY <1>3, WithLinkSets DEF LinkState
  <1>5. CASE ~u.peripheral
    <2>1. Settled(u, FALSE) /\ \A on : Powered(u, on)
      BY <1>3, <1>4, <1>5, DropSettles DEF SameRoute
    <2>2. Becomes(app, t, u)
      BY <1>2, <1>4, <2>1 DEF Becomes, Moves, SameWish, Live
    <2>3. app' = With(app, c, u)
      BY <1>1, <1>5
    <2> QED
      BY <1>1, <2>2, <2>3, RecordKeeps DEF t
  <1>6. CASE u.peripheral
    <2> HIDE DEF u
    <2>1. /\ v \in ClockType /\ v.link = u.link /\ SameWish(u, v) /\ SameAttempt(u, v)
          /\ v.peripheral = u.peripheral /\ ~v.connectPending /\ ~v.isConnected
      BY <1>4, FailSets
    <2> HIDE DEF v
    <2>2. Adopted(v) /\ v.known = t.known /\ v.automatic = t.automatic
      BY <1>3, <1>4, <1>6, <2>1 DEF Settled, Adopted, Timed, SameWish, SameRoute, SameAttempt,
                                    wantsConnection
    <2>3. t.known
      BY <2>2 DEF Adopted, wantsConnection
    <2>4. b \in AppType /\ b.clock[c] = v
      BY <1>2, <2>1, WithSets
    <2>5. CASE v.automatic
      <3> DEFINE x == [v EXCEPT !.manualSyncRequested = FALSE]
                 z == IF v.manualSyncRequested THEN x ELSE v
      <3>1. a = With(app, c, z)
        <4>1. a = IF v.manualSyncRequested THEN With(b, c, x) ELSE b
          BY <2>4, <2>5 DEF finishManualSyncIfNeeded
        <4>2. With(b, c, x) = With(app, c, x)
          BY <1>2, WithTwice
        <4> HIDE DEF x
        <4> QED
          BY <4>1, <4>2
      <3>2. x \in ClockType
        BY <2>1 DEF ClockType
      <3>3. /\ x.link = v.link /\ x.known = v.known /\ x.automatic = v.automatic
            /\ SameRoute(v, x) /\ SameAttempt(v, x)
        BY <2>1 DEF ClockType, SameRoute, SameAttempt
      <3> HIDE DEF x, a
      <3>4. Adopted(z) /\ z.automatic /\ ~z.isConnected /\ z.known = v.known /\ z.link = v.link
        BY <2>1, <2>2, <2>5, <3>2, <3>3 DEF Adopted, Timed, SameRoute, SameAttempt,
                                            wantsConnection
      <3> HIDE DEF z
      <3> DEFINE y == scheduleReconnect(z)
      <3>5. /\ Settled(y, FALSE) /\ (\A on : Powered(y, on)) /\ SameWish(z, y)
            /\ y.link = z.link
        BY <3>4, ReconnectSettles
      <3>6. z \in ClockType
        BY <3>4 DEF Adopted
      <3>7. app' = With(app, c, y)
        <4>1. a.clock[c] = z
          BY <1>2, <3>1, <3>6, WithSets
        <4>2. app' = With(With(app, c, z), c, y)
          BY <1>1, <1>6, <3>1, <4>1
        <4> HIDE DEF y
        <4> QED
          BY <1>2, <4>2, WithTwice
      <3> HIDE DEF y
      <3>8. Becomes(app, t, y)
        BY <1>2, <2>2, <2>3, <3>4, <3>5 DEF Becomes, Moves, SameWish
      <3> QED
        BY <1>1, <3>7, <3>8, RecordKeeps DEF t
    <2>6. CASE ~v.automatic
      <3> DEFINE w == stopConnection(v)
      <3>1. Settled(v, FALSE)
        BY <2>1, <2>2 DEF Adopted, Settled, wantsConnection
      <3>2. \A on : Powered(v, on)
        BY <2>1, <2>6 DEF Powered
      <3>3. Becomes(app, t, v)
        BY <1>2, <2>2, <2>3, <3>1, <3>2 DEF Becomes, Moves
      <3>4. Follows(app, b) /\ Sound(b)
        BY <1>2, <3>3, WithFollows DEF t, Follows
      <3>5. Follows(b, a)
        BY <3>4, FinishManualSync
      <3>6. ~a.clock[c].automatic
        <4>1. v.manualSyncRequested
          BY <2>2, <2>6 DEF Adopted, wantsConnection
        <4>2. a = updateScanState(With(b, c, w))
          BY <2>4, <2>6, <4>1 DEF finishManualSyncIfNeeded
        <4>3. /\ Settled(w, FALSE) /\ (\A on : Powered(w, on))
              /\ w.known = v.known /\ w.automatic = v.automatic /\ (Live(w) => Live(v))
          BY <3>1, StopSettles
        <4> HIDE DEF w
        <4>4. b.restoring = FALSE
          BY <1>2, <3>4 DEF Follows, SameApp
        <4>5. Becomes(b, v, w)
          BY <4>3, <4>4 DEF Becomes, Moves
        <4>6. Sound(With(b, c, w))
          BY <2>4, <3>4, <4>5, WithFollows DEF Follows
        <4>7. a.clock = With(b, c, w).clock
          BY <4>2, <4>6, UpdateScanState
        <4>8. With(b, c, w).clock[c] = w
          BY <2>4, <4>3, WithSets DEF Settled
        <4> QED
          BY <2>6, <4>3, <4>7, <4>8
      <3> HIDE DEF a, b
      <3>7. app' = a
        <4>1. scheduleReconnect(a.clock[c]) = a.clock[c]
          BY <3>6 DEF scheduleReconnect
        <4>2. a \in AppType
          BY <3>5 DEF Follows, Sound, Steady
        <4> QED
          BY <1>1, <1>6, <4>1, <4>2, WithSame
      <3> QED
        BY <1>1, <3>4, <3>5, <3>7, FollowsOn, QuietKeeps
    <2> QED
      BY <2>5, <2>6
  <1> QED
    BY <1>5, <1>6

LEMMA LoseSets ==
  ASSUME NEW u \in ClockType, NEW isReconnecting \in BOOLEAN
  PROVE  LET r == LoseConnection(u, isReconnecting) IN
         /\ r \in ClockType /\ r.link = u.link /\ SameWish(u, r)
         /\ r.peripheral = u.peripheral /\ r.connectPending = isReconnecting
         /\ ~r.isConnected /\ Timed(r)
  <1> DEFINE v == CancelTimer(CancelAttempt(u))
             r == LoseConnection(u, isReconnecting)
  <1>1. /\ v \in ClockType /\ v.link = u.link /\ SameWish(u, v) /\ SameRoute(u, v)
        /\ ~v.isAwaiting /\ v.timer = "none"
    BY CancelBoth
  <1>2. r = [v EXCEPT !.connectPending = isReconnecting, !.isConnected = FALSE,
                      !.characteristics = FALSE, !.sentInitialTime = FALSE]
    BY DEF LoseConnection
  <1> HIDE DEF v, r
  <1>3. r \in ClockType
    BY <1>1, <1>2 DEF ClockType
  <1>4. /\ r.link = v.link /\ SameWish(v, r) /\ r.peripheral = v.peripheral
        /\ r.connectPending = isReconnecting /\ ~r.isConnected
        /\ r.isAwaiting = v.isAwaiting /\ r.timer = v.timer
    BY <1>1, <1>2 DEF ClockType, SameWish
  <1> QED
    BY <1>1, <1>3, <1>4 DEF SameWish, SameRoute, Timed, r

LEMMA DidDisconnectKeeps ==
  ASSUME IInv, NEW c \in Clock, NEW isReconnecting \in BOOLEAN,
         DidDisconnect(c, isReconnecting)
  PROVE  IInv'
  <1> DEFINE t == app.clock[c]
             link == IF isReconnecting THEN "connecting" ELSE "disconnected"
             u == WithLink(t, link)
             v == LoseConnection(u, isReconnecting)
  <1>1. /\ ~app.restoring /\ t.link \in {"connected", "disconnecting"}
        /\ isReconnecting => t.link = "connected"
        /\ UNCHANGED <<accessories, automaticSync, removing>>
        /\ app' = IF ~u.peripheral THEN With(app, c, u)
                  ELSE IF ~u.automatic THEN finishManualSyncIfNeeded(With(app, c, v), c)
                  ELSE With(app, c, IF isReconnecting THEN v ELSE scheduleReconnect(v))
    BY DEF DidDisconnect
  <1>2. app.restoring = FALSE /\ app \in AppType /\ Sound(app)
    BY <1>1, Holds DEF AppType
  <1>3. Settled(t, FALSE) /\ t \in ClockType
    BY <1>2, Holds
  <1> HIDE DEF t
  <1>4. link \in LinkState
    BY DEF LinkState
  <1> HIDE DEF link
  <1>5. /\ u \in ClockType /\ u.link = link
        /\ SameWish(t, u) /\ SameRoute(t, u) /\ SameAttempt(t, u)
    BY <1>3, <1>4, WithLinkSets
  <1>6. CASE ~u.peripheral
    <2>1. ~t.peripheral
      BY <1>5, <1>6 DEF SameRoute
    <2>2. link = "disconnected"
      BY <1>1, <1>3, <2>1 DEF Settled, Bare, Live, link
    <2>3. Settled(u, FALSE) /\ \A on : Powered(u, on)
      BY <1>3, <2>1, <2>2, DropSettles
    <2>4. Becomes(app, t, u)
      BY <1>2, <1>5, <2>2, <2>3 DEF Becomes, Moves, SameWish, Live
    <2>5. app' = With(app, c, u)
      BY <1>1, <1>6
    <2> QED
      BY <1>1, <2>4, <2>5, RecordKeeps DEF t
  <1>7. CASE u.peripheral
    <2> HIDE DEF u
    <2>1. /\ v \in ClockType /\ v.link = u.link /\ SameWish(u, v)
          /\ v.peripheral = u.peripheral /\ v.connectPending = isReconnecting
          /\ ~v.isConnected /\ Timed(v)
      BY <1>5, LoseSets
    <2> HIDE DEF v
    <2>2. Adopted(v) /\ v.known = t.known /\ t.known
      BY <1>3, <1>5, <1>7, <2>1 DEF Settled, Adopted, SameWish, SameRoute, wantsConnection, link
    <2>3. CASE ~u.automatic
      <3>1. Settled(v, FALSE)
        BY <2>1, <2>2 DEF Adopted, Settled, wantsConnection
      <3>2. \A on : Powered(v, on)
        BY <2>1, <2>3 DEF Powered, SameWish
      <3>3. Becomes(app, t, v)
        BY <1>2, <2>2, <3>1, <3>2 DEF Becomes, Moves
      <3>4. Follows(app, With(app, c, v)) /\ Sound(With(app, c, v))
        BY <1>2, <3>3, WithFollows DEF t, Follows
      <3>5. Follows(With(app, c, v), app')
        BY <1>1, <1>7, <2>3, <3>4, FinishManualSync
      <3> QED
        BY <1>1, <3>4, <3>5, FollowsOn, QuietKeeps
    <2>4. CASE u.automatic /\ isReconnecting
      <3>1. v.link # "disconnected"
        BY <1>5, <2>1, <2>4 DEF link
      <3>2. Settled(v, FALSE) /\ \A on : Powered(v, on)
        BY <2>2, <3>1, AdoptedSettles
      <3>3. Becomes(app, t, v)
        BY <1>2, <2>2, <3>2 DEF Becomes, Moves
      <3>4. app' = With(app, c, v)
        BY <1>1, <1>7, <2>4
      <3> QED
        BY <1>1, <3>3, <3>4, RecordKeeps DEF t
    <2>5. CASE u.automatic /\ ~isReconnecting
      <3> DEFINE w == scheduleReconnect(v)
      <3>1. /\ Settled(w, FALSE) /\ (\A on : Powered(w, on)) /\ SameWish(v, w)
            /\ w.link = v.link
        BY <2>1, <2>2, <2>5, ReconnectSettles DEF SameWish
      <3>2. app' = With(app, c, w)
        BY <1>1, <1>7, <2>5
      <3> HIDE DEF w
      <3>3. Becomes(app, t, w)
        BY <1>2, <2>2, <3>1 DEF Becomes, Moves, SameWish
      <3> QED
        BY <1>1, <3>2, <3>3, RecordKeeps DEF t
    <2> QED
      BY <2>3, <2>4, <2>5
  <1> QED
    BY <1>6, <1>7

----------------------------------------------------------------------------
(* The peripheral and the timers                                           *)

\* A record in which no more than an attempt and the discovery have moved on.
LEMMA AttemptBecomes ==
  ASSUME IInv, NEW c \in Clock, NEW r \in ClockType, r.link = app.clock[c].link,
         SameWish(app.clock[c], r), SameRoute(app.clock[c], r), Timed(r),
         r.isAwaiting => app.clock[c].isAwaiting
  PROVE  Becomes(app, app.clock[c], r)
  <1> DEFINE u == app.clock[c]
  <1>1. Settled(u, app.restoring) /\ Powered(u, app.radio = "poweredOn")
    BY Holds
  <1>2. /\ r.link = u.link /\ SameWish(u, r) /\ SameRoute(u, r)
        /\ r.isAwaiting => u.isAwaiting
    OBVIOUS
  <1> HIDE DEF u
  <1>3. r.isAwaiting => r.peripheral
    BY <1>1, <1>2 DEF Settled, Bare, SameRoute
  <1>4. Becomes(app, u, r)
    BY <1>1, <1>2, <1>3, AttemptSettles DEF Becomes, Moves, SameWish, Live
  <1> QED
    BY <1>4 DEF u

LEMMA GattSets ==
  ASSUME NEW u \in ClockType, NEW gatt \in {"none", "services", "characteristics", "notify"}
  PROVE  LET r == [u EXCEPT !.gatt = gatt] IN
         /\ r \in ClockType /\ r.link = u.link
         /\ SameWish(u, r) /\ SameRoute(u, r) /\ SameAttempt(u, r)
  <1> DEFINE r == [u EXCEPT !.gatt = gatt]
  <1>1. r \in ClockType
    BY DEF ClockType
  <1>2. r.link = u.link /\ SameWish(u, r) /\ SameRoute(u, r) /\ SameAttempt(u, r)
    BY DEF ClockType, SameWish, SameRoute, SameAttempt
  <1> QED
    BY <1>1, <1>2

LEMMA DiscoveryBecomes ==
  ASSUME IInv, NEW c \in Clock, NEW r \in ClockType, r.link = app.clock[c].link,
         SameWish(app.clock[c], r), SameRoute(app.clock[c], r), SameAttempt(app.clock[c], r)
  PROVE  Becomes(app, app.clock[c], r)
  <1>1. Settled(app.clock[c], app.restoring)
    BY Holds
  <1>2. Timed(r)
    BY <1>1 DEF Settled, Timed, SameAttempt
  <1> QED
    BY <1>2, AttemptBecomes DEF SameAttempt

\* A step of the discovery that fails.
LEMMA SetupFails ==
  ASSUME IInv, NEW c \in Clock, app.clock[c].link = "connected",
         app' = failClockSetup(With(app, c, [app.clock[c] EXCEPT !.gatt = "none"]), c),
         UNCHANGED <<accessories, automaticSync, removing>>
  PROVE  IInv'
  <1> DEFINE u == app.clock[c]
             v == [u EXCEPT !.gatt = "none"]
             a == With(app, c, v)
  <1>1. u \in ClockType /\ u.link = "connected" /\ app \in AppType /\ Sound(app)
    BY Holds
  <1>2. /\ v \in ClockType /\ v.link = u.link
        /\ SameWish(u, v) /\ SameRoute(u, v) /\ SameAttempt(u, v)
    BY <1>1, GattSets
  <1>3. app' = failClockSetup(a, c)
    OBVIOUS
  <1> HIDE DEF v
  <1>4. Becomes(app, u, v)
    BY <1>2, DiscoveryBecomes
  <1>5. Follows(app, a) /\ Sound(a) /\ a.clock[c] = v
    BY <1>1, <1>2, <1>4, WithFollows, WithSets DEF Follows
  <1> HIDE DEF a, u
  <1>6. Follows(a, app')
    BY <1>1, <1>2, <1>3, <1>5, FailClockSetup
  <1> QED
    BY <1>5, <1>6, FollowsOn, QuietKeeps

LEMMA DidDiscoverServicesKeeps ==
  ASSUME IInv, NEW c \in Clock, NEW ok \in BOOLEAN, DidDiscoverServices(c, ok)
  PROVE  IInv'
  <1> DEFINE u == app.clock[c]
             v == [u EXCEPT !.gatt = "characteristics"]
  <1>1. /\ u.link = "connected" /\ UNCHANGED <<accessories, automaticSync, removing>>
        /\ app' = IF ok THEN With(app, c, v)
                  ELSE failClockSetup(With(app, c, [u EXCEPT !.gatt = "none"]), c)
    BY DEF DidDiscoverServices, OnLink
  <1>2. CASE ok
    <2>1. u \in ClockType
      BY Holds
    <2>2. /\ v \in ClockType /\ v.link = u.link
          /\ SameWish(u, v) /\ SameRoute(u, v) /\ SameAttempt(u, v)
      BY <2>1, GattSets
    <2> HIDE DEF v
    <2>3. Becomes(app, u, v)
      BY <2>2, DiscoveryBecomes
    <2> QED
      BY <1>1, <1>2, <2>3, RecordKeeps
  <1>3. CASE ~ok
    BY <1>1, <1>3, SetupFails
  <1> QED
    BY <1>2, <1>3

LEMMA DidDiscoverCharacteristicsKeeps ==
  ASSUME IInv, NEW c \in Clock, NEW ok \in BOOLEAN, DidDiscoverCharacteristics(c, ok)
  PROVE  IInv'
  <1> DEFINE u == app.clock[c]
             v == [u EXCEPT !.gatt = "notify", !.characteristics = TRUE]
  <1>1. /\ u.link = "connected" /\ UNCHANGED <<accessories, automaticSync, removing>>
        /\ app' = IF ok THEN With(app, c, v)
                  ELSE failClockSetup(With(app, c, [u EXCEPT !.gatt = "none"]), c)
    BY DEF DidDiscoverCharacteristics, OnLink
  <1>2. CASE ok
    <2>1. u \in ClockType
      BY Holds
    <2>2. v \in ClockType
      BY <2>1 DEF ClockType
    <2>3. v.link = u.link /\ SameWish(u, v) /\ SameRoute(u, v) /\ SameAttempt(u, v)
      BY <2>1 DEF ClockType, SameWish, SameRoute, SameAttempt
    <2> HIDE DEF v
    <2>4. Becomes(app, u, v)
      BY <2>2, <2>3, DiscoveryBecomes
    <2> QED
      BY <1>1, <1>2, <2>4, RecordKeeps
  <1>3. CASE ~ok
    BY <1>1, <1>3, SetupFails
  <1> QED
    BY <1>2, <1>3

LEMMA DidUpdateNotificationStateKeeps ==
  ASSUME IInv, NEW c \in Clock, NEW ok \in BOOLEAN, NEW encodes,
         DidUpdateNotificationState(c, ok, encodes)
  PROVE  IInv'
  <1> DEFINE t == app.clock[c]
             u == [t EXCEPT !.gatt = "none"]
             v == [u EXCEPT !.subscribed = TRUE, !.reconnects = 0, !.sentInitialTime = TRUE]
             a == With(app, c, v)
  <1>1. /\ ~app.restoring /\ t.link = "connected" /\ t.peripheral
        /\ UNCHANGED <<accessories, automaticSync, removing>>
        /\ app' = IF ~ok THEN failClockSetup(With(app, c, u), c)
                  ELSE IF u.sentInitialTime THEN a ELSE sendPhoneTime(a, c, FALSE, encodes)
    BY DEF DidUpdateNotificationState, OnLink
  <1>2. CASE ~ok
    BY <1>1, <1>2, SetupFails
  <1>3. CASE ok
    <2>1. /\ t \in ClockType /\ Settled(t, app.restoring)
          /\ Powered(t, app.radio = "poweredOn") /\ Sound(app)
      BY Holds
    <2>2. app' \in {a, sendPhoneTime(a, c, FALSE, encodes)}
      BY <1>1, <1>3
    <2> HIDE DEF t
    <2>3. /\ u \in ClockType /\ u.link = t.link
          /\ SameWish(t, u) /\ SameRoute(t, u) /\ SameAttempt(t, u)
      BY <2>1, GattSets
    <2> HIDE DEF u
    <2>4. v \in ClockType
      BY <2>3, Zeros DEF ClockType
    <2>5. /\ v.link = u.link /\ SameWish(u, v) /\ SameAttempt(u, v)
          /\ v.peripheral = u.peripheral /\ v.isConnected = u.isConnected
          /\ v.connectPending = u.connectPending
      BY <2>3 DEF ClockType, SameWish, SameAttempt
    <2> HIDE DEF v
    <2>6. /\ v.link = "connected" /\ v.peripheral /\ SameWish(t, v) /\ SameAttempt(t, v)
          /\ v.connectPending = t.connectPending
      BY <1>1, <2>3, <2>5 DEF SameWish, SameRoute, SameAttempt
    <2>7. Settled(v, app.restoring)
      BY <1>1, <2>1, <2>4, <2>6
         DEF Settled, Timed, SameWish, SameAttempt, wantsConnection
    <2>8. \A on : Powered(v, on)
      BY <2>6 DEF Powered
    <2>9. Becomes(app, t, v)
      BY <1>1, <2>6, <2>7, <2>8 DEF Becomes, Moves, SameWish, Live
    <2>10. Follows(app, a) /\ Sound(a)
      BY <2>1, <2>9, WithFollows DEF t, Follows
    <2> HIDE DEF a
    <2>11. Follows(a, app')
      BY <2>2, <2>10, FollowsSelf, SendPhoneTime
    <2> QED
      BY <1>1, <2>10, <2>11, FollowsOn, QuietKeeps
  <1> QED
    BY <1>2, <1>3

\* Where an attempt ends, a manual sync does too.
LEMMA EndsKeeps ==
  ASSUME IInv, NEW c \in Clock, NEW r, Becomes(app, app.clock[c], r),
         app' = finishManualSyncIfNeeded(With(app, c, r), c),
         UNCHANGED <<accessories, automaticSync, removing>>
  PROVE  IInv'
  <1>1. Follows(app, With(app, c, r)) /\ Sound(With(app, c, r))
    BY Holds, WithFollows DEF Follows
  <1>2. Follows(With(app, c, r), app')
    BY <1>1, FinishManualSync
  <1> QED
    BY <1>1, <1>2, FollowsOn, QuietKeeps

LEMMA DidWriteValueKeeps ==
  ASSUME IInv, NEW c \in Clock, NEW ok \in BOOLEAN, DidWriteValue(c, ok)
  PROVE  IInv'
  <1> DEFINE t == app.clock[c]
             u == [t EXCEPT !.writes = @ - 1]
             v == CancelTimer(CancelAttempt(u))
             w == [u EXCEPT !.hasWriteResponse = TRUE]
             x == ScheduleTimer(w, "read")
  <1>1. /\ t.writes > 0 /\ UNCHANGED <<accessories, automaticSync, removing>>
        /\ app' = IF ~ok THEN finishManualSyncIfNeeded(With(app, c, v), c)
                  ELSE With(app, c, IF u.isAwaiting THEN x ELSE u)
    BY DEF DidWriteValue
  <1>2. t \in ClockType /\ t.writes \in 0..MaxWrites
    BY Holds DEF ClockType
  <1>3. t.writes - 1 \in 0..MaxWrites
    BY <1>1, <1>2, Bounds
  <1> HIDE DEF t
  <1>4. u \in ClockType
    BY <1>2, <1>3 DEF ClockType
  <1>5. u.link = t.link /\ SameWish(t, u) /\ SameRoute(t, u) /\ SameAttempt(t, u)
    BY <1>2 DEF ClockType, SameWish, SameRoute, SameAttempt
  <1> HIDE DEF u
  <1>6. CASE ~ok
    <2>1. /\ v \in ClockType /\ v.link = u.link /\ SameWish(u, v) /\ SameRoute(u, v)
          /\ ~v.isAwaiting /\ v.timer = "none"
      BY <1>4, CancelBoth
    <2> HIDE DEF v
    <2>2. Becomes(app, t, v)
      BY <1>5, <2>1, AttemptBecomes DEF t, SameWish, SameRoute, Timed
    <2> QED
      BY <1>1, <1>6, <2>2, EndsKeeps DEF t
  <1>7. CASE ok /\ u.isAwaiting
    <2>1. w \in ClockType
      BY <1>4 DEF ClockType
    <2>2. /\ w.link = u.link /\ SameWish(u, w) /\ SameRoute(u, w)
          /\ w.isAwaiting = u.isAwaiting /\ w.hasWriteResponse
      BY <1>4 DEF ClockType, SameWish, SameRoute
    <2> HIDE DEF w
    <2>3. x \in ClockType
      BY <2>1 DEF ScheduleTimer, ClockType
    <2>4. /\ x.link = w.link /\ SameWish(w, x) /\ SameRoute(w, x)
          /\ x.isAwaiting = w.isAwaiting /\ x.hasWriteResponse = w.hasWriteResponse
          /\ x.timer = "read" /\ x.timerCurrent
      BY <2>1 DEF ScheduleTimer, ClockType, SameWish, SameRoute
    <2>5. app' = With(app, c, x)
      BY <1>1, <1>7
    <2> HIDE DEF x
    <2>6. /\ x.link = t.link /\ SameWish(t, x) /\ SameRoute(t, x) /\ Timed(x)
          /\ x.isAwaiting => t.isAwaiting
      BY <1>5, <1>7, <2>2, <2>4 DEF SameWish, SameRoute, SameAttempt, Timed
    <2>7. Becomes(app, t, x)
      BY <2>3, <2>6, AttemptBecomes DEF t
    <2> QED
      BY <1>1, <2>5, <2>7, RecordKeeps DEF t
  <1>8. CASE ok /\ ~u.isAwaiting
    <2>1. Becomes(app, t, u)
      BY <1>4, <1>5, DiscoveryBecomes DEF t
    <2>2. app' = With(app, c, u) /\ UNCHANGED <<accessories, automaticSync, removing>>
      BY <1>1, <1>8
    <2> QED
      BY <2>1, <2>2, RecordKeeps DEF t
  <1> QED
    BY <1>6, <1>7, <1>8

LEMMA StatusRequestKeeps ==
  ASSUME IInv, NEW c \in Clock, NEW encodes, StatusRequest(c, encodes)
  PROVE  IInv'
  <1>1. /\ app' = sendPhoneTime(app, c, FALSE, encodes)
        /\ UNCHANGED <<accessories, automaticSync, removing>>
    BY DEF StatusRequest
  <1> QED
    BY <1>1, Holds, SendPhoneTime, QuietKeeps

LEMMA StatusResultKeeps ==
  ASSUME IInv, NEW c \in Clock, StatusResult(c)
  PROVE  IInv'
  <1> DEFINE u == app.clock[c]
             v == CancelTimer(CancelAttempt(u))
  <1>1. /\ app' = finishManualSyncIfNeeded(With(app, c, v), c)
        /\ UNCHANGED <<accessories, automaticSync, removing>>
    BY DEF StatusResult
  <1>2. u \in ClockType
    BY Holds
  <1>3. /\ v \in ClockType /\ v.link = u.link /\ SameWish(u, v) /\ SameRoute(u, v)
        /\ ~v.isAwaiting /\ v.timer = "none"
    BY <1>2, CancelBoth
  <1> HIDE DEF v
  <1>4. Becomes(app, u, v)
    BY <1>3, AttemptBecomes DEF Timed
  <1> QED
    BY <1>1, <1>4, EndsKeeps

LEMMA ReconnectTimerKeeps ==
  ASSUME IInv, NEW c \in Clock, ReconnectTimer(c)
  PROVE  IInv'
  <1> DEFINE t == app.clock[c]
             u == [t EXCEPT !.reconnectTimer = FALSE]
  <1>1. /\ t.reconnectTimer /\ UNCHANGED <<accessories, automaticSync, removing>>
        /\ app' = With(app, c, IF u.known /\ u.automatic THEN requestConnection(u) ELSE u)
    BY DEF ReconnectTimer
  <1>2. /\ t \in ClockType /\ Settled(t, app.restoring) /\ app \in AppType
        /\ Powered(t, app.radio = "poweredOn")
    BY Holds
  <1> HIDE DEF t
  <1>3. t.peripheral /\ wantsConnection(t) /\ app.restoring = FALSE
    BY <1>1, <1>2 DEF Settled, Bare, AppType
  <1>4. u \in ClockType
    BY <1>2 DEF ClockType
  <1>5. /\ u.link = t.link /\ SameWish(t, u) /\ SameAttempt(t, u)
        /\ u.peripheral = t.peripheral /\ u.isConnected = t.isConnected
        /\ u.connectPending = t.connectPending
    BY <1>2 DEF ClockType, SameWish, SameAttempt
  <1> HIDE DEF u
  <1>6. Adopted(u) /\ u.known = t.known /\ t.known
    BY <1>2, <1>3, <1>4, <1>5
       DEF Settled, Adopted, Timed, SameWish, SameAttempt, wantsConnection
  <1>7. CASE u.known /\ u.automatic
    <2> DEFINE v == requestConnection(u)
    <2>1. Settled(v, FALSE) /\ (\A on : Powered(v, on)) /\ SameWish(u, v)
      BY <1>6, RequestConnection
    <2>2. app' = With(app, c, v)
      BY <1>1, <1>7
    <2> HIDE DEF v
    <2>3. Becomes(app, t, v)
      BY <1>3, <1>6, <2>1 DEF Becomes, Moves, SameWish
    <2> QED
      BY <1>1, <2>2, <2>3, RecordKeeps DEF t
  <1>8. CASE ~(u.known /\ u.automatic)
    <2>1. Settled(u, FALSE)
      BY <1>6 DEF Adopted, Settled, wantsConnection
    <2>2. Powered(u, app.radio = "poweredOn")
      BY <1>2, <1>5, <1>6, <1>8 DEF Powered
    <2>3. Becomes(app, t, u)
      BY <1>3, <1>6, <2>1, <2>2 DEF Becomes, Moves
    <2>4. app' = With(app, c, u)
      BY <1>1, <1>8
    <2> QED
      BY <1>1, <2>3, <2>4, RecordKeeps DEF t
  <1> QED
    BY <1>7, <1>8

LEMMA WriteResponseCheckKeeps ==
  ASSUME IInv, NEW c \in Clock, WriteResponseCheck(c)
  PROVE  IInv'
  <1> DEFINE u == app.clock[c]
             v == CancelTimer(u)
             w == CancelAttempt(v)
  <1>1. /\ u.timer = "writeResponse" /\ UNCHANGED <<accessories, automaticSync, removing>>
        /\ app' = IF u.timerCurrent /\ u.isAwaiting /\ ~u.hasWriteResponse
                  THEN finishManualSyncIfNeeded(With(app, c, w), c) ELSE With(app, c, v)
    BY DEF WriteResponseCheck
  <1>2. u \in ClockType /\ Settled(u, app.restoring)
    BY Holds
  <1> HIDE DEF u
  <1>3. u.timerCurrent /\ u.isAwaiting /\ ~u.hasWriteResponse
    BY <1>1, <1>2 DEF Settled, Timed
  <1>4. /\ v \in ClockType /\ v.link = u.link /\ SameWish(u, v) /\ SameRoute(u, v)
        /\ v.timer = "none"
    BY <1>2, CancelTimerSets
  <1> HIDE DEF v
  <1>5. /\ w \in ClockType /\ w.link = v.link /\ SameWish(v, w) /\ SameRoute(v, w)
        /\ ~w.isAwaiting /\ w.timer = v.timer
    BY <1>4, CancelAttemptSets
  <1>6. app' = finishManualSyncIfNeeded(With(app, c, w), c)
    BY <1>1, <1>3
  <1> HIDE DEF w
  <1>7. w.link = u.link /\ SameWish(u, w) /\ SameRoute(u, w) /\ Timed(w) /\ ~w.isAwaiting
    BY <1>4, <1>5 DEF SameWish, SameRoute, Timed
  <1>8. Becomes(app, u, w)
    BY <1>5, <1>7, AttemptBecomes DEF u
  <1> QED
    BY <1>1, <1>6, <1>8, EndsKeeps DEF u

LEMMA ReadCheckKeeps ==
  ASSUME IInv, NEW c \in Clock, ReadCheck(c)
  PROVE  IInv'
  <1> DEFINE u == app.clock[c]
             v == ScheduleTimer(u, "fail")
  <1>1. /\ u.timer = "read" /\ UNCHANGED <<accessories, automaticSync, removing>>
        /\ app' = With(app, c, IF u.timerCurrent /\ u.isAwaiting /\ u.hasWriteResponse
                               THEN v ELSE CancelTimer(u))
    BY DEF ReadCheck
  <1>2. u \in ClockType /\ Settled(u, app.restoring)
    BY Holds
  <1> HIDE DEF u
  <1>3. u.timerCurrent /\ u.isAwaiting /\ u.hasWriteResponse
    BY <1>1, <1>2 DEF Settled, Timed
  <1>4. v \in ClockType
    BY <1>2 DEF ScheduleTimer, ClockType
  <1>5. /\ v.link = u.link /\ SameWish(u, v) /\ SameRoute(u, v)
        /\ v.isAwaiting = u.isAwaiting /\ v.hasWriteResponse = u.hasWriteResponse
        /\ v.timer = "fail" /\ v.timerCurrent
    BY <1>2 DEF ScheduleTimer, ClockType, SameWish, SameRoute
  <1>6. app' = With(app, c, v)
    BY <1>1, <1>3
  <1> HIDE DEF v
  <1>7. Timed(v) /\ (v.isAwaiting => u.isAwaiting)
    BY <1>3, <1>5 DEF Timed
  <1>8. Becomes(app, u, v)
    BY <1>4, <1>5, <1>7, AttemptBecomes DEF u
  <1> QED
    BY <1>1, <1>6, <1>8, RecordKeeps DEF u

LEMMA FailCheckKeeps ==
  ASSUME IInv, NEW c \in Clock, NEW encodes, FailCheck(c, encodes)
  PROVE  IInv'
  <1> DEFINE u == app.clock[c]
             t == CancelTimer(u)
             v == [t EXCEPT !.isAwaiting = FALSE, !.hasWriteResponse = FALSE]
             w == CancelAttempt(v)
             a == With(app, c, v)
  <1>1. /\ u.timer = "fail" /\ UNCHANGED <<accessories, automaticSync, removing>>
        /\ app' = IF ~(u.timerCurrent /\ u.isAwaiting /\ u.hasWriteResponse)
                  THEN With(app, c, t)
                  ELSE IF u.attempt < MaxAttempts THEN sendPhoneTime(a, c, TRUE, encodes)
                  ELSE finishManualSyncIfNeeded(With(app, c, w), c)
    BY DEF FailCheck
  <1>2. u \in ClockType /\ Settled(u, app.restoring) /\ Sound(app)
    BY Holds
  <1> HIDE DEF u
  <1>3. u.timerCurrent /\ u.isAwaiting /\ u.hasWriteResponse
    BY <1>1, <1>2 DEF Settled, Timed
  <1>4. /\ t \in ClockType /\ t.link = u.link /\ SameWish(u, t) /\ SameRoute(u, t)
        /\ t.timer = "none"
    BY <1>2, CancelTimerSets
  <1> HIDE DEF t
  <1>5. v \in ClockType
    BY <1>4 DEF ClockType
  <1>6. /\ v.link = t.link /\ SameWish(t, v) /\ SameRoute(t, v)
        /\ ~v.isAwaiting /\ v.timer = t.timer
    BY <1>4 DEF ClockType, SameWish, SameRoute
  <1> HIDE DEF v
  <1>7. CASE u.attempt < MaxAttempts
    <2>1. v.link = u.link /\ SameWish(u, v) /\ SameRoute(u, v) /\ Timed(v) /\ ~v.isAwaiting
      BY <1>4, <1>6 DEF SameWish, SameRoute, Timed
    <2>2. Becomes(app, u, v)
      BY <1>5, <2>1, AttemptBecomes DEF u
    <2>3. Follows(app, a) /\ Sound(a)
      BY <1>2, <2>2, WithFollows DEF u, Follows
    <2>4. app' = sendPhoneTime(a, c, TRUE, encodes)
      BY <1>1, <1>3, <1>7
    <2> HIDE DEF a
    <2>5. Follows(a, app')
      BY <2>3, <2>4, SendPhoneTime
    <2> QED
      BY <1>1, <2>3, <2>5, FollowsOn, QuietKeeps
  <1>8. CASE ~(u.attempt < MaxAttempts)
    <2>1. /\ w \in ClockType /\ w.link = v.link /\ SameWish(v, w) /\ SameRoute(v, w)
          /\ ~w.isAwaiting /\ w.timer = v.timer
      BY <1>5, CancelAttemptSets
    <2>2. app' = finishManualSyncIfNeeded(With(app, c, w), c)
      BY <1>1, <1>3, <1>8
    <2> HIDE DEF w
    <2>3. w.link = u.link /\ SameWish(u, w) /\ SameRoute(u, w) /\ Timed(w) /\ ~w.isAwaiting
      BY <1>4, <1>6, <2>1 DEF SameWish, SameRoute, Timed
    <2>4. Becomes(app, u, w)
      BY <2>1, <2>3, AttemptBecomes DEF u
    <2> QED
      BY <1>1, <2>2, <2>4, EndsKeeps DEF u
  <1> QED
    BY <1>7, <1>8

----------------------------------------------------------------------------
(* Launches                                                                *)

LEMMA UnknownSets ==
  /\ Unknown \in ClockType /\ ~Unknown.known /\ ~Unknown.peripheral
  /\ ~Unknown.automatic /\ ~Unknown.manualSyncRequested /\ Unknown.timer = "none"
  /\ ~Unknown.isConnected /\ ~Unknown.connectPending /\ ~Unknown.reconnectTimer
  /\ ~Unknown.isAwaiting /\ ~Live(Unknown)
  <1>1. Unknown \in ClockType
    BY Zeros DEF Unknown, ClockType
  <1>2. /\ ~Unknown.known /\ ~Unknown.peripheral
        /\ ~Unknown.automatic /\ ~Unknown.manualSyncRequested /\ Unknown.timer = "none"
        /\ ~Unknown.isConnected /\ ~Unknown.connectPending /\ ~Unknown.reconnectTimer
        /\ ~Unknown.isAwaiting /\ ~Live(Unknown)
    BY DEF Unknown, Live
  <1> QED
    BY <1>1, <1>2

\* A clock of a fresh launch, with or without a link of the last one.
LEMMA LaunchSettles ==
  ASSUME NEW r \in {Unknown} \union {WithLink(Unknown, link) : link \in LinkState},
         NEW restoring, Live(r) => restoring
  PROVE  Settled(r, restoring) /\ (\A on : Powered(r, on)) /\ ~r.known
  <1>1. /\ r \in ClockType /\ ~r.peripheral /\ ~r.automatic /\ ~r.manualSyncRequested
        /\ r.timer = "none" /\ ~r.isConnected /\ ~r.connectPending /\ ~r.reconnectTimer
        /\ ~r.isAwaiting /\ ~r.known
    <2>1. CASE r = Unknown
      BY <2>1, UnknownSets
    <2>2. CASE r # Unknown
      <3>1. PICK link \in LinkState : r = WithLink(Unknown, link)
        BY <2>2
      <3> QED
        BY <3>1, UnknownSets, WithLinkSets DEF SameWish, SameRoute, SameAttempt
    <2> QED
      BY <2>1, <2>2
  <1>2. Bare(r, restoring)
    BY <1>1 DEF Bare
  <1> QED
    BY <1>1, <1>2, BareSettles

LEMMA LaunchedType ==
  /\ Launched \in AppType /\ Launched.clock = [c \in Clock |-> Unknown]
  /\ Launched.sessionActivated = FALSE /\ Launched.authorizedClocks = {}
  /\ Launched.initializationRequested = FALSE /\ Launched.centralManager = FALSE
  /\ Launched.radio = "unknown" /\ Launched.restoring = FALSE /\ Launched.isScanning = FALSE
  <1> DEFINE k == [c \in Clock |-> Unknown]
             none == {}
  <1>1. k \in [Clock -> ClockType]
    BY UnknownSets
  <1>2. none \in SUBSET Clock
    OBVIOUS
  <1>3. Launched = [sessionActivated |-> FALSE, authorizedClocks |-> none,
                    pickerIsActive |-> FALSE, initializationRequested |-> FALSE,
                    centralManager |-> FALSE, radio |-> "unknown", restoring |-> FALSE,
                    isScanning |-> FALSE, clock |-> k]
    BY DEF Launched
  <1> HIDE DEF k, none
  <1>4. Launched \in AppType
    BY <1>1, <1>2, <1>3 DEF AppType
  <1>5. /\ Launched.clock = k /\ Launched.sessionActivated = FALSE
        /\ Launched.authorizedClocks = none /\ Launched.initializationRequested = FALSE
        /\ Launched.centralManager = FALSE /\ Launched.radio = "unknown"
        /\ Launched.restoring = FALSE /\ Launched.isScanning = FALSE
    BY <1>3
  <1> QED
    BY <1>4, <1>5 DEF k, none

LEMMA LaunchedSets ==
  ASSUME NEW restoring \in BOOLEAN,
         NEW k \in [Clock -> {Unknown} \union {WithLink(Unknown, link) : link \in LinkState}],
         \A c \in Clock : Live(k[c]) => restoring
  PROVE  LET r == [Launched EXCEPT !.restoring = restoring, !.clock = k] IN
         /\ Managed(r) /\ ~r.sessionActivated /\ r.authorizedClocks = {} /\ r.clock = k
         /\ \A c \in Clock : ~r.clock[c].known
  <1> DEFINE r == [Launched EXCEPT !.restoring = restoring, !.clock = k]
  <1>1. \A c \in Clock : /\ Settled(k[c], restoring) /\ ~k[c].known
                         /\ \A on : Powered(k[c], on)
    BY LaunchSettles
  <1>2. k \in [Clock -> ClockType]
    <2>1. \A c \in Clock : k[c] \in ClockType
      BY <1>1 DEF Settled
    <2> QED
      BY <2>1
  <1>3. r \in AppType
    BY <1>2, LaunchedType DEF AppType
  <1>4. /\ ~r.sessionActivated /\ r.authorizedClocks = {} /\ r.clock = k
        /\ ~r.initializationRequested /\ ~r.centralManager /\ r.radio = "unknown"
        /\ ~r.isScanning /\ r.restoring = restoring
    BY LaunchedType DEF AppType
  <1> HIDE DEF r
  <1>5. Sound(r)
    BY <1>1, <1>3, <1>4 DEF Sound, Steady, ManagerFits, Powered
  <1>6. /\ Managed(r) /\ ~r.sessionActivated /\ r.authorizedClocks = {} /\ r.clock = k
        /\ \A c \in Clock : ~r.clock[c].known
    BY <1>1, <1>4, <1>5 DEF Managed
  <1> QED
    BY <1>6 DEF r

LEMMA InitKeeps ==
  ASSUME Init
  PROVE  IInv
  <1> DEFINE k == [c \in Clock |-> Unknown]
  <1>1. k \in [Clock -> {Unknown} \union {WithLink(Unknown, link) : link \in LinkState}]
    OBVIOUS
  <1>2. \A c \in Clock : ~Live(k[c])
    BY UnknownSets
  <1>3. app = [Launched EXCEPT !.restoring = FALSE, !.clock = k]
    BY LaunchedType DEF Init, AppType
  <1> HIDE DEF k
  <1>4. /\ Managed(app) /\ ~app.sessionActivated /\ app.authorizedClocks = {} /\ app.clock = k
        /\ \A c \in Clock : ~app.clock[c].known
    BY <1>1, <1>2, <1>3, LaunchedSets
  <1>5. /\ accessories \subseteq Clock /\ automaticSync \in [Clock -> BOOLEAN]
        /\ removing \subseteq Clock
    BY DEF Init
  <1>6. Sound(app) /\ app \in AppType
    BY <1>4 DEF Managed, Sound, Steady
  <1> QED
    BY <1>2, <1>4, <1>5, <1>6 DEF IInv, TypeOK, Managed

LEMMA RelaunchKeeps ==
  ASSUME IInv, NEW kept \in SUBSET Clock, Relaunch(kept)
  PROVE  IInv'
  <1> DEFINE k == [c \in Clock |-> IF c \in kept THEN WithLink(Unknown, app.clock[c].link)
                                   ELSE Unknown]
             restoring == kept # {}
  <1>1. /\ \A c \in kept : Live(app.clock[c])
        /\ removing' = {} /\ UNCHANGED <<accessories, automaticSync>>
        /\ app' = [Launched EXCEPT !.restoring = restoring, !.clock = k]
    BY DEF Relaunch, Live
  <1>2. \A c \in Clock : app.clock[c].link \in LinkState
    BY Holds DEF ClockType, LinkState
  <1>3. k \in [Clock -> {Unknown} \union {WithLink(Unknown, link) : link \in LinkState}]
    BY <1>2
  <1>4. \A c \in Clock : Live(k[c]) => c \in kept
    BY UnknownSets
  <1> HIDE DEF k
  <1>5. restoring \in BOOLEAN /\ \A c \in Clock : Live(k[c]) => restoring
    BY <1>4
  <1> HIDE DEF restoring
  <1>6. /\ Managed(app') /\ ~app'.sessionActivated /\ app'.authorizedClocks = {}
        /\ app'.clock = k /\ \A c \in Clock : ~app'.clock[c].known
    BY <1>1, <1>3, <1>5, LaunchedSets
  <1>7. \A c \in Clock : Live(app'.clock[c]) => c \in accessories
    BY <1>1, <1>4, <1>6, Holds
  <1> QED
    BY <1>1, <1>6, <1>7, Holds, ManagedKeeps

----------------------------------------------------------------------------
(* Every step                                                              *)

LEMMA SessionKeeps ==
  ASSUME IInv, Session
  PROVE  IInv'
  <1>1. CASE SessionActivated
    BY <1>1, SessionActivatedKeeps
  <1>2. CASE addClock
    BY <1>2, AddClockKeeps
  <1>3. CASE PickerFailed
    BY <1>3, PickerFailedKeeps
  <1>4. CASE Invalidated
    BY <1>4, InvalidatedKeeps
  <1>5. CASE \E found \in SUBSET Clock : AccessoryChanged(found) \/ PickerDidDismiss(found)
    BY <1>5, AccessoryChangedKeeps, PickerDidDismissKeeps
  <1>6. CASE \E c \in Clock, found \in SUBSET Clock :
               \/ AccessoryAdded(c, found) \/ AccessoryRemoved(c, found)
               \/ ForgetFailed(c, found) \/ ForgetDone(c, found)
    BY <1>6, AccessoryAddedKeeps, AccessoryRemovedKeeps, ForgetFailedKeeps, ForgetDoneKeeps
  <1> QED
    BY <1>1, <1>2, <1>3, <1>4, <1>5, <1>6 DEF Session

LEMMA UserKeeps ==
  ASSUME IInv, User
  PROVE  IInv'
  BY SetAutomaticSyncKeeps, SyncNowKeeps, ForgetClockKeeps DEF User

LEMMA CentralKeeps ==
  ASSUME IInv, Central
  PROVE  IInv'
  <1>1. CASE \E radio \in {"poweredOn", "poweredOff", "resetting"}, found \in SUBSET Clock :
               DidUpdateState(radio, found)
    BY <1>1, DidUpdateStateKeeps
  <1>2. CASE WillRestoreState
    BY <1>2, WillRestoreStateKeeps
  <1>3. CASE ScanTimesOut
    BY <1>3, ScanTimesOutKeeps
  <1>4. CASE \E c \in Clock : DidDiscover(c) \/ DidConnect(c) \/ DidFailToConnect(c)
    BY <1>4, DidDiscoverKeeps, DidConnectKeeps, DidFailToConnectKeeps
  <1>5. CASE \E c \in Clock, isReconnecting \in BOOLEAN : DidDisconnect(c, isReconnecting)
    BY <1>5, DidDisconnectKeeps
  <1> QED
    BY <1>1, <1>2, <1>3, <1>4, <1>5 DEF Central

LEMMA PeripheralKeeps ==
  ASSUME IInv, NEW c \in Clock, Peripheral(c)
  PROVE  IInv'
  <1>1. CASE \E ok \in BOOLEAN :
               DidDiscoverServices(c, ok) \/ DidDiscoverCharacteristics(c, ok)
                 \/ DidWriteValue(c, ok)
    BY <1>1, DidDiscoverServicesKeeps, DidDiscoverCharacteristicsKeeps, DidWriteValueKeeps
  <1>2. CASE \E ok, encodes \in BOOLEAN : DidUpdateNotificationState(c, ok, encodes)
    BY <1>2, DidUpdateNotificationStateKeeps
  <1>3. CASE ClockAsks(c)
    BY <1>3, StatusRequestKeeps DEF ClockAsks
  <1>4. CASE StatusResult(c)
    BY <1>4, StatusResultKeeps
  <1> QED
    BY <1>1, <1>2, <1>3, <1>4 DEF Peripheral

LEMMA TimerKeeps ==
  ASSUME IInv, NEW c \in Clock, AttemptTimer(c) \/ ReconnectTimer(c)
  PROVE  IInv'
  BY WriteResponseCheckKeeps, ReadCheckKeeps, FailCheckKeeps, ReconnectTimerKeeps
     DEF AttemptTimer

\* IInv is inductive: it holds of the first launch and every step keeps it.
THEOREM Inductive == Spec => []IInv
  <1>1. Init => IInv
    BY InitKeeps
  <1>2. IInv /\ [Next]_vars => IInv'
    <2> SUFFICES ASSUME IInv, [Next]_vars
                 PROVE  IInv'
      OBVIOUS
    <2>1. CASE Session
      BY <2>1, SessionKeeps
    <2>2. CASE User
      BY <2>2, UserKeeps
    <2>3. CASE Central
      BY <2>3, CentralKeeps
    <2>4. CASE \E c \in Clock : Peripheral(c) \/ AttemptTimer(c) \/ ReconnectTimer(c)
      BY <2>4, PeripheralKeeps, TimerKeeps
    <2>5. CASE \E kept \in SUBSET Clock : Relaunch(kept)
      BY <2>5, RelaunchKeeps
    <2>6. CASE UNCHANGED vars
      <3>1. UNCHANGED <<app, accessories, automaticSync, removing>>
        BY <2>6 DEF vars
      <3> QED
        BY <3>1, Holds, FollowsSelf, QuietKeeps
    <2> QED
      BY <2>1, <2>2, <2>3, <2>4, <2>5, <2>6 DEF Next
  <1> QED
    BY <1>1, <1>2, PTL DEF Spec

\* The manager exists for an authorized clock only, and the lifecycle knows of it.
THEOREM ManagerForClocks == Spec => []ManagerFollowsClocks
  <1>1. IInv => ManagerFollowsClocks
    BY DEF IInv, Sound, Steady, ManagerFits, ManagerFollowsClocks
  <1> QED
    BY <1>1, Inductive, PTL

\* No attempt waits without its timer, and no timer outlives its attempt.
THEOREM AttemptsEnd == Spec => []AttemptIsTimed
  <1>1. IInv => AttemptIsTimed
    BY DEF IInv, Sound, Steady, Settled, Timed, AttemptIsTimed
  <1> QED
    BY <1>1, Inductive, PTL

\* A connection is held, and reconnected, for a clock that somebody wants, and for no
\* other; that includes the types of all the variables.
THEOREM LinksAreWanted == Spec => []LinkFollowsWish
  <1>1. IInv => LinkFollowsWish
    <2> SUFFICES ASSUME IInv
                 PROVE  LinkFollowsWish
      OBVIOUS
    <2>1. TypeOK
      BY DEF IInv
    <2>2. ASSUME NEW c \in Clock
          PROVE  LET u == app.clock[c]
                 IN  /\ u.known /\ ~wantsConnection(u) /\ ~app.restoring =>
                          /\ u.link \in {"disconnected", "disconnecting"}
                          /\ ~u.peripheral /\ ~u.isConnected /\ ~u.connectPending
                          /\ ~u.reconnectTimer /\ ~u.isAwaiting /\ u.timer = "none"
                     /\ app.radio = "poweredOn" /\ u.known /\ u.automatic /\ u.peripheral =>
                          u.link # "disconnected" \/ u.reconnectTimer
                            \/ u.reconnects = MaxReconnects
                     /\ u.connectPending => u.link = "connecting"
      <3> DEFINE u == app.clock[c]
      <3>1. /\ Settled(u, app.restoring) /\ Powered(u, app.radio = "poweredOn")
            /\ u \in ClockType
        BY Holds
      <3> HIDE DEF u
      <3>2. u.link \in LinkState
        BY <3>1 DEF ClockType, LinkState
      <3>3. u.known /\ ~wantsConnection(u) /\ ~app.restoring =>
              /\ u.link \in {"disconnected", "disconnecting"}
              /\ ~u.peripheral /\ ~u.isConnected /\ ~u.connectPending
              /\ ~u.reconnectTimer /\ ~u.isAwaiting /\ u.timer = "none"
        BY <3>1, <3>2 DEF Settled, Bare, Live, Timed, LinkState
      <3>4. /\ app.radio = "poweredOn" /\ u.known /\ u.automatic /\ u.peripheral =>
                 u.link # "disconnected" \/ u.reconnectTimer \/ u.reconnects = MaxReconnects
            /\ u.connectPending => u.link = "connecting"
        BY <3>1 DEF Settled, Powered
      <3> QED
        BY <3>3, <3>4 DEF u
    <2> QED
      BY <2>1, <2>2 DEF LinkFollowsWish
  <1> QED
    BY <1>1, Inductive, PTL

=============================================================================
