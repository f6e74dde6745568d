--------------------------- MODULE BleLinkProofs ---------------------------
(***************************************************************************)
(* Proofs about BleLink, for every set of phones and every bound: the two  *)
(* tasks that start advertising never both leave it to the other, and only *)
(* a phone that came while the pairing window was open gets a bond, or one *)
(* that NimBLE refused to disconnect.                                      *)
(***************************************************************************)
EXTENDS BleLink, TLAPS, FiniteSetTheorems

\* The service counts the connection from its first callback to its last.
ConnectionFits ==
  /\ link \in {"plain", "bonded", "closing"} => hostPc = "idle"
  /\ connectionCount = IF link \in {"plain", "bonded", "closing"} \/ hostPc = "disconnect"
                       THEN 1 ELSE 0

\* The cadence changes once, after the window, in the order of transitionToSlowAdvertising.
CadenceFits ==
  /\ mainPc \in {"stop", "slow", "store"} =>
       ~pairingOpen /\ ~pairingWindowStatusLogged /\ ~slowAdvertisingConfigured
  /\ mainPc = "start" => ~pairingWindowStatusLogged
  /\ slowAdvertisingConfigured => pairingWindowStatusLogged \/ mainPc = "start"
  /\ slowAdvertisingConfigured \/ mainPc = "store" => intervals = "slow"
  /\ mainPc \in {"slow", "store"} /\ adv = "fast" => straddled
  /\ mainPc = "repeat" => loaded < MaxRetries

\* With nobody connected the clock is on the air, or somebody has still to start it.
OnAir ==
  link = "none" /\ hostPc = "idle" /\ ~advertising =>
    \/ failures > 0
    \/ ~slowAdvertisingConfigured /\ ~pairingOpen
    \/ mainPc = "start"

\* A stranger that may pair came in time, and there is room for its bond; or it should
\* have gone and did not.
BondsFit ==
  /\ IsFiniteSet(bonds) /\ Cardinality(bonds) <= MaxBonds
  /\ link = "plain" => \/ peer \in bonds
                       \/ unwanted
                       \/ admitted /\ Cardinality(bonds) < MaxBonds

IInv ==
  /\ TypeOK /\ ConnectionFits /\ CadenceFits /\ OnAir /\ BondsFit
  /\ slowAdvertisingConfigured /\ adv = "fast" => straddled

LEMMA Limits ==
  /\ MaxBonds \in Nat \ {0} /\ Window \in Nat \ {0} /\ RecoveryInterval \in Nat \ {0}
  /\ MaxRecoveries \in Nat \ {0} /\ RetryAfter \in Nat \ {0} /\ MaxRetries \in Nat \ {0}
  /\ ResyncAfter \in Nat \ {0} /\ MaxFailures \in Nat /\ NoPhone \notin Phone
  BY LinkAssumption DEF LinkAssumption

----------------------------------------------------------------------------
(* What the steps share                                                    *)

\* A start puts the clock on the air in the configured cadence, or is counted as refused.
LEMMA StartAdvertising ==
  ASSUME TypeOK, NEW ok \in BOOLEAN, startAdvertising(ok)
  PROVE  /\ adv' \in {"off", "fast", "slow"} /\ failures' \in 0..MaxFailures
         /\ adv' = adv \/ adv' = intervals
         /\ link = "none" => adv' # "off" \/ failures' > 0
  <1>1. /\ ok => advertising \/ adv' = intervals
        /\ ok /\ advertising => adv' = adv
        /\ ~ok => adv' = adv
        /\ failures' = IF ok THEN 0 ELSE IF link = "none" THEN failures + 1 ELSE failures
    BY DEF startAdvertising
  <1>2. ~ok /\ link = "none" => failures < MaxFailures
    BY DEF startAdvertising, StartOutcome
  <1>3. failures \in Nat /\ failures <= MaxFailures
    BY Limits DEF TypeOK
  <1>4. failures' \in 0..MaxFailures /\ (~ok /\ link = "none" => failures' > 0)
    BY <1>1, <1>2, <1>3, Limits
  <1> QED
    BY <1>1, <1>4 DEF TypeOK, advertising

LEMMA RequestTyped ==
  ASSUME requestSync
  PROVE  /\ syncRequestPending' \in BOOLEAN /\ syncRequestRetries' \in 0..MaxRetries
         /\ requestAge' \in 0..(ResyncAfter + 1)
  BY Limits DEF requestSync

\* The requests for a time have no part in anything else.
LEMMA RequestsAside ==
  ASSUME IInv, UNCHANGED <<stack, bonds, host, bootAge, cadence, recovery, history>>,
         syncRequestPending' \in BOOLEAN, syncRequestRetries' \in 0..MaxRetries,
         requestAge' \in 0..(ResyncAfter + 1),
         lag' \in 0..1, loaded' \in 0..MaxRetries,
         \/ mainPc' = mainPc /\ loaded' = loaded
         \/ mainPc \in {"request", "retry", "repeat", "giveUp", "loop"}
            /\ mainPc' \in {"tick", "retry", "repeat", "giveUp", "loop"},
         mainPc' = "repeat" => loaded' < MaxRetries
  PROVE  IInv'
  BY DEF IInv, TypeOK, ConnectionFits, CadenceFits, OnAir, BondsFit, stack, host, cadence,
         recovery, history, advertising, pairingOpen

----------------------------------------------------------------------------
(* The host task                                                           *)

LEMMA PhoneConnectsFits ==
  ASSUME IInv, NEW phone \in Phone, PhoneConnects(phone)
  PROVE  IInv'
  BY Limits DEF PhoneConnects, IInv, TypeOK, ConnectionFits, CadenceFits, OnAir, BondsFit,
     host, cadence, recovery, request, main, history, advertising, pairingOpen

\* The bonds after onConnect leave room for the phone it lets in.
LEMMA RoomIsMade ==
  ASSUME IInv, NEW evicted \in Phone, NEW ok \in BOOLEAN, onConnect(evicted, ok)
  PROVE  BondsFit' /\ bonds' \subseteq Phone
  <1>1. /\ IsFiniteSet(bonds) /\ Cardinality(bonds) <= MaxBonds /\ bonds \subseteq Phone
        /\ Cardinality(bonds) \in Nat
    BY FS_CardinalityType DEF IInv, BondsFit, TypeOK
  <1>2. CASE RejectsPhone
    BY <1>1, <1>2 DEF onConnect, disconnect, BondsFit
  <1>3. CASE ~RejectsPhone /\ peer \in bonds
    BY <1>1, <1>3 DEF onConnect, BondsFit
  <1>4. CASE ~RejectsPhone /\ peer \notin bonds /\ RoomForBond
    BY <1>1, <1>4 DEF onConnect, BondsFit, RejectsPhone, RoomForBond
  <1>5. CASE ~RejectsPhone /\ peer \notin bonds /\ ~RoomForBond
    <2>1. evicted \in bonds /\ bonds' = bonds \ {evicted} /\ admitted' /\ link' = "plain"
      BY <1>5 DEF onConnect, RejectsPhone
    <2>2. IsFiniteSet(bonds') /\ Cardinality(bonds') = Cardinality(bonds) - 1
      BY <1>1, <2>1, FS_RemoveElement
    <2> QED
      BY <1>1, <2>1, <2>2, Limits DEF BondsFit
  <1> QED
    BY <1>2, <1>3, <1>4, <1>5

LEMMA onConnectFits ==
  ASSUME IInv, NEW evicted \in Phone, NEW ok \in BOOLEAN, onConnect(evicted, ok)
  PROVE  IInv'
  <1>1. BondsFit' /\ bonds' \subseteq Phone
    BY RoomIsMade
  <1>2. /\ link = "new" /\ hostPc = "idle" /\ link' \in {"plain", "closing"}
        /\ connectionCount' = connectionCount + 1 /\ activeConnectionBonded' = FALSE
        /\ admitted' = pairingOpen /\ unwanted' = (RejectsPhone /\ ~ok)
        /\ UNCHANGED <<peer, adv, intervals, failures, hostPc, bootAge, cadence, recovery,
                       main, straddled>>
    BY DEF onConnect, disconnect
  <1>3. /\ syncRequestPending' \in BOOLEAN /\ syncRequestRetries' \in 0..MaxRetries
        /\ requestAge' \in 0..(ResyncAfter + 1)
    <2>1. requestSync \/ UNCHANGED request
      BY DEF onConnect
    <2> QED
      BY <2>1, RequestTyped DEF IInv, TypeOK, request
  <1>4. pairingOpen \in BOOLEAN /\ connectionCount = 0
    BY <1>2 DEF pairingOpen, IInv, ConnectionFits
  <1>5. connectionCount' \in 0..1
    BY <1>4, <1>2
  <1>6. activeConnectionBonded' \in BOOLEAN /\ admitted' \in BOOLEAN /\ unwanted' \in BOOLEAN
    BY <1>4, <1>2
  <1>7. TypeOK'
    BY <1>1, <1>2, <1>3, <1>5, <1>6 DEF IInv, TypeOK, cadence, recovery, main
  <1>8. ConnectionFits' /\ CadenceFits' /\ OnAir'
    BY <1>2 DEF IInv, ConnectionFits, CadenceFits, OnAir, cadence, main, pairingOpen
  <1> QED
    BY <1>1, <1>2, <1>7, <1>8 DEF IInv, cadence

\* The bond a phone gets finds its place, by room or by eviction.
LEMMA BondIsStored ==
  ASSUME IInv, NEW evicted \in Phone, StoreBond(evicted), peer \in Phone,
         peer \in bonds \/ RoomForBond \/ evicted \in bonds
  PROVE  IsFiniteSet(bonds') /\ Cardinality(bonds') <= MaxBonds /\ bonds' \subseteq Phone
  <1>1. /\ IsFiniteSet(bonds) /\ Cardinality(bonds) <= MaxBonds /\ bonds \subseteq Phone
        /\ Cardinality(bonds) \in Nat
    BY FS_CardinalityType DEF IInv, BondsFit, TypeOK
  <1>2. bonds' \subseteq Phone
    BY <1>1 DEF StoreBond
  <1>3. CASE peer \in bonds
    <2>1. bonds' = bonds
      BY <1>3 DEF StoreBond
    <2> QED
      BY <2>1, <1>1
  <1>4. CASE peer \notin bonds /\ RoomForBond
    <2>1. bonds' = bonds \union {peer}
      BY <1>4 DEF StoreBond
    <2>2. IsFiniteSet(bonds') /\ Cardinality(bonds') = Cardinality(bonds) + 1
      BY <1>1, <1>4, <2>1, FS_AddElement
    <2> QED
      BY <1>1, <1>2, <1>4, <2>2, Limits DEF RoomForBond
  <1>5. CASE peer \notin bonds /\ ~RoomForBond
    <2> DEFINE rest == bonds \ {evicted}
    <2>1. evicted \in bonds /\ bonds' = rest \union {peer} /\ peer \notin rest
      BY <1>5 DEF StoreBond
    <2>2. IsFiniteSet(rest) /\ Cardinality(rest) = Cardinality(bonds) - 1
      BY <1>1, <2>1, FS_RemoveElement
    <2> HIDE DEF rest
    <2>3. IsFiniteSet(bonds') /\ Cardinality(bonds') = Cardinality(rest) + 1
      BY <2>1, <2>2, FS_AddElement
    <2> QED
      BY <1>1, <1>2, <2>2, <2>3
  <1> QED
    BY <1>3, <1>4, <1>5

LEMMA onAuthenticationCompleteFits ==
  ASSUME IInv, NEW paired \in BOOLEAN, NEW evicted \in Phone, NEW ok \in BOOLEAN,
         onAuthenticationComplete(paired, evicted, ok)
  PROVE  IInv'
  <1>1. /\ link = "plain" /\ hostPc = "idle" /\ activeConnectionBonded' \in BOOLEAN
        /\ UNCHANGED <<peer, adv, intervals, failures, connectionCount, hostPc, bootAge,
                       cadence, recovery, main, history>>
        /\ link' \in {"plain", "bonded", "closing"}
        /\ requestSync \/ UNCHANGED request
    BY DEF onAuthenticationComplete, disconnect
  <1>2. peer \in Phone
    BY <1>1 DEF IInv, TypeOK
  <1>3. BondsFit' /\ bonds' \subseteq Phone
    <2>1. CASE paired
      <3>1. IsFiniteSet(bonds') /\ Cardinality(bonds') <= MaxBonds /\ bonds' \subseteq Phone
        BY <1>2, <2>1, BondIsStored DEF onAuthenticationComplete
      <3>2. link' = "bonded"
        BY <2>1 DEF onAuthenticationComplete
      <3> QED
        BY <3>1, <3>2 DEF BondsFit
    <2>2. CASE ~paired
      <3>1. bonds' = bonds
        BY <2>2 DEF onAuthenticationComplete
      <3> QED
        BY <1>1, <3>1 DEF IInv, BondsFit, TypeOK, history
    <2> QED
      BY <2>1, <2>2
  <1>4. TypeOK'
    BY <1>1, <1>3, RequestTyped
       DEF IInv, TypeOK, cadence, recovery, request, main, history
  <1>5. ConnectionFits' /\ CadenceFits' /\ OnAir'
    BY <1>1 DEF IInv, ConnectionFits, CadenceFits, OnAir, cadence, main, history, pairingOpen
  <1> QED
    BY <1>1, <1>3, <1>4, <1>5 DEF IInv, cadence, history

LEMMA PhoneAsks ==
  ASSUME IInv, onStatusSubscribe \/ onTimeWrite
  PROVE  IInv'
  <1>1. /\ syncRequestPending' \in BOOLEAN /\ syncRequestRetries' \in 0..MaxRetries
        /\ requestAge' \in 0..(ResyncAfter + 1)
        /\ UNCHANGED <<stack, bonds, host, bootAge, cadence, recovery, main, history>>
    BY RequestTyped DEF onStatusSubscribe, onTimeWrite, IInv, TypeOK
  <1>2. lag \in 0..1 /\ loaded \in 0..MaxRetries /\ (mainPc = "repeat" => loaded < MaxRetries)
    BY DEF IInv, TypeOK, CadenceFits
  <1> QED
    BY <1>1, <1>2, RequestsAside DEF main

LEMMA PhoneLeavesFits ==
  ASSUME IInv, PhoneLeaves
  PROVE  IInv'
  BY Limits DEF PhoneLeaves, IInv, TypeOK, ConnectionFits, CadenceFits, OnAir, BondsFit,
     cadence, recovery, request, main, history, pairingOpen

LEMMA onDisconnectFits ==
  ASSUME IInv, onDisconnect
  PROVE  IInv'
  <1>1. connectionCount = 1 /\ link \notin {"plain", "bonded", "closing"}
    BY DEF onDisconnect, IInv, ConnectionFits
  <1>2. connectionCount' \in 0..1
    BY <1>1 DEF onDisconnect
  <1>3. activeConnectionBonded' \in BOOLEAN /\ syncRequestPending' \in BOOLEAN
    BY DEF onDisconnect
  <1>4. TypeOK'
    BY <1>2, <1>3 DEF onDisconnect, IInv, TypeOK, stack, cadence, recovery, main, history
  <1>5. ConnectionFits' /\ CadenceFits' /\ OnAir' /\ BondsFit'
    BY <1>1 DEF onDisconnect, IInv, ConnectionFits, CadenceFits, OnAir, BondsFit, stack,
       cadence, main, history, pairingOpen
  <1> QED
    BY <1>4, <1>5 DEF onDisconnect, IInv, stack, cadence, history

LEMMA DisconnectDecideFits ==
  ASSUME IInv, DisconnectDecide
  PROVE  IInv'
  BY Limits DEF DisconnectDecide, MainWillRestart, IInv, TypeOK, ConnectionFits, CadenceFits,
     OnAir, BondsFit, stack, cadence, recovery, request, main, history, pairingOpen, advertising

LEMMA DisconnectRestartFits ==
  ASSUME IInv, NEW ok \in BOOLEAN, DisconnectRestart(ok)
  PROVE  IInv'
  <1>1. /\ adv' \in {"off", "fast", "slow"} /\ failures' \in 0..MaxFailures
        /\ adv' = adv \/ adv' = intervals
        /\ link = "none" => adv' # "off" \/ failures' > 0
    BY StartAdvertising DEF DisconnectRestart, IInv
  <1> QED
    BY <1>1, Limits DEF DisconnectRestart, startAdvertising, IInv, TypeOK, ConnectionFits,
       CadenceFits, OnAir, BondsFit, cadence, request, main, pairingOpen, advertising

----------------------------------------------------------------------------
(* The main task                                                           *)

LEMMA TickBeginFits ==
  ASSUME IInv, TickBegin
  PROVE  IInv'
  BY Limits DEF TickBegin, GoMain, IInv, TypeOK, ConnectionFits, CadenceFits, OnAir, BondsFit,
     stack, host, cadence, recovery, request, history, pairingOpen, advertising

LEMMA TickStopFits ==
  ASSUME IInv, NEW ok \in BOOLEAN, TickStop(ok)
  PROVE  IInv'
  BY Limits DEF TickStop, GoMain, IInv, TypeOK, ConnectionFits, CadenceFits, OnAir, BondsFit,
     host, cadence, recovery, request, history, pairingOpen, advertising

LEMMA TickSlowFits ==
  ASSUME IInv, TickSlow
  PROVE  IInv'
  BY Limits DEF TickSlow, GoMain, IInv, TypeOK, ConnectionFits, CadenceFits, OnAir, BondsFit,
     host, cadence, recovery, request, history, pairingOpen, advertising

LEMMA TickStoreFits ==
  ASSUME IInv, TickStore
  PROVE  IInv'
  BY Limits DEF TickStore, GoMain, IInv, TypeOK, ConnectionFits, CadenceFits, OnAir, BondsFit,
     stack, host, recovery, request, history, pairingOpen, advertising

LEMMA TickStartFits ==
  ASSUME IInv, NEW ok \in BOOLEAN, TickStart(ok)
  PROVE  IInv'
  <1>1. CASE connected
    BY <1>1, Limits DEF TickStart, connected, GoMain, IInv, TypeOK, ConnectionFits,
       CadenceFits, OnAir, BondsFit, stack, host, recovery, request, history, pairingOpen,
       advertising
  <1>2. CASE ~connected
    <2>1. /\ adv' \in {"off", "fast", "slow"} /\ failures' \in 0..MaxFailures
          /\ adv' = adv \/ adv' = intervals
          /\ link = "none" => adv' # "off" \/ failures' > 0
          /\ UNCHANGED <<link, peer, intervals>>
      BY <1>2, StartAdvertising DEF TickStart, startAdvertising, IInv
    <2> QED
      BY <1>2, <2>1, Limits DEF TickStart, GoMain, IInv, TypeOK, ConnectionFits,
         CadenceFits, OnAir, BondsFit, host, recovery, request, history, pairingOpen,
         advertising
  <1> QED
    BY <1>1, <1>2

LEMMA TickRecoverFits ==
  ASSUME IInv, TickRecover
  PROVE  IInv'
  BY Limits DEF TickRecover, RecoveryIsDue, GoMain, IInv, TypeOK, ConnectionFits, CadenceFits,
     OnAir, BondsFit, stack, host, cadence, recovery, request, history, pairingOpen, advertising

LEMMA TickRestartFits ==
  ASSUME IInv, NEW ok \in BOOLEAN, TickRestart(ok)
  PROVE  IInv'
  <1>1. /\ adv' \in {"off", "fast", "slow"} /\ failures' \in 0..MaxFailures
        /\ adv' = adv \/ adv' = intervals
        /\ link = "none" => adv' # "off" \/ failures' > 0
        /\ UNCHANGED <<link, peer, intervals>>
    BY StartAdvertising DEF TickRestart, startAdvertising, IInv
  <1> QED
    BY <1>1, Limits DEF TickRestart, GoMain, IInv, TypeOK, ConnectionFits, CadenceFits,
       OnAir, BondsFit, host, cadence, request, history, pairingOpen, advertising

LEMMA TickRequestsFit ==
  ASSUME IInv, TickRequest \/ TickRetry \/ TickRepeat \/ TickGiveUp
               \/ \E ok \in BOOLEAN : LoopEnd(ok)
  PROVE  IInv'
  <1>1. /\ syncRequestPending \in BOOLEAN /\ syncRequestRetries \in 0..MaxRetries
        /\ requestAge \in 0..(ResyncAfter + 1) /\ lag \in 0..1 /\ loaded \in 0..MaxRetries
        /\ mainPc = "repeat" => loaded < MaxRetries
    BY DEF IInv, TypeOK, CadenceFits
  <1>2. CASE TickRequest
    BY <1>1, <1>2, RequestTyped, RequestsAside DEF TickRequest, GoMain, request
  <1>3. CASE TickRetry
    BY <1>1, <1>3, RequestsAside, Limits DEF TickRetry, request
  <1>4. CASE TickRepeat
    BY <1>1, <1>4, RequestsAside, Limits DEF TickRepeat, GoMain
  <1>5. CASE TickGiveUp
    BY <1>1, <1>5, RequestsAside DEF TickGiveUp, GoMain
  <1>6. ASSUME NEW ok \in BOOLEAN, LoopEnd(ok) PROVE IInv'
    BY <1>1, <1>6, RequestTyped, RequestsAside, Limits DEF LoopEnd, request
  <1> QED
    BY <1>2, <1>3, <1>4, <1>5, <1>6

LEMMA ElapseFits ==
  ASSUME IInv, Elapse
  PROVE  IInv'
  BY Limits DEF Elapse, Older, IInv, TypeOK, ConnectionFits, CadenceFits, OnAir, BondsFit,
     stack, host, cadence, history, pairingOpen, advertising

LEMMA RebootFits ==
  ASSUME IInv, NEW clearBonds \in BOOLEAN, NEW ok \in BOOLEAN, Reboot(clearBonds, ok)
  PROVE  IInv'
  <1>1. IsFiniteSet(bonds') /\ Cardinality(bonds') <= MaxBonds /\ bonds' \subseteq Phone
    BY FS_EmptySet, Limits DEF Reboot, IInv, BondsFit, TypeOK
  <1>2. failures' \in 0..MaxFailures /\ adv' \in {"off", "fast"}
        /\ (adv' = "off" => failures' > 0)
    BY Limits DEF Reboot, Boot, IInv, TypeOK
  <1>3. /\ connectionCount' \in 0..1 /\ bootAge' \in 0..Window
        /\ advertisingRecoveryAttempts' \in 0..MaxRecoveries
        /\ recoveryAge' \in 0..(RecoveryInterval + 1)
        /\ syncRequestRetries' \in 0..MaxRetries /\ requestAge' \in 0..(ResyncAfter + 1)
        /\ lag' \in 0..1 /\ loaded' \in 0..MaxRetries
    BY Limits DEF Reboot, Boot
  <1>4. /\ activeConnectionBonded' \in BOOLEAN /\ slowAdvertisingConfigured' \in BOOLEAN
        /\ pairingWindowStatusLogged' \in BOOLEAN /\ syncRequestPending' \in BOOLEAN
        /\ admitted' \in BOOLEAN /\ unwanted' \in BOOLEAN /\ straddled' \in BOOLEAN
    BY DEF Reboot, Boot
  <1>5. /\ link' = "none" /\ peer' = NoPhone /\ intervals' = "fast" /\ hostPc' = "idle"
        /\ mainPc' = "tick"
    BY DEF Reboot, Boot
  <1>6. TypeOK'
    BY <1>2, <1>1, <1>3, <1>4, <1>5 DEF TypeOK
  <1>7. ConnectionFits' /\ CadenceFits' /\ OnAir' /\ BondsFit'
    BY <1>2, <1>1 DEF Reboot, Boot, ConnectionFits, CadenceFits, OnAir, BondsFit, advertising
  <1> QED
    BY <1>6, <1>7 DEF IInv, Reboot, Boot

----------------------------------------------------------------------------
(* The properties                                                          *)

LEMMA InitFits == Init => IInv
  <1> SUFFICES ASSUME Init PROVE IInv
    OBVIOUS
  <1>1. /\ connectionCount \in 0..1 /\ bootAge \in 0..Window /\ failures \in 0..MaxFailures
        /\ advertisingRecoveryAttempts \in 0..MaxRecoveries
        /\ recoveryAge \in 0..(RecoveryInterval + 1)
        /\ syncRequestRetries \in 0..MaxRetries /\ requestAge \in 0..(ResyncAfter + 1)
        /\ lag \in 0..1 /\ loaded \in 0..MaxRetries
    BY Limits DEF Init
  <1>2. /\ activeConnectionBonded \in BOOLEAN /\ slowAdvertisingConfigured \in BOOLEAN
        /\ pairingWindowStatusLogged \in BOOLEAN /\ syncRequestPending \in BOOLEAN
        /\ admitted \in BOOLEAN /\ unwanted \in BOOLEAN /\ straddled \in BOOLEAN
    BY DEF Init
  <1>3. /\ link = "none" /\ peer = NoPhone /\ intervals = "fast" /\ hostPc = "idle"
        /\ mainPc = "tick" /\ adv \in {"fast", "off"} /\ bonds \subseteq Phone
    BY DEF Init
  <1>4. TypeOK
    BY <1>1, <1>2, <1>3 DEF TypeOK
  <1>5. ConnectionFits /\ CadenceFits /\ OnAir /\ BondsFit
    BY DEF Init, ConnectionFits, CadenceFits, OnAir, BondsFit, advertising
  <1> QED
    BY <1>4, <1>5 DEF IInv, Init

LEMMA NextFits == IInv /\ [Next]_vars => IInv'
  <1>1. ASSUME IInv, UNCHANGED vars PROVE IInv'
    BY <1>1 DEF vars, stack, host, cadence, recovery, request, main, history, IInv, TypeOK,
       ConnectionFits, CadenceFits, OnAir, BondsFit, pairingOpen, advertising
  <1>2. ASSUME IInv, Next PROVE IInv'
    BY <1>2, PhoneConnectsFits, onConnectFits, onAuthenticationCompleteFits, PhoneAsks,
       PhoneLeavesFits, onDisconnectFits, DisconnectDecideFits, DisconnectRestartFits,
       TickBeginFits, TickStopFits, TickSlowFits, TickStoreFits, TickStartFits,
       TickRecoverFits, TickRestartFits, TickRequestsFit, ElapseFits, RebootFits
       DEF Next, Phones, Callback, Main
  <1> QED
    BY <1>1, <1>2

\* The invariant the theorems below follow from.
THEOREM Invariance == Spec => []IInv
  BY InitFits, NextFits, PTL DEF Spec

\* With nobody connected the clock is on the air, unless NimBLE refused, or the main
\* task has the change of cadence to do: however the two tasks interleave.
THEOREM AdvertisingOwned == Spec => []AdvertisingIsOwned
  <1>1. IInv => AdvertisingIsOwned
    BY DEF IInv, OnAir, AdvertisingIsOwned
  <1> QED
    BY <1>1, Invariance, PTL

\* Only onAuthenticationComplete adds a bond, for a phone that was admitted in the window
\* and has a place, or for one that onConnect meant to disconnect and NimBLE kept; and
\* however late it comes and whoever gives way, the bond store keeps its limit.
THEOREM NewBondsAdmitted == Spec => NewBondsAreAdmitted
  <1> DEFINE A == ~(bonds' \subseteq bonds) =>
                    /\ unwanted \/ (admitted /\ bonds \subseteq bonds')
                    /\ bonds' \ bonds = {peer} /\ Cardinality(bonds') <= MaxBonds
  <1>1. ASSUME IInv, [Next]_vars
        PROVE  A \/ UNCHANGED vars
    <2>1. ASSUME NEW paired \in BOOLEAN, NEW evicted \in Phone, NEW ok \in BOOLEAN,
                 onAuthenticationComplete(paired, evicted, ok)
          PROVE  A
      <3>1. CASE paired /\ peer \notin bonds
        <4>1. StoreBond(evicted)
          BY <2>1, <3>1 DEF onAuthenticationComplete
        <4>2. bonds' \ bonds = {peer} /\ (RoomForBond => bonds \subseteq bonds')
          BY <4>1, <3>1 DEF StoreBond
        <4>3. unwanted \/ (admitted /\ RoomForBond)
          BY <1>1, <2>1, <3>1 DEF IInv, BondsFit, RoomForBond, onAuthenticationComplete
        <4>4. Cardinality(bonds') <= MaxBonds
          BY <1>1, <2>1, onAuthenticationCompleteFits DEF IInv, BondsFit
        <4> QED
          BY <4>2, <4>3, <4>4
      <3>2. CASE ~paired \/ peer \in bonds
        <4>1. bonds' = bonds
          BY <2>1, <3>2 DEF onAuthenticationComplete, StoreBond
        <4> QED
          BY <4>1
      <3> QED
        BY <3>1, <3>2
    <2>2. ASSUME NEW evicted \in Phone, NEW ok \in BOOLEAN, onConnect(evicted, ok)
          PROVE  A
      BY <2>2 DEF onConnect
    <2>3. ASSUME NEW clearBonds \in BOOLEAN, NEW ok \in BOOLEAN, Reboot(clearBonds, ok)
          PROVE  A
      BY <2>3 DEF Reboot
    <2>4. ASSUME bonds' = bonds PROVE A
      BY <2>4
    <2> HIDE DEF A
    <2>5. CASE Phones
      BY <2>1, <2>4, <2>5 DEF Phones, PhoneConnects, onStatusSubscribe, onTimeWrite, PhoneLeaves
    <2>6. CASE Callback
      BY <2>2, <2>4, <2>6 DEF Callback, onDisconnect, DisconnectDecide, DisconnectRestart
    <2>7. CASE Main
      BY <2>4, <2>7 DEF Main, TickBegin, TickSlow, TickStore, TickRecover, TickRequest,
         TickRetry, TickRepeat, TickGiveUp, TickStop, TickStart, TickRestart, LoopEnd
    <2>8. CASE Elapse
      BY <2>4, <2>8 DEF Elapse
    <2> QED
      BY <1>1, <2>3, <2>5, <2>6, <2>7, <2>8 DEF Next
  <1>2. IInv /\ [Next]_vars => [A]_vars
    BY <1>1
  <1> QED
    BY <1>2, Invariance, PTL DEF Spec, NewBondsAreAdmitted

=============================================================================
