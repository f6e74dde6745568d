-------------------------- MODULE TimeKeeperProofs --------------------------
(***************************************************************************)
(* Proofs about TimeKeeper, for every range of epochs, tolerance and       *)
(* offset range, with a power loss possible between any two writes: what   *)
(* the flash, the RTC and the RAM say of the trusted time agree, and the   *)
(* trust in flash is as atomic as DurableTrust promises.                   *)
(***************************************************************************)
EXTENDS TimeKeeper, TLAPS

\* begin() is past Load and the RAM still holds what it loaded.
Booting == phase \in {"migrate", "bootDrop", "rtc"}

\* apply() has accepted an update and not yet returned.
Applying == phase \in {"adjust", "save", "applyDrop", "confirm"}

\* What the RAM says of the tuple in flash, phase by phase.
RamAgrees ==
  /\ phase \in {"off", "load"} => ~hasConfirmedSync
  /\ Booting => RamTuple = DurableTuple /\ (hasConfirmedSync <=> DurableTuple # NoTrust)
  /\ Applying \/ phase \in {"migrate", "bootDrop"} => RamTuple \in Trust
  /\ phase = "migrate" => blob = Absent
  /\ phase \in {"bootDrop", "applyDrop"} => blob = RamTuple
  /\ phase = "restart" => DurableTuple = NoTrust
  /\ phase = "ready" /\ ~hasConfirmedSync => DurableTuple = NoTrust

\* The route in RAM may already have moved to BLE while a failed write left the
\* older one in flash; it never moves away from BLE.
RouteFollows ==
  phase = "ready" \/ Applying =>
    DurableTuple = NoTrust \/ syncRoute = DurableTuple.route \/ syncRoute = "kBle"

\* A fitted RTC shows the trusted time from the moment apply has set it.
RtcPaired ==
  /\ RtcAgreesWithClock
  /\ Applying => trustedNow = lastSyncUtc
  /\ Applying /\ phase # "adjust" /\ rtcFitted => rtcTime = trustedNow /\ ~rtcLostPower

IInv == TypeOK /\ RamAgrees /\ RouteFollows /\ RtcPaired

----------------------------------------------------------------------------
(* The tuples and the flash.                                               *)

USE EpochAssumption DEF EpochAssumption

\* No trusted tuple looks like an unconfirmed clock, nor like a key that is not there.
LEMMA TrustIsDistinct ==
  NoTrust \notin Trust /\ Absent \notin Trust /\ Corrupt \notin Trust /\ Absent # Corrupt
  <1>1. NoTrust \notin Trust
    BY DEF NoTrust, Trust, SyncRoute
  <1> QED
    BY <1>1, BlobAssumption DEF BlobAssumption

\* The four keys are fields of what they read as.
LEMMA KeyIsField ==
  ASSUME NEW n \in 0..3
  PROVE  LegacyKeys[n + 1] \in {"utc", "route", "offset", "confirmed"}
  <1>1. n = 0 \/ n = 1 \/ n = 2 \/ n = 3
    OBVIOUS
  <1> QED
    BY <1>1 DEF LegacyKeys

\* Removing a key leaves a record the old layout can read.
LEMMA RemovedKeyTyped ==
  ASSUME legacy \in Legacy, NEW key \in {"utc", "route", "offset", "confirmed"}
  PROVE  [legacy EXCEPT ![key] = NoLegacy[key]] \in Legacy
  <1> USE DEF Legacy, NoLegacy
  <1>1. NoLegacy \in Legacy
    BY DEF SyncRoute, DefaultOffset, Offset
  <1>2. CASE key = "utc"
    BY <1>1, <1>2
  <1>3. CASE key = "route"
    BY <1>1, <1>3
  <1>4. CASE key = "offset"
    BY <1>1, <1>4
  <1>5. CASE key = "confirmed"
    BY <1>1, <1>5
  <1> QED
    BY <1>2, <1>3, <1>4, <1>5

\* A legacy tuple that passes the check is a trusted tuple.
LEMMA ValidLegacyIsTrust ==
  ASSUME legacy \in Legacy, isValidPersistedSyncState(legacy)
  PROVE  LegacyTrust \in Trust
  BY DEF Legacy, isValidPersistedSyncState, LegacyTrust, Trust, Valid, isValidEpoch, Epoch,
         isValidSyncRouteValue, isValidUtcOffset, Offset

\* What the next boot recovers is a whole trusted tuple or nothing.
LEMMA DurableTyped ==
  ASSUME TypeOK
  PROVE  DurableTuple \in Trust \union {NoTrust}
  BY ValidLegacyIsTrust DEF TypeOK, DurableTuple

\* The recovered tuple depends on the flash alone.
LEMMA SameFlash ==
  ASSUME UNCHANGED <<blob, legacy>>
  PROVE  DurableTuple' = DurableTuple
  BY DEF DurableTuple, isValidPersistedSyncState, LegacyTrust, isValidSyncRouteValue,
         isValidUtcOffset, Valid, isValidEpoch

\* A decodable record hides the old keys.
LEMMA RecordWins ==
  /\ blob \in Trust => DurableTuple = blob
  /\ blob' \in Trust => DurableTuple' = blob'
  BY DEF DurableTuple

----------------------------------------------------------------------------
(* Type correctness.                                                       *)

\* All but the old keys.
LEMMA InitRest ==
  ASSUME Init, legacy \in Legacy
  PROVE  TypeOK
  <1>1. /\ phase \in Phase /\ blob \in Trust \union {Absent, Corrupt}
        /\ dropped \in 0..3 /\ dropped = 0
    BY DEF Init, Phase
  <1>2. rtcFitted \in BOOLEAN /\ rtcLostPower \in BOOLEAN /\ rtcTime \in 0..(MaxEpoch + 1)
    BY DEF Init
  <1>3. hasConfirmedSync \in BOOLEAN
    BY DEF Init
  <1>4. /\ syncRoute \in SyncRoute /\ utcOffsetMinutes \in Offset
        /\ lastSyncUtc \in Epoch \union {0} /\ trustedNow \in Epoch \union {0}
    BY DEF Init, SyncRoute, Offset, DefaultOffset
  <1> QED
    BY <1>1, <1>2, <1>3, <1>4 DEF TypeOK

LEMMA InitTyped == Init => TypeOK
  <1> SUFFICES ASSUME Init PROVE TypeOK
    OBVIOUS
  <1>1. CASE legacy = NoLegacy
    <2>1. legacy \in Legacy
      BY <1>1 DEF Legacy, NoLegacy, SyncRoute, Offset, DefaultOffset
    <2> QED
      BY <2>1, InitRest
  <1>2. ASSUME NEW route \in {"kBle", "kPortal"}, NEW confirmed \in BOOLEAN,
               legacy = [utc |-> MinEpoch, route |-> route, offset |-> MaxOffset,
                         confirmed |-> confirmed]
        PROVE  TypeOK
    <2>1. legacy \in Legacy
      BY <1>2 DEF Legacy, SyncRoute, Epoch, Offset
    <2> QED
      BY <2>1, InitRest
  <1> QED
    BY <1>1, <1>2 DEF Init

\* Setting the RAM from a typed tuple keeps its types.
LEMMA RamTyped ==
  ASSUME NEW tuple \in Trust \union {NoTrust}, NEW confirmed \in BOOLEAN,
         SetRam(tuple, confirmed)
  PROVE  /\ hasConfirmedSync' \in BOOLEAN /\ syncRoute' \in SyncRoute
         /\ utcOffsetMinutes' \in Offset /\ lastSyncUtc' \in Epoch \union {0}
  BY DEF SetRam, Trust, NoTrust, SyncRoute, Offset, Epoch, DefaultOffset

LEMMA NextTyped ==
  ASSUME IInv, [Next]_vars
  PROVE  TypeOK'
  <1> USE DEF Phase
  <1> TypeOK /\ RamAgrees
    BY DEF IInv
  <1>1. CASE PowerOn
    BY <1>1 DEF PowerOn, TypeOK, flashVars, rtcVars, ramVars
  <1>2. CASE Load
    <2>1. \E tuple \in Trust \union {NoTrust}, confirmed \in BOOLEAN : SetRam(tuple, confirmed)
      BY <1>2, ValidLegacyIsTrust DEF Load, TypeOK
    <2> QED
      BY <1>2, <2>1, RamTyped DEF Load, TypeOK, flashVars, rtcVars
  <1>3. CASE ReadRtc
    BY <1>3 DEF ReadRtc, TypeOK, flashVars, rtcVars, Valid, isValidEpoch, Epoch
  <1>4. ASSUME NEW written \in BOOLEAN, MigrateSave(written)
        PROVE  TypeOK'
    BY <1>4 DEF MigrateSave, TypeOK, RamAgrees, rtcVars, ramVars
  <1>5. ASSUME NEW written \in BOOLEAN, SaveRecord(written)
        PROVE  TypeOK'
    BY <1>5 DEF SaveRecord, TypeOK, RamAgrees, Applying, rtcVars, ramVars
  <1>6. CASE DropLegacy
    <2>1. legacy' \in Legacy
      BY <1>6, KeyIsField, RemovedKeyTyped DEF DropLegacy, TypeOK
    <2>2. /\ phase' \in Phase /\ dropped' \in 0..3
          /\ phase' \notin {"bootDrop", "applyDrop"} => dropped' = 0
      BY <1>6 DEF DropLegacy, TypeOK
    <2> QED
      BY <1>6, <2>1, <2>2 DEF DropLegacy, TypeOK, rtcVars, ramVars
  <1>7. ASSUME NEW update \in Updates, ApplyAccepted(update)
        PROVE  TypeOK'
    <2>1. /\ update.utc \in Epoch /\ update.offset \in Offset
          /\ update.source \in TimeSource \ {"kRtc"}
      BY <1>7 DEF ApplyAccepted, Accepts, Updates, Valid, isValidEpoch, isValidUtcOffset,
                  Epoch, Offset
    <2>2. syncRoute' \in SyncRoute
      BY <1>7, <2>1 DEF ApplyAccepted, TypeOK, SelectedRoute, syncRouteForSource, TimeSource,
                        SyncRoute
    <2> QED
      BY <1>7, <2>1, <2>2 DEF ApplyAccepted, TypeOK, flashVars, rtcVars
  <1>8. CASE AdjustRtc
    <2>1. rtcTime' \in 0..(MaxEpoch + 1)
      BY <1>8 DEF AdjustRtc, TypeOK, Epoch
    <2>2. rtcFitted' \in BOOLEAN /\ rtcLostPower' \in BOOLEAN
      BY <1>8 DEF AdjustRtc, TypeOK
    <2> QED
      BY <1>8, <2>1, <2>2 DEF AdjustRtc, TypeOK, flashVars, ramVars
  <1>9. CASE Confirm
    BY <1>9 DEF Confirm, TypeOK, flashVars, rtcVars
  <1>10. CASE clearSyncTrust
    <2>1. legacy' \in Legacy
      BY <1>10 DEF clearSyncTrust, Legacy, NoLegacy, SyncRoute, Epoch, Offset, DefaultOffset
    <2> QED
      BY <1>10, <2>1, RamTyped DEF clearSyncTrust, TypeOK, rtcVars
  <1>11. CASE PowerLoss
    <2>1. /\ hasConfirmedSync' \in BOOLEAN /\ syncRoute' \in SyncRoute
          /\ utcOffsetMinutes' \in Offset /\ lastSyncUtc' \in Epoch \union {0}
      BY <1>11, RamTyped DEF PowerLoss
    <2> QED
      BY <1>11, <2>1 DEF PowerLoss, TypeOK, rtcVars
  <1>12. CASE RtcPowerLoss
    <2>1. rtcLostPower' \in BOOLEAN
      BY <1>12 DEF RtcPowerLoss
    <2> QED
      BY <1>12, <2>1 DEF RtcPowerLoss, TypeOK, flashVars, ramVars
  <1>13. CASE BlobDamage
    BY <1>13 DEF BlobDamage, TypeOK, rtcVars, ramVars
  <1>14. CASE Elapse
    BY <1>14 DEF Elapse, TypeOK, flashVars, Epoch
  <1>15. CASE UNCHANGED vars
    BY <1>15 DEF vars, TypeOK, flashVars, rtcVars, ramVars
  <1> QED
    BY <1>1, <1>2, <1>3, <1>4, <1>5, <1>6, <1>7, <1>8, <1>9, <1>10, <1>11, <1>12, <1>13,
       <1>14, <1>15 DEF Next

----------------------------------------------------------------------------
(* What each step does to the tuple in flash.                              *)

\* Recovery leaves nothing to recover.
LEMMA ClearForgets ==
  ASSUME clearSyncTrust
  PROVE  DurableTuple' = NoTrust
  <1>1. ~isValidPersistedSyncState(legacy')
    BY DEF clearSyncTrust, NoLegacy, isValidPersistedSyncState
  <1> QED
    BY <1>1, TrustIsDistinct DEF clearSyncTrust, DurableTuple, isValidPersistedSyncState,
       isValidSyncRouteValue, isValidUtcOffset, Valid, isValidEpoch

\* Nobody but the two writes, recovery and damage changes the recoverable tuple:
\* migrating the old keys and removing them does not.
LEMMA DurableStep ==
  ASSUME IInv, [Next]_vars
  PROVE  \/ DurableTuple' = DurableTuple
         \/ phase = "save" /\ phase' = "applyDrop" /\ DurableTuple' = RamTuple
         \/ DurableTuple' = NoTrust /\ (clearSyncTrust \/ BlobDamage)
  <1> TypeOK /\ RamAgrees
    BY DEF IInv
  <1>1. CASE PowerOn \/ Load \/ ReadRtc \/ AdjustRtc \/ Confirm \/ PowerLoss \/ RtcPowerLoss
             \/ Elapse \/ UNCHANGED vars
    BY <1>1, SameFlash DEF PowerOn, Load, ReadRtc, AdjustRtc, Confirm, PowerLoss, RtcPowerLoss,
                           Elapse, vars, flashVars
  <1>2. ASSUME NEW written \in BOOLEAN, MigrateSave(written)
        PROVE  DurableTuple' = DurableTuple
    <2>1. RamTuple \in Trust /\ RamTuple = DurableTuple
      BY <1>2 DEF MigrateSave, RamAgrees, Booting
    <2> QED
      BY <1>2, <2>1, RecordWins, SameFlash DEF MigrateSave
  <1>3. CASE DropLegacy
    <2>1. blob \in Trust /\ blob' = blob
      BY <1>3 DEF DropLegacy, RamAgrees, Applying
    <2> QED
      BY <2>1, RecordWins
  <1>4. ASSUME NEW update \in Updates, ApplyAccepted(update)
        PROVE  DurableTuple' = DurableTuple
    BY <1>4, SameFlash DEF ApplyAccepted, flashVars
  <1>5. ASSUME NEW written \in BOOLEAN, SaveRecord(written)
        PROVE  \/ DurableTuple' = DurableTuple
               \/ phase = "save" /\ phase' = "applyDrop" /\ DurableTuple' = RamTuple
    <2>1. RamTuple \in Trust
      BY <1>5 DEF SaveRecord, RamAgrees, Applying
    <2> QED
      BY <1>5, <2>1, RecordWins, SameFlash DEF SaveRecord
  <1>6. CASE clearSyncTrust
    BY <1>6, ClearForgets
  <1>7. CASE BlobDamage
    BY <1>7, TrustIsDistinct DEF BlobDamage, DurableTuple
  <1> QED
    BY <1>1, <1>2, <1>3, <1>4, <1>5, <1>6, <1>7 DEF Next

----------------------------------------------------------------------------
(* RAM, flash and RTC agree.                                               *)

LEMMA NextRamAgrees ==
  ASSUME IInv, [Next]_vars
  PROVE  RamAgrees'
  <1> USE DEF RamAgrees, Booting, Applying
  <1> TypeOK /\ RamAgrees
    BY DEF IInv
  <1> DEFINE SameRam == UNCHANGED <<RamTuple, hasConfirmedSync>>
  <1>1. CASE PowerOn
    BY <1>1 DEF PowerOn, ramVars
  <1>2. CASE Load
    <2>1. DurableTuple' = DurableTuple /\ blob' = blob
      BY <1>2, SameFlash DEF Load, flashVars
    <2>2. CASE blob \in Trust
      <3>1. RamTuple' = blob /\ hasConfirmedSync' /\ phase' = "rtc"
        BY <1>2, <2>2 DEF Load, SetRam, RamTuple, Trust
      <3> QED
        BY <2>1, <2>2, <3>1, RecordWins, TrustIsDistinct
    <2>3. CASE blob \notin Trust /\ blob = Absent /\ isValidPersistedSyncState(legacy)
      <3>1. RamTuple' = LegacyTrust /\ hasConfirmedSync' /\ phase' = "migrate"
        BY <1>2, <2>3 DEF Load, SetRam, RamTuple, LegacyTrust
      <3>2. LegacyTrust \in Trust /\ DurableTuple = LegacyTrust
        BY <2>3, ValidLegacyIsTrust DEF DurableTuple, TypeOK
      <3> QED
        BY <2>1, <2>3, <3>1, <3>2, TrustIsDistinct
    <2>4. CASE blob \notin Trust /\ ~(blob = Absent /\ isValidPersistedSyncState(legacy))
      <3>1. RamTuple' = NoTrust /\ ~hasConfirmedSync' /\ phase' = "rtc"
        BY <1>2, <2>4 DEF Load, SetRam, RamTuple, NoTrust
      <3>2. DurableTuple = NoTrust
        BY <2>4 DEF DurableTuple
      <3> QED
        BY <2>1, <3>1, <3>2
    <2> QED
      BY <2>2, <2>3, <2>4
  <1>3. CASE ReadRtc
    <2>1. DurableTuple' = DurableTuple /\ SameRam
      BY <1>3, SameFlash DEF ReadRtc, flashVars, RamTuple
    <2> QED
      BY <1>3, <2>1 DEF ReadRtc
  <1>4. ASSUME NEW written \in BOOLEAN, MigrateSave(written)
        PROVE  RamAgrees'
    <2>1. DurableTuple' = DurableTuple
      BY <1>4, DurableStep DEF Next, MigrateSave, clearSyncTrust, BlobDamage
    <2>2. SameRam
      BY <1>4 DEF MigrateSave, ramVars, RamTuple
    <2> QED
      BY <1>4, <2>1, <2>2 DEF MigrateSave
  <1>5. CASE DropLegacy
    <2>1. DurableTuple' = DurableTuple
      BY <1>5, DurableStep DEF Next, DropLegacy, clearSyncTrust, BlobDamage
    <2>2. SameRam
      BY <1>5 DEF DropLegacy, ramVars, RamTuple
    <2>3. blob \in Trust /\ DurableTuple = blob
      BY <1>5, RecordWins DEF DropLegacy
    <2> QED
      BY <1>5, <2>1, <2>2, <2>3, TrustIsDistinct DEF DropLegacy
  <1>6. ASSUME NEW update \in Updates, ApplyAccepted(update)
        PROVE  RamAgrees'
    <2>1. /\ update.utc \in Epoch /\ update.offset \in Offset
          /\ update.source \in TimeSource \ {"kRtc"}
      BY <1>6 DEF ApplyAccepted, Accepts, Updates, Valid, isValidEpoch, isValidUtcOffset,
                  Epoch, Offset
    <2>2. syncRoute' \in SyncRoute \ {"kUnselected"}
      BY <1>6, <2>1 DEF ApplyAccepted, TypeOK, SelectedRoute, syncRouteForSource, TimeSource,
                        SyncRoute
    <2>3. RamTuple' \in Trust
      BY <1>6, <2>1, <2>2 DEF ApplyAccepted, RamTuple, Trust
    <2> QED
      BY <1>6, <2>3 DEF ApplyAccepted
  <1>7. CASE AdjustRtc
    BY <1>7 DEF AdjustRtc, ramVars, RamTuple
  <1>8. ASSUME NEW written \in BOOLEAN, SaveRecord(written)
        PROVE  RamAgrees'
    <2>1. SameRam
      BY <1>8 DEF SaveRecord, ramVars, RamTuple
    <2> QED
      BY <1>8, <2>1 DEF SaveRecord
  <1>9. CASE Confirm
    BY <1>9 DEF Confirm
  <1>10. CASE clearSyncTrust
    BY <1>10, ClearForgets DEF clearSyncTrust, SetRam
  <1>11. CASE PowerLoss
    BY <1>11 DEF PowerLoss, SetRam
  <1>12. CASE RtcPowerLoss \/ BlobDamage
    BY <1>12 DEF RtcPowerLoss, BlobDamage, ramVars
  <1>13. CASE Elapse \/ UNCHANGED vars
    <2>1. DurableTuple' = DurableTuple /\ SameRam /\ UNCHANGED <<phase, blob>>
      BY <1>13, SameFlash DEF Elapse, vars, flashVars, ramVars, RamTuple
    <2> QED
      BY <2>1
  <1> QED
    BY <1>1, <1>2, <1>3, <1>4, <1>5, <1>6, <1>7, <1>8, <1>9, <1>10, <1>11, <1>12, <1>13
       DEF Next

\* The route in RAM and the one in flash.
LEMMA NextRouteFollows ==
  ASSUME IInv, [Next]_vars
  PROVE  RouteFollows'
  <1> USE DEF RouteFollows, Applying
  <1> TypeOK /\ RamAgrees /\ RouteFollows
    BY DEF IInv
  <1>1. CASE PowerOn \/ Load \/ clearSyncTrust \/ PowerLoss \/ RtcPowerLoss \/ BlobDamage
    BY <1>1 DEF PowerOn, Load, clearSyncTrust, PowerLoss, RtcPowerLoss, BlobDamage
  <1>2. CASE ReadRtc
    <2>1. DurableTuple' = DurableTuple /\ syncRoute' = syncRoute
      BY <1>2, SameFlash DEF ReadRtc, flashVars
    <2> QED
      BY <1>2, <2>1 DEF ReadRtc, RamAgrees, Booting, RamTuple
  <1>3. CASE AdjustRtc \/ Confirm \/ Elapse \/ UNCHANGED vars
    <2>1. DurableTuple' = DurableTuple /\ syncRoute' = syncRoute
      BY <1>3, SameFlash DEF AdjustRtc, Confirm, Elapse, vars, flashVars, ramVars
    <2> QED
      BY <1>3, <2>1 DEF AdjustRtc, Confirm, Elapse, vars
  <1>4. CASE DropLegacy
    <2>1. blob \in Trust /\ blob' = blob /\ syncRoute' = syncRoute
      BY <1>4 DEF DropLegacy, RamAgrees, ramVars
    <2> QED
      BY <1>4, <2>1, RecordWins DEF DropLegacy
  <1>5. ASSUME NEW written \in BOOLEAN, MigrateSave(written) \/ SaveRecord(written)
        PROVE  RouteFollows'
    <2>1. CASE MigrateSave(written)
      BY <2>1 DEF MigrateSave
    <2>2. CASE SaveRecord(written) /\ written
      <3>1. RamTuple \in Trust /\ blob' = RamTuple /\ syncRoute' = syncRoute
        BY <2>2 DEF SaveRecord, RamAgrees, ramVars
      <3>2. DurableTuple'.route = syncRoute'
        BY <3>1, RecordWins DEF RamTuple
      <3> QED
        BY <3>2
    <2>3. CASE SaveRecord(written) /\ ~written
      <3>1. DurableTuple' = DurableTuple /\ syncRoute' = syncRoute
        BY <2>3, SameFlash DEF SaveRecord, ramVars
      <3> QED
        BY <2>3, <3>1 DEF SaveRecord
    <2> QED
      BY <1>5, <2>1, <2>2, <2>3
  <1>6. ASSUME NEW update \in Updates, ApplyAccepted(update)
        PROVE  RouteFollows'
    <2>1. DurableTuple' = DurableTuple
      BY <1>6, SameFlash DEF ApplyAccepted, flashVars
    <2>2. DurableTuple # NoTrust => DurableTuple.route # "kUnselected"
      BY DurableTyped DEF Trust
    <2>3. syncRoute' = syncRoute \/ syncRoute' = "kBle" \/ syncRoute = "kUnselected"
      BY <1>6 DEF ApplyAccepted, SelectedRoute
    <2> QED
      BY <1>6, <2>1, <2>2, <2>3 DEF ApplyAccepted
  <1> QED
    BY <1>1, <1>2, <1>3, <1>4, <1>5, <1>6 DEF Next

\* The trusted time and the fitted RTC.
LEMMA NextRtcPaired ==
  ASSUME IInv, [Next]_vars
  PROVE  RtcPaired'
  <1> USE DEF RtcPaired, RtcAgreesWithClock, Applying
  <1> TypeOK /\ RtcPaired
    BY DEF IInv
  <1>1. CASE PowerOn \/ Load \/ clearSyncTrust \/ PowerLoss \/ RtcPowerLoss \/ BlobDamage
    BY <1>1 DEF PowerOn, Load, clearSyncTrust, PowerLoss, RtcPowerLoss, BlobDamage
  <1>2. CASE ReadRtc
    BY <1>2 DEF ReadRtc, rtcVars
  <1>3. CASE DropLegacy
    BY <1>3 DEF DropLegacy, rtcVars, ramVars
  <1>4. ASSUME NEW written \in BOOLEAN, MigrateSave(written) \/ SaveRecord(written)
        PROVE  RtcPaired'
    BY <1>4 DEF MigrateSave, SaveRecord, rtcVars, ramVars
  <1>5. ASSUME NEW update \in Updates, ApplyAccepted(update)
        PROVE  RtcPaired'
    BY <1>5 DEF ApplyAccepted, rtcVars
  <1>6. CASE AdjustRtc
    BY <1>6 DEF AdjustRtc, ramVars
  <1>7. CASE Confirm
    BY <1>7 DEF Confirm, rtcVars
  <1>8. CASE Elapse
    BY <1>8 DEF Elapse, TypeOK
  <1>9. CASE UNCHANGED vars
    BY <1>9 DEF vars, rtcVars, ramVars
  <1> QED
    BY <1>1, <1>2, <1>3, <1>4, <1>5, <1>6, <1>7, <1>8, <1>9 DEF Next

----------------------------------------------------------------------------
(* The theorems.                                                           *)

LEMMA InitInductive == Init => IInv
  BY InitTyped DEF Init, IInv, RamAgrees, RouteFollows, RtcPaired, RtcAgreesWithClock,
                   Booting, Applying

LEMMA NextInductive == IInv /\ [Next]_vars => IInv'
  BY NextTyped, NextRamAgrees, NextRouteFollows, NextRtcPaired DEF IInv

LEMMA Inductive == Spec => []IInv
  BY InitInductive, NextInductive, PTL DEF Spec

\* RAM, flash and RTC keep their types for every range of epochs and offsets.
THEOREM TypeCorrect == Spec => []TypeOK
  <1>1. IInv => TypeOK
    BY DEF IInv
  <1> QED
    BY <1>1, Inductive, PTL

\* A running clock that counts as unconfirmed has nothing a restart would bring back.
THEOREM Forgotten == Spec => []UnconfirmedMeansForgotten
  <1>1. IInv => UnconfirmedMeansForgotten
    BY DEF IInv, RamAgrees, UnconfirmedMeansForgotten
  <1> QED
    BY <1>1, Inductive, PTL

\* Between updates a clock that shows a time agrees with its fitted RTC.
THEOREM RtcAgrees == Spec => []RtcAgreesWithClock
  <1>1. IInv => RtcAgreesWithClock
    BY DEF IInv, RtcPaired
  <1> QED
    BY <1>1, Inductive, PTL

\* New trust becomes durable only when the fitted RTC shows its time.
THEOREM TrustPaired == Spec => TrustIsPairedWithRtc
  <1>1. ASSUME IInv, [Next]_vars, DurableTuple' # DurableTuple, DurableTuple' # NoTrust, rtcFitted
        PROVE  rtcTime = trustedNow /\ ~rtcLostPower
    BY <1>1, DurableStep DEF IInv, RtcPaired, Applying
  <1>2. IInv /\ [Next]_vars =>
          [DurableTuple' # DurableTuple /\ DurableTuple' # NoTrust /\ rtcFitted
             => rtcTime = trustedNow /\ ~rtcLostPower]_vars
    BY <1>1
  <1> QED
    BY <1>2, Inductive, PTL DEF Spec, TrustIsPairedWithRtc

\* begin() leaves the RAM with exactly the tuple in flash.
THEOREM BootRestores == Spec => BootRestoresTrust
  <1>1. ASSUME IInv, [Next]_vars, phase = "rtc", phase' = "ready"
        PROVE  /\ hasConfirmedSync' = (DurableTuple # NoTrust)
               /\ RamTuple' = DurableTuple
    <2>1. ReadRtc
      BY <1>1 DEF Next, PowerOn, Load, ReadRtc, MigrateSave, SaveRecord, DropLegacy,
                  ApplyAccepted, AdjustRtc, Confirm, clearSyncTrust, PowerLoss, RtcPowerLoss,
                  BlobDamage, Elapse, vars
    <2>2. RamTuple' = RamTuple /\ hasConfirmedSync' = hasConfirmedSync
      BY <2>1 DEF ReadRtc, RamTuple
    <2>3. RamTuple = DurableTuple /\ (hasConfirmedSync <=> DurableTuple # NoTrust)
      BY <1>1 DEF IInv, RamAgrees, Booting
    <2>4. hasConfirmedSync \in BOOLEAN
      BY <1>1 DEF IInv, TypeOK
    <2> QED
      BY <2>2, <2>3, <2>4
  <1>2. IInv /\ [Next]_vars =>
          [phase = "rtc" /\ phase' = "ready"
             => /\ hasConfirmedSync' = (DurableTuple # NoTrust)
                /\ RamTuple' = DurableTuple]_vars
    BY <1>1
  <1> QED
    BY <1>2, Inductive, PTL DEF Spec, BootRestoresTrust

----------------------------------------------------------------------------
(* TimeKeeper implements DurableTrust.                                     *)

LEMMA InitDurable == Init => Durable!Init
  <1> SUFFICES ASSUME Init PROVE Durable!Init
    OBVIOUS
  <1>1. DurableTuple \in Trust \union {NoTrust}
    BY InitTyped, DurableTyped
  <1>2. AcceptedTuple = NoTrust
    BY DEF Init, AcceptedTuple
  <1> QED
    BY <1>1, <1>2 DEF Durable!Init

\* Every step of begin, apply, recovery, power and flash is a step of the promise or
\* leaves it alone.
LEMMA NextDurable ==
  ASSUME IInv, [Next]_vars
  PROVE  [Durable!Next]_<<DurableTuple, AcceptedTuple>>
  <1> TypeOK /\ RamAgrees /\ RouteFollows
    BY DEF IInv
  <1> USE DEF AcceptedTuple
  <1>1. CASE PowerOn \/ Load \/ ReadRtc \/ Confirm \/ RtcPowerLoss \/ Elapse \/ AdjustRtc
             \/ UNCHANGED vars
    <2>1. DurableTuple' = DurableTuple
      BY <1>1, SameFlash DEF PowerOn, Load, ReadRtc, Confirm, RtcPowerLoss, Elapse, AdjustRtc,
                             vars, flashVars
    <2>2. AcceptedTuple' = AcceptedTuple
      BY <1>1 DEF PowerOn, Load, ReadRtc, Confirm, RtcPowerLoss, Elapse, AdjustRtc, vars,
                  ramVars, RamTuple
    <2> QED
      BY <2>1, <2>2
  <1>2. ASSUME NEW written \in BOOLEAN, MigrateSave(written) \/ DropLegacy
        PROVE  UNCHANGED <<DurableTuple, AcceptedTuple>>
    <2>1. DurableTuple' = DurableTuple
      BY <1>2, DurableStep DEF MigrateSave, DropLegacy, clearSyncTrust, BlobDamage
    <2> QED
      BY <1>2, <2>1 DEF MigrateSave, DropLegacy
  <1>3. ASSUME NEW update \in Updates, ApplyAccepted(update)
        PROVE  Durable!Next
    <2>1. DurableTuple' = DurableTuple /\ AcceptedTuple = NoTrust /\ AcceptedTuple' = RamTuple'
      BY <1>3, SameFlash DEF ApplyAccepted, flashVars
    <2>2. RamTuple' \in Trust
      BY <1>3, NextRamAgrees DEF Next, ApplyAccepted, RamAgrees, Applying
    <2>3. RouteFollows'
      BY <1>3, NextRouteFollows DEF Next
    <2>4. Durable!RouteMayFollow(DurableTuple, RamTuple')
      BY <1>3, <2>1, <2>3 DEF Durable!RouteMayFollow, RouteOfTuple, RouteFollows, Applying,
                              ApplyAccepted, RamTuple
    <2>5. Durable!Accept(RamTuple')
      BY <2>1, <2>4 DEF Durable!Accept
    <2> QED
      BY <2>2, <2>5 DEF Durable!Next
  <1>4. ASSUME NEW written \in BOOLEAN, SaveRecord(written)
        PROVE  Durable!Next
    <2>1. AcceptedTuple = RamTuple /\ RamTuple # NoTrust /\ AcceptedTuple' = NoTrust
      BY <1>4, TrustIsDistinct DEF SaveRecord, RamAgrees, Applying
    <2>2. CASE written
      <3>1. DurableTuple' = RamTuple
        BY <1>4, <2>2, RecordWins DEF SaveRecord, RamAgrees, Applying
      <3> QED
        BY <2>1, <3>1 DEF Durable!Next, Durable!Commit
    <2>3. CASE ~written
      <3>1. DurableTuple' = DurableTuple
        BY <1>4, <2>3, SameFlash DEF SaveRecord
      <3> QED
        BY <2>1, <3>1 DEF Durable!Next, Durable!Abandon
    <2> QED
      BY <2>2, <2>3
  <1>5. CASE clearSyncTrust \/ BlobDamage
    <2>1. DurableTuple' = NoTrust
      BY <1>5, ClearForgets, TrustIsDistinct DEF BlobDamage, DurableTuple
    <2>2. AcceptedTuple = NoTrust /\ AcceptedTuple' = NoTrust
      BY <1>5 DEF clearSyncTrust, BlobDamage
    <2> QED
      BY <2>1, <2>2 DEF Durable!Next, Durable!Forget
  <1>6. CASE PowerLoss
    <2>1. DurableTuple' = DurableTuple /\ AcceptedTuple' = NoTrust
      BY <1>6, SameFlash DEF PowerLoss
    <2> QED
      BY <2>1 DEF Durable!Next, Durable!Abandon
  <1> QED
    BY <1>1, <1>2, <1>3, <1>4, <1>5, <1>6 DEF Next

\* Through crashes, failing writes and the migration of the old keys, the trust in
\* flash changes only as a whole, to an accepted tuple or to nothing.
THEOREM ImplementsDurableTrust == Spec => DurableSpec
  BY InitDurable, NextDurable, Inductive, PTL DEF Spec, DurableSpec, Durable!Spec

=============================================================================
