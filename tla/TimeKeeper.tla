----------------------------- MODULE TimeKeeper -----------------------------
(***************************************************************************)
(* src/src/TimeKeeper.cpp: the trusted time in RAM, the trust record in    *)
(* flash (NVS) and the optional battery-backed RTC, with a power loss      *)
(* possible between any two writes.  A flash key is written atomically;    *)
(* the four keys of the layout before the record are separate writes.      *)
(*                                                                         *)
(* An absent legacy key reads as its default, so legacy is a record of     *)
(* what the four keys read as.  trustedNow is the extrapolation of         *)
(* correctionBaselineUtc_: 0 without a valid baseline, and advancing with  *)
(* time otherwise; it is what utcNow() returns.  An RTC is fitted or not,  *)
(* once and for all, and keeps time exactly.                               *)
(***************************************************************************)
EXTENDS ClockCore, Sequences

CONSTANTS MinEpoch, MaxEpoch,  \* kMinimumValidEpoch, kMaximumValidEpoch
          Tolerance,           \* the 300 s of isPlausibleCorrection
          MaxOffset,           \* the 14 h of isValidUtcOffset, in units
          Absent, Corrupt      \* sync-state: no such key; undecodable

ASSUME EpochAssumption ==
  /\ MinEpoch \in Nat \ {0} /\ MaxEpoch \in Nat /\ MinEpoch <= MaxEpoch
  /\ Tolerance \in Nat /\ MaxOffset \in Nat \ {0}

DefaultOffset == 0

\* MUTANT: one unit too many on the positive side.
OffsetOffByOne(offset) == offset \in -MaxOffset..(MaxOffset + 1)

isValidUtcOffset(offset) == offset \in -MaxOffset..MaxOffset

Valid(epoch) == isValidEpoch(MinEpoch, MaxEpoch, epoch)

Epoch  == MinEpoch..MaxEpoch
Offset == -MaxOffset..MaxOffset
Trust  == [utc : Epoch, route : SyncRoute \ {"kUnselected"}, offset : Offset]
NoTrust == [utc |-> 0, route |-> "kUnselected", offset |-> DefaultOffset]

ASSUME BlobAssumption ==
  Absent \notin Trust /\ Corrupt \notin Trust /\ Absent # Corrupt

VARIABLES
  phase,     \* where begin, apply or recovery is; "off" without power
  blob,      \* the sync-state key
  legacy,    \* what last-sync, sync-source, utc-offset and confirmed read as
  dropped,   \* how many of the legacy keys have been removed in this phase
  rtcFitted, rtcTime, rtcLostPower,
  hasConfirmedSync, syncRoute, utcOffsetMinutes, lastSyncUtc, trustedNow

flashVars == <<blob, legacy, dropped>>
rtcVars   == <<rtcFitted, rtcTime, rtcLostPower>>
ramVars   == <<hasConfirmedSync, syncRoute, utcOffsetMinutes, lastSyncUtc, trustedNow>>
vars == <<phase, flashVars, rtcVars, ramVars>>

Phase == {"off", "load", "migrate", "bootDrop", "rtc", "ready",
          "adjust", "save", "applyDrop", "confirm", "restart"}

Legacy == [utc : Epoch \union {0}, route : SyncRoute, offset : Offset, confirmed : BOOLEAN]

NoLegacy == [utc |-> 0, route |-> "kUnselected", offset |-> DefaultOffset,
             confirmed |-> FALSE]

TypeOK ==
  /\ phase \in Phase
  /\ blob \in Trust \union {Absent, Corrupt}
  /\ legacy \in Legacy
  /\ dropped \in 0..3 /\ (phase \notin {"bootDrop", "applyDrop"} => dropped = 0)
  /\ rtcFitted \in BOOLEAN /\ rtcLostPower \in BOOLEAN
  /\ rtcTime \in 0..(MaxEpoch + 1)
  /\ hasConfirmedSync \in BOOLEAN
  /\ syncRoute \in SyncRoute /\ utcOffsetMinutes \in Offset
  /\ lastSyncUtc \in Epoch \union {0} /\ trustedNow \in Epoch \union {0}

\* The legacy tuple passes isValidPersistedSyncState.
isValidPersistedSyncState(tuple) ==
  /\ tuple.confirmed
  /\ Valid(tuple.utc)
  /\ isValidSyncRouteValue(tuple.route)
  /\ isValidUtcOffset(tuple.offset)

LegacyTrust == [utc |-> legacy.utc, route |-> legacy.route, offset |-> legacy.offset]

RamTuple == [utc |-> lastSyncUtc, route |-> syncRoute, offset |-> utcOffsetMinutes]

SetRam(tuple, confirmed) ==
  /\ hasConfirmedSync' = confirmed
  /\ lastSyncUtc' = tuple.utc
  /\ syncRoute' = tuple.route
  /\ utcOffsetMinutes' = tuple.offset

Init ==
  /\ phase = "off"
  /\ blob \in {Absent, Corrupt}
  /\ \/ legacy = NoLegacy
     \/ \E route \in {"kBle", "kPortal"}, confirmed \in BOOLEAN :
          legacy = [utc |-> MinEpoch, route |-> route, offset |-> MaxOffset,
                    confirmed |-> confirmed]
  /\ dropped = 0
  /\ rtcFitted \in BOOLEAN /\ rtcTime = MinEpoch /\ rtcLostPower \in BOOLEAN
  /\ hasConfirmedSync = FALSE /\ syncRoute = "kUnselected"
  /\ utcOffsetMinutes = DefaultOffset /\ lastSyncUtc = 0 /\ trustedNow = 0

----------------------------------------------------------------------------
(* begin(): load the record, migrate the old keys once, read the RTC.      *)

PowerOn ==
  /\ phase = "off"
  /\ phase' = "load"
  /\ UNCHANGED <<flashVars, rtcVars, ramVars>>

\* MUTANT: an undecodable record lets the old keys be migrated again.
LoadReviving ==
  /\ phase = "load"
  /\ IF blob \in Trust
     THEN SetRam(blob, TRUE) /\ phase' = "rtc"
     ELSE IF isValidPersistedSyncState(legacy)
     THEN SetRam(LegacyTrust, TRUE) /\ phase' = "migrate"
     ELSE SetRam(NoTrust, FALSE) /\ phase' = "rtc"
  /\ UNCHANGED <<flashVars, rtcVars, trustedNow>>

\* MUTANT: a decoded record does not restore the offset.
LoadForgetsOffset ==
  /\ phase = "load"
  /\ IF blob \in Trust
     THEN SetRam([blob EXCEPT !.offset = DefaultOffset], TRUE) /\ phase' = "rtc"
     ELSE IF blob = Absent /\ isValidPersistedSyncState(legacy)
     THEN SetRam(LegacyTrust, TRUE) /\ phase' = "migrate"
     ELSE SetRam(NoTrust, FALSE) /\ phase' = "rtc"
  /\ UNCHANGED <<flashVars, rtcVars, trustedNow>>

\* A present but undecodable record fails closed.
Load ==
  /\ phase = "load"
  /\ IF blob \in Trust
     THEN SetRam(blob, TRUE) /\ phase' = "rtc"
     ELSE IF blob = Absent /\ isValidPersistedSyncState(legacy)
     THEN SetRam(LegacyTrust, TRUE) /\ phase' = "migrate"
     ELSE SetRam(NoTrust, FALSE) /\ phase' = "rtc"
  /\ UNCHANGED <<flashVars, rtcVars, trustedNow>>

\* putBytes may fail; the old keys are then kept for the next boot.
MigrateSave(written) ==
  /\ phase = "migrate"
  /\ IF written
     THEN blob' = RamTuple /\ phase' = "bootDrop"
     ELSE phase' = "rtc" /\ UNCHANGED blob
  /\ UNCHANGED <<legacy, dropped, rtcVars, ramVars>>

\* Both begin and apply remove the old keys in this order.
LegacyKeys == <<"utc", "route", "offset", "confirmed">>

DropLegacy ==
  /\ phase \in {"bootDrop", "applyDrop"}
  /\ LET key == LegacyKeys[dropped + 1]
     IN  legacy' = [legacy EXCEPT ![key] = NoLegacy[key]]
  /\ IF dropped < 3
     THEN dropped' = dropped + 1 /\ UNCHANGED phase
     ELSE dropped' = 0 /\ phase' = IF phase = "bootDrop" THEN "rtc" ELSE "confirm"
  /\ UNCHANGED <<blob, rtcVars, ramVars>>

\* MUTANT: the RTC is believed whether or not it has lost power.
ReadRtcBlindly ==
  /\ phase = "rtc"
  /\ trustedNow' = IF rtcFitted /\ Valid(rtcTime) THEN rtcTime ELSE 0
  /\ phase' = "ready"
  /\ UNCHANGED <<flashVars, rtcVars, hasConfirmedSync, syncRoute, utcOffsetMinutes,
                 lastSyncUtc>>

ReadRtc ==
  /\ phase = "rtc"
  /\ trustedNow' = IF rtcFitted /\ ~rtcLostPower /\ Valid(rtcTime) THEN rtcTime ELSE 0
  /\ phase' = "ready"
  /\ UNCHANGED <<flashVars, rtcVars, hasConfirmedSync, syncRoute, utcOffsetMinutes,
                 lastSyncUtc>>

----------------------------------------------------------------------------
(* apply(): one dequeued update.                                           *)

Accepts(update) ==
  /\ Valid(update.utc)
  /\ isValidUtcOffset(update.offset)
  /\ isAcceptableCorrection(MinEpoch, MaxEpoch, Tolerance,
                            hasConfirmedSync /\ Valid(trustedNow), trustedNow, update.utc)

\* An update that is not acceptable, or that settimeofday refuses, changes nothing.
ApplyAccepted(update) ==
  /\ phase = "ready"
  /\ Accepts(update)
  /\ trustedNow' = update.utc
  /\ utcOffsetMinutes' = update.offset
  /\ syncRoute' = SelectedRoute(syncRoute, update.source)
  /\ lastSyncUtc' = update.utc
  /\ phase' = IF rtcFitted THEN "adjust" ELSE "save"
  /\ UNCHANGED <<flashVars, rtcVars, hasConfirmedSync>>

\* MUTANT: the RTC is left to the next boot.
AdjustNothing ==
  /\ phase = "adjust"
  /\ phase' = "save"
  /\ UNCHANGED <<flashVars, rtcVars, ramVars>>

\* Setting the RTC also clears its lost-power flag.
AdjustRtc ==
  /\ phase = "adjust"
  /\ rtcTime' = lastSyncUtc
  /\ rtcLostPower' = FALSE
  /\ phase' = "save"
  /\ UNCHANGED <<flashVars, rtcFitted, ramVars>>

\* putBytes may fail; the old record then stays.
SaveRecord(written) ==
  /\ phase = "save"
  /\ IF written
     THEN blob' = RamTuple /\ phase' = "applyDrop"
     ELSE phase' = "confirm" /\ UNCHANGED blob
  /\ UNCHANGED <<legacy, dropped, rtcVars, ramVars>>

\* MUTANT: the first successful sync does not confirm the clock.
ConfirmNothing ==
  /\ phase = "confirm"
  /\ phase' = "ready"
  /\ UNCHANGED <<flashVars, rtcVars, ramVars>>

Confirm ==
  /\ phase = "confirm"
  /\ hasConfirmedSync' = TRUE
  /\ phase' = "ready"
  /\ UNCHANGED <<flashVars, rtcVars, syncRoute, utcOffsetMinutes, lastSyncUtc, trustedNow>>

----------------------------------------------------------------------------
(* Recovery, power and the flash.                                          *)

\* clearSyncTrust; main.cpp then clears the bonds and restarts.
clearSyncTrust ==
  /\ phase = "ready"
  /\ blob' = Absent /\ legacy' = NoLegacy
  /\ SetRam(NoTrust, FALSE) /\ trustedNow' = 0
  /\ phase' = "restart"
  /\ UNCHANGED <<dropped, rtcVars>>

PowerLoss ==
  /\ phase # "off"
  /\ phase' = "off" /\ dropped' = 0
  /\ SetRam(NoTrust, FALSE) /\ trustedNow' = 0
  /\ UNCHANGED <<blob, legacy, rtcVars>>

\* The RTC's battery runs out or is taken out.
RtcPowerLoss ==
  /\ phase = "off"
  /\ ~rtcLostPower
  /\ rtcLostPower' = TRUE
  /\ UNCHANGED <<phase, flashVars, rtcFitted, rtcTime, ramVars>>

\* Wear or a torn write makes the record undecodable.
BlobDamage ==
  /\ phase = "off"
  /\ blob \in Trust
  /\ blob' = Corrupt
  /\ UNCHANGED <<phase, legacy, dropped, rtcVars, ramVars>>

\* A unit of time, up to the end of the valid epochs; begin and apply take none.
Elapse ==
  /\ phase \in {"ready", "off"}
  /\ rtcTime <= MaxEpoch
  /\ rtcTime' = rtcTime + 1
  /\ trustedNow' = IF trustedNow \in MinEpoch..(MaxEpoch - 1) THEN trustedNow + 1 ELSE 0
  /\ UNCHANGED <<phase, flashVars, rtcFitted, rtcLostPower, hasConfirmedSync, syncRoute,
                 utcOffsetMinutes, lastSyncUtc>>

\* The updates offered to apply: just outside and inside what is valid.
Updates == [utc : (MinEpoch - 1)..(MaxEpoch + 1), offset : {DefaultOffset, MaxOffset, MaxOffset + 1},
            source : TimeSource \ {"kRtc"}]

Next ==
  \/ PowerOn \/ Load \/ ReadRtc
  \/ \E written \in BOOLEAN : MigrateSave(written) \/ SaveRecord(written)
  \/ DropLegacy
  \/ \E update \in Updates : ApplyAccepted(update)
  \/ AdjustRtc \/ Confirm
  \/ clearSyncTrust \/ PowerLoss \/ RtcPowerLoss \/ BlobDamage \/ Elapse

Spec == Init /\ [][Next]_vars

----------------------------------------------------------------------------
(* Properties                                                              *)

\* What the next begin() will recover from flash.
DurableTuple ==
  IF blob \in Trust THEN blob
  ELSE IF blob = Absent /\ isValidPersistedSyncState(legacy) THEN LegacyTrust
  ELSE NoTrust

AcceptedTuple == IF phase \in {"adjust", "save"} THEN RamTuple ELSE NoTrust

RouteOfTuple(tuple) == tuple.route

Durable == INSTANCE DurableTrust
  WITH Records <- Trust, RouteOf <- RouteOfTuple, trust <- DurableTuple,
       pending <- AcceptedTuple

\* Through crashes, failing writes and the migration of the old keys, the trust in
\* flash changes only to the whole tuple of an accepted update or to nothing, and
\* never leaves the BLE route.
DurableSpec == Durable!Spec

\* New trust becomes durable only once the fitted RTC shows the time that came with
\* it, so no boot pairs new trust with an old RTC (comment in apply).
TrustIsPairedWithRtc ==
  [][ DurableTuple' # DurableTuple /\ DurableTuple' # NoTrust /\ rtcFitted
        => rtcTime = trustedNow /\ ~rtcLostPower ]_vars

\* Between updates a clock that shows a time agrees with its fitted RTC: whatever
\* happens next, a restart shows the same time.
RtcAgreesWithClock ==
  phase = "ready" /\ trustedNow # 0 /\ rtcFitted => rtcTime = trustedNow /\ ~rtcLostPower

\* A running clock that counts as unconfirmed has nothing durable a restart would
\* bring back, so recovery cannot be undone by a restart.
UnconfirmedMeansForgotten ==
  phase \in {"ready", "restart"} /\ ~hasConfirmedSync => DurableTuple = NoTrust

\* begin() leaves the RAM with exactly the durable tuple, migrated or not.
BootRestoresTrust ==
  [][ phase = "rtc" /\ phase' = "ready"
        => /\ hasConfirmedSync' = (DurableTuple # NoTrust)
           /\ RamTuple' = DurableTuple ]_vars

=============================================================================
