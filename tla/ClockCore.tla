----------------------------- MODULE ClockCore -----------------------------
(***************************************************************************)
(* The side-effect free policies of ESPClock (src/src/ClockCore.cpp): how  *)
(* time sources outrank each other, which refresh route a source selects,  *)
(* which corrections are acceptable.  No state lives here; the component   *)
(* modules call these operators the way the C++ classes call namespace     *)
(* clockcore.                                                              *)
(***************************************************************************)
EXTENDS Integers

\* enum class TimeSource.  No producer ever enqueues kRtc.
TimeSource == {"kRtc", "kBle", "kPortal", "kNtp"}

\* enum class SyncRoute.
SyncRoute == {"kUnselected", "kBle", "kPortal", "kNtp"}

timeSourcePriority(source) ==
  CASE source = "kBle"    -> 3
    [] source = "kPortal" -> 2
    [] source = "kNtp"    -> 1
    [] OTHER              -> 0

(***************************************************************************)
(* Arbitration of the single pending-update slot.                          *)
(***************************************************************************)

\* MUTANT: the comparison is the wrong way round: a lower priority wins.
ReplaceOnlyLower(pending, pendingSource, incomingSource) ==
  ~pending \/ timeSourcePriority(incomingSource) <= timeSourcePriority(pendingSource)

shouldReplacePendingTimeUpdate(pending, pendingSource, incomingSource) ==
  ~pending \/ timeSourcePriority(incomingSource) >= timeSourcePriority(pendingSource)

\* MUTANT: an equal-priority update survives the one just applied.
DiscardOnlyStrictlyLower(pending, queuedSource, appliedSource) ==
  pending /\ timeSourcePriority(queuedSource) < timeSourcePriority(appliedSource)

shouldDiscardQueuedTimeUpdate(pending, queuedSource, appliedSource) ==
  pending /\ timeSourcePriority(queuedSource) <= timeSourcePriority(appliedSource)

(***************************************************************************)
(* Refresh routes.  Both TimeKeeper::apply and                             *)
(* NetworkTimeService::onExternalTimeSync select a route with the same     *)
(* condition: a BLE sync always wins, any other source only fills an       *)
(* unselected route.                                                       *)
(***************************************************************************)
syncRouteForSource(source) == IF source = "kRtc" THEN "kUnselected" ELSE source

SelectedRoute(route, source) ==
  IF syncRouteForSource(source) = "kBle" \/ route = "kUnselected"
  THEN syncRouteForSource(source)
  ELSE route

isValidSyncRouteValue(route) == route \in SyncRoute \ {"kUnselected"}

(***************************************************************************)
(* Epochs and corrections, over the range of valid epochs [lo, hi].        *)
(***************************************************************************)
isValidEpoch(lo, hi, epoch) == lo <= epoch /\ epoch <= hi

isPlausibleCorrection(lo, hi, tolerance, current, candidate) ==
  /\ isValidEpoch(lo, hi, candidate)
  /\ isValidEpoch(lo, hi, current) => candidate - current \in -tolerance..tolerance

isAcceptableCorrection(lo, hi, tolerance, confirmed, current, candidate) ==
  /\ isValidEpoch(lo, hi, candidate)
  /\ confirmed => isPlausibleCorrection(lo, hi, tolerance, current, candidate)

=============================================================================
