------------------------------ MODULE EspClock ------------------------------
(***************************************************************************)
(* The main loop of src/src/main.cpp around NetworkTimeService: what the   *)
(* clock does over a boot with the time updates of its three sources.      *)
(*                                                                         *)
(* Each pass takes the pending update, applies it, lets the service        *)
(* schedule the next refresh and drops what the update superseded; then it *)
(* ticks the service, which may start or end radio work and may enqueue an *)
(* update of its own.  The NimBLE host task enqueues BLE updates between   *)
(* any two of these steps (module TimeArbitration has that side in         *)
(* detail).  TimeKeeper may reject an update of a source in Rejectable     *)
(* once the clock is confirmed (module TimeKeeper).                        *)
(***************************************************************************)
EXTENDS NetworkTimeService

CONSTANT Rejectable

ASSUME RejectableAssumption == Rejectable \subseteq TimeSource

VARIABLES loop,     \* the next step of loop()
          cur,      \* the update it is applying
          rejecting \* whether this boot sees updates rejected at all

vars == <<slot, net, loop, cur, rejecting>>

TypeOK ==
  /\ SlotType /\ NetType
  /\ loop \in {"take", "apply", "tick"}
  /\ cur \in TimeSource \union {NoUpdate}
  /\ rejecting \in BOOLEAN

\* setup(): the clock boots unconfirmed, or on a durable route with any part of the
\* refresh interval left.
Init ==
  /\ slot = NoUpdate /\ loop = "take" /\ cur = NoUpdate
  /\ rejecting \in BOOLEAN
  /\ \/ net = begin(FALSE, "kUnselected", 0)
     \/ \E delay \in 0..BleResync : net = begin(TRUE, "kBle", delay)
     \/ \E route \in {"kPortal", "kNtp"}, delay \in 0..WifiResync :
          net = begin(TRUE, route, delay)

HostEnqueue ==
  /\ slot # "kBle"
  /\ enqueueTimeUpdate("kBle")
  /\ UNCHANGED <<net, loop, cur, rejecting>>

Take ==
  /\ loop = "take"
  /\ slot' = NoUpdate
  /\ cur' = slot
  /\ loop' = IF slot = NoUpdate THEN "tick" ELSE "apply"
  /\ UNCHANGED <<net, rejecting>>

Apply(accepts) ==
  /\ loop = "apply"
  /\ ~accepts => rejecting /\ cur \in Rejectable /\ net.confirmed
  /\ IF accepts
     THEN net' = onExternalTimeSync(net, cur) /\ discardSupersededTimeUpdate(cur)
     ELSE UNCHANGED <<net, slot>>
  /\ loop' = "tick" /\ cur' = NoUpdate
  /\ UNCHANGED rejecting

Tick ==
  /\ loop = "tick"
  /\ tick
  /\ loop' = "take"
  /\ UNCHANGED <<cur, rejecting>>

Callback == ntpCallback /\ UNCHANGED <<loop, cur, rejecting>>

\* Time passes at any step of the loop, which may be late for any deadline.
Elapse ==
  /\ net' = Aged(net)
  /\ UNCHANGED <<slot, loop, cur, rejecting>>

Main == Take \/ (\E accepts \in BOOLEAN : Apply(accepts)) \/ Tick

Next == HostEnqueue \/ Main \/ Callback \/ Elapse

(* The loop runs for ever and time passes; nothing is assumed of phones,   *)
(* access points or time servers.                                          *)
Spec == Init /\ [][Next]_vars /\ WF_vars(Main) /\ WF_vars(Elapse)

----------------------------------------------------------------------------
(* Properties                                                              *)

\* The radio, the portal's servers, SNTP and the automation job are on exactly in
\* the modes that use them; nothing is left on behind an idle service.
RadioFollowsMode ==
  /\ TypeOK
  /\ net.radio = CASE net.mode = "kPortal" -> "ap"
                   [] net.mode \in WifiModes -> "sta"
                   [] OTHER -> "off"
  /\ net.web  <=> net.mode = "kPortal"
  /\ net.sntp <=> net.mode = "kWaitingForNtp"
  /\ net.job  <=> net.mode = "kWaitingForPortalAutomation"

\* What may power Wi-Fi, whatever is promoted, rejected or timed out in the middle of its
\* work: never a BLE route; the portal never for an NTP route; without a route, Wi-Fi only
\* when BLE and the portal have had the setup window; and no attempt is made, or goes on,
\* from the moment the table of failed access points has overflowed.
WifiIsAllowed ==
  /\ net.route = "kBle" => net.mode = "kIdle"
  /\ net.route = "kNtp" => net.mode # "kPortal"
  /\ net.route = "kUnselected" /\ wifiBusy => net.bootAge = SetupWindow
  /\ net.exhausted => ~wifiBusy

\* An access point that failed in this boot is never associated with again.
FailedIsNeverTried ==
  [][ net'.mode = "kConnecting" /\ net'.active # net.active => net'.active \notin net.failed ]_vars

\* An idle service has a next attempt scheduled, an update of its own on the way, or
\* a BLE route that waits for its phone (the comment at NetworkTimeService.cpp 602-603).
IdleIsScheduled ==
  net.mode = "kIdle" =>
    \/ net.armed \/ slot # NoUpdate \/ cur # NoUpdate
    \/ net.route = "kBle" /\ net.overdue

\* It is as long as TimeKeeper applies what the producers have checked.
AcceptedIsScheduled == ~rejecting => IdleIsScheduled

\* A refresh portal stays open until a sync (README.md 600, 721, 776), as long as
\* TimeKeeper applies what the portal has answered.
PortalOpenUntilSuccess ==
  [][ ~rejecting /\ net.mode = "kPortal" /\ net.persistent /\ net'.mode # "kPortal"
        => ~net'.overdue ]_vars

\* Once a portal route is selected the clock uses no other Wi-Fi path.
PortalRouteNeverScans == net.route = "kPortal" => ~wifiBusy

\* An open-Wi-Fi attempt ends, whatever access points, servers and the worker do.
WifiWorkEnds == wifiBusy ~> ~wifiBusy

\* A clock that needs Wi-Fi, because it is unconfirmed or its route is NTP, searches
\* again and again until that is no longer so or Wi-Fi is exhausted.
SearchGoesOn ==
  []<>(\/ wifiBusy \/ net.exhausted \/ rejecting
       \/ net.confirmed /\ net.route # "kNtp")

=============================================================================
