--------------------------- MODULE EspClockProofs ---------------------------
(***************************************************************************)
(* Proofs about EspClock, for every duration, capacity and set of access   *)
(* points: what is powered in which mode, what may power Wi-Fi, that no    *)
(* access point is tried twice, and that an idle clock has something to    *)
(* wait for.  Each method of NetworkTimeService has a lemma on what it     *)
(* makes of a sound state; the theorems put them together.                 *)
(***************************************************************************)
EXTENDS EspClock, TLAPS

MaxAge == Max({ModeTimeout, AutomationTimeout})

\* What is on in which mode.
RadioFits(n) ==
  /\ n.mode = "kPortal"    => n.radio = "ap"
  /\ n.mode \in WifiModes  => n.radio = "sta"
  /\ n.mode \notin WifiModes \union {"kPortal"} => n.radio = "off"
  /\ n.web  <=> n.mode = "kPortal"
  /\ n.sntp <=> n.mode = "kWaitingForNtp"
  /\ n.job  <=> n.mode = "kWaitingForPortalAutomation"

\* What may power Wi-Fi.  A clock without a route that gave up its setup portal sleeps
\* until the setup window is over.
RouteFits(n) ==
  /\ n.initial => n.route = "kUnselected"
  /\ n.route = "kBle" => n.mode = "kIdle"
  /\ n.route = "kNtp" => n.mode # "kPortal"
  /\ n.route = "kUnselected" /\ n.mode \in WifiModes => n.bootAge = SetupWindow
  /\ n.route = "kUnselected" /\ n.mode = "kIdle" => n.bootAge + n.attemptIn >= SetupWindow

\* The candidates still to be tried are neither the active one nor have they failed.
TryFits(n) ==
  /\ n.candidates \intersect n.failed = {}
  /\ n.active \notin n.candidates
  /\ n.exhausted => n.mode \notin WifiModes

\* A portal about to close has taken a time or been synced.
PortalFits(n) ==
  n.mode = "kPortal" =>
    /\ n.schedule => ~n.overdue
    /\ n.stopIn # NoStop => n.accepted \/ n.schedule

Sound(n) == n \in NetState /\ RadioFits(n) /\ RouteFits(n) /\ TryFits(n) /\ PortalFits(n)

\* A next attempt is armed, or BLE is waited for.
Scheduled(n) == n.mode = "kIdle" => n.armed \/ (n.route = "kBle" /\ n.overdue)

\* What is associated with now, and was not before, has not failed.
Fresh(n, r) == r.mode = "kConnecting" /\ r.active # n.active => r.active \notin n.failed

\* A step of the Wi-Fi work does not open a portal.
WifiStep(n, r) == Fresh(n, r) /\ r.mode # "kPortal"

\* Wi-Fi work between two access points: SNTP and the job are off again.
Working(n) ==
  /\ n \in NetState /\ n.mode \in WifiModes
  /\ n.radio = "sta" /\ ~n.web /\ ~n.sntp /\ ~n.job
  /\ n.candidates \intersect n.failed = {}
  /\ n.route # "kBle"
  /\ n.initial => n.route = "kUnselected"
  /\ n.route = "kUnselected" => n.bootAge = SetupWindow

----------------------------------------------------------------------------
(* Durations                                                               *)

LEMMA MinOfTwo ==
  ASSUME NEW a \in Int, NEW b \in Int
  PROVE  Min({a, b}) = IF a <= b THEN a ELSE b
  BY DEF Min

LEMMA MaxOfTwo ==
  ASSUME NEW a \in Int, NEW b \in Int
  PROVE  Max({a, b}) = IF a >= b THEN a ELSE b
  BY DEF Max

LEMMA Durations ==
  /\ BleWindow \in Nat \ {0} /\ SetupWindow \in Nat \ {0} /\ PortalRetry \in Nat \ {0}
  /\ PortalStopDelay \in Nat \ {0} /\ ModeTimeout \in Nat \ {0}
  /\ AutomationTimeout \in Nat \ {0} /\ WifiWindow \in Nat \ {0} /\ BleGrace \in Nat \ {0}
  /\ BleResync \in Nat \ {0} /\ WifiResync \in Nat \ {0} /\ MaxPortalStarts \in Nat \ {0}
  /\ MaxAttempts \in Nat \ {0} /\ FailedCapacity \in Nat \ {0}
  /\ BleWindow < SetupWindow /\ SetupWindow <= WifiResync
  /\ NoBssid \notin Bssid
  BY DurationsAssumption, ResyncAssumption DEF DurationsAssumption, ResyncAssumption

LEMMA Delays ==
  /\ MaxDelay \in Nat
  /\ BleWindow <= MaxDelay /\ SetupWindow <= MaxDelay /\ PortalRetry <= MaxDelay
  /\ BleGrace <= MaxDelay /\ BleResync <= MaxDelay /\ WifiResync <= MaxDelay
  <1> DEFINE D == {BleWindow, SetupWindow, PortalRetry, BleGrace, BleResync, WifiResync}
  <1>1. D \subseteq Nat
    BY Durations
  <1>2. \E x \in D : \A y \in D : x >= y
    BY <1>1
  <1>3. MaxDelay \in D /\ \A y \in D : MaxDelay >= y
    BY <1>2 DEF MaxDelay, Max
  <1> QED
    BY <1>1, <1>3

LEMMA Ages ==
  /\ MaxAge \in Nat /\ ModeTimeout <= MaxAge /\ AutomationTimeout <= MaxAge
  BY Durations, MaxOfTwo DEF MaxAge

\* Where every count of time may start.
LEMMA Zeros ==
  /\ 0 \in 0..MaxAge /\ 0 \in 0..WifiWindow /\ 0 \in 0..MaxAttempts /\ 0 \in 0..MaxPortalStarts
  /\ 0 \in 0..SetupWindow /\ 0 \in 0..MaxDelay
  /\ NoStop \in NoStop..PortalStopDelay /\ PortalStopDelay \in NoStop..PortalStopDelay
  /\ NoBssid \in Bssid \union {NoBssid}
  BY Durations, Delays, Ages DEF NoStop

----------------------------------------------------------------------------
(* Stopping                                                                *)

LEMMA StopPortalTyped ==
  ASSUME NEW n \in NetState
  PROVE  stopPortal(n) \in NetState
  BY DEF stopPortal, NetState

LEMMA ForgottenTyped ==
  ASSUME NEW n \in NetState
  PROVE  Forgotten(n) \in NetState
  BY Zeros DEF Forgotten, NetState, MaxAge

Off(n, sntp, answered, radio) ==
  [n EXCEPT !.sntp = sntp, !.answered = answered, !.job = FALSE, !.radio = radio,
            !.mode = "kIdle", !.grace = FALSE, !.persistent = FALSE, !.schedule = FALSE]

LEMMA OffTyped ==
  ASSUME NEW n \in NetState, NEW sntp \in BOOLEAN, NEW answered \in BOOLEAN,
         NEW radio \in {"off", "ap", "sta"}
  PROVE  Off(n, sntp, answered, radio) \in NetState
  BY DEF Off, NetState, Mode

LEMMA StopTyped ==
  ASSUME NEW n \in NetState
  PROVE  stopNetworkActivity(n) \in NetState
  <1> DEFINE m == Forgotten(IF n.mode = "kPortal" THEN stopPortal(n) ELSE n)
             sntp == IF n.mode = "kWaitingForNtp" THEN FALSE ELSE m.sntp
             answered == IF n.mode = "kWaitingForNtp" THEN FALSE ELSE m.answered
             radio == IF m.radio = "sta" THEN "off" ELSE m.radio
  <1>1. m \in NetState
    BY StopPortalTyped, ForgottenTyped
  <1>2. stopNetworkActivity(n) = Off(m, sntp, answered, radio)
    BY DEF stopNetworkActivity, Off
  <1> HIDE DEF m
  <1>3. sntp \in BOOLEAN /\ answered \in BOOLEAN /\ radio \in {"off", "ap", "sta"}
    BY <1>1 DEF NetState
  <1> HIDE DEF sntp, answered, radio
  <1> QED
    BY <1>1, <1>2, <1>3, OffTyped

\* What stopNetworkActivity can turn off is all that is on.
Stoppable(n) ==
  /\ n.radio = "ap" => n.mode = "kPortal"
  /\ n.web => n.mode = "kPortal"
  /\ n.sntp => n.mode = "kWaitingForNtp"

LEMMA StopSets ==
  ASSUME NEW n \in NetState
  PROVE  LET s == stopNetworkActivity(n) IN
         /\ s.mode = "kIdle" /\ ~s.job /\ s.candidates = {} /\ s.active = NoBssid
         /\ s.confirmed = n.confirmed /\ s.initial = n.initial /\ s.overdue = n.overdue
         /\ s.route = n.route /\ s.armed = n.armed /\ s.attemptIn = n.attemptIn
         /\ s.bootAge = n.bootAge
  BY DEF stopNetworkActivity, stopPortal, NetState, Forgotten

LEMMA StopTurnsOff ==
  ASSUME NEW n \in NetState, Stoppable(n)
  PROVE  LET s == stopNetworkActivity(n) IN s.radio = "off" /\ ~s.web /\ ~s.sntp
  BY DEF stopNetworkActivity, stopPortal, NetState, Forgotten, Stoppable

----------------------------------------------------------------------------
(* Idle                                                                    *)

\* An idle state is sound if it has nothing on and respects the setup window.
LEMMA IdleIsSound ==
  ASSUME NEW n \in NetState, n.mode = "kIdle", n.radio = "off", ~n.web, ~n.sntp, ~n.job,
         n.candidates = {}, n.initial => n.route = "kUnselected",
         n.route = "kUnselected" => n.bootAge + n.attemptIn >= SetupWindow
  PROVE  Sound(n)
  BY DEF Sound, RadioFits, RouteFits, TryFits, PortalFits, WifiModes

LEMMA ArmedTyped ==
  ASSUME NEW n \in NetState, NEW delay \in 0..MaxDelay
  PROVE  [n EXCEPT !.armed = TRUE, !.attemptIn = delay] \in NetState
  BY DEF NetState

LEMMA ArmResync ==
  ASSUME NEW n \in NetState, Stoppable(n), NEW delay \in 0..MaxDelay,
         n.initial => n.route = "kUnselected",
         n.route = "kUnselected" => n.bootAge + delay >= SetupWindow
  PROVE  LET r == armResync(n, delay) IN
         /\ Sound(r) /\ Scheduled(r) /\ r.mode = "kIdle" /\ r.overdue = n.overdue
  <1> DEFINE s == stopNetworkActivity(n)
             r == armResync(n, delay)
  <1>1. s \in NetState /\ r \in NetState
    BY StopTyped, ArmedTyped DEF armResync
  <1> HIDE DEF s
  <1>2. /\ r.armed /\ r.attemptIn = delay /\ r.mode = s.mode /\ r.radio = s.radio
        /\ r.web = s.web /\ r.sntp = s.sntp /\ r.job = s.job /\ r.candidates = s.candidates
        /\ r.initial = s.initial /\ r.route = s.route /\ r.bootAge = s.bootAge
        /\ r.overdue = s.overdue
    BY <1>1 DEF armResync, s, NetState
  <1> HIDE DEF r
  <1> QED
    BY <1>1, <1>2, StopSets, StopTurnsOff, IdleIsSound DEF s, r, Scheduled

Given(n, overdue) ==
  [n EXCEPT !.initial = FALSE, !.overdue = overdue, !.armed = TRUE, !.attemptIn = WifiResync]

LEMMA GivenTyped ==
  ASSUME NEW n \in NetState, NEW overdue \in BOOLEAN
  PROVE  Given(n, overdue) \in NetState
  <1>1. WifiResync \in 0..MaxDelay
    BY Durations, Delays
  <1> QED
    BY <1>1 DEF Given, NetState

LEMMA FinishFailed ==
  ASSUME NEW n \in NetState, Stoppable(n)
  PROVE  LET r == finishFailedAttempt(n) IN
         /\ Sound(r) /\ Scheduled(r) /\ r.mode = "kIdle"
  <1> DEFINE s == stopNetworkActivity(n)
             r == finishFailedAttempt(n)
  <1>1. s \in NetState /\ n.confirmed \in BOOLEAN
    BY StopTyped DEF NetState
  <1>2. r = Given(s, n.confirmed)
    BY DEF finishFailedAttempt, Given
  <1>3. r \in NetState
    BY <1>1, <1>2, GivenTyped
  <1> HIDE DEF s, r
  <1>4. /\ r.armed /\ r.attemptIn = WifiResync /\ ~r.initial /\ r.mode = s.mode
        /\ r.radio = s.radio /\ r.web = s.web /\ r.sntp = s.sntp /\ r.job = s.job
        /\ r.candidates = s.candidates
    BY <1>1, <1>2 DEF Given, NetState
  <1>5. r.bootAge + r.attemptIn >= SetupWindow
    <2>1. r.bootAge \in 0..SetupWindow
      BY <1>3 DEF NetState
    <2> QED
      BY <1>4, <2>1, Durations
  <1> QED
    BY <1>3, <1>4, <1>5, StopSets, StopTurnsOff, IdleIsSound DEF s, r, Scheduled

LEMMA SoundStops ==
  ASSUME NEW n, Sound(n) \/ Working(n)
  PROVE  n \in NetState /\ Stoppable(n)
  BY DEF Sound, Working, RadioFits, Stoppable, WifiModes

----------------------------------------------------------------------------
(* The setup portal                                                        *)

Opened(n, persistent) ==
  [n EXCEPT !.persistent = persistent, !.accepted = FALSE, !.stopIn = NoStop,
            !.schedule = FALSE, !.radio = "ap", !.web = TRUE, !.mode = "kPortal", !.starts = 0]

Refused(n, persistent, starts, radio) ==
  [n EXCEPT !.persistent = persistent, !.accepted = FALSE, !.stopIn = NoStop,
            !.schedule = FALSE, !.mode = "kWaitingForBle", !.starts = starts, !.radio = radio]

LEMMA OpenedTyped ==
  ASSUME NEW n \in NetState, NEW persistent \in BOOLEAN
  PROVE  Opened(n, persistent) \in NetState
  BY Zeros DEF Opened, NetState, Mode

LEMMA RefusedTyped ==
  ASSUME NEW n \in NetState, NEW persistent \in BOOLEAN, NEW starts \in 0..MaxPortalStarts,
         NEW radio \in {"off", "ap", "sta"}
  PROVE  Refused(n, persistent, starts, radio) \in NetState
  BY Zeros DEF Refused, NetState, Mode

LEMMA SoundTyped == ASSUME NEW n, Sound(n) PROVE n \in NetState
  BY DEF Sound

\* Nothing that startPortal is called on is open already.
LEMMA StartPortal ==
  ASSUME NEW n, Sound(n), n.mode \in {"kWaitingForBle", "kIdle"},
         NEW persistent \in BOOLEAN, NEW started \in BOOLEAN,
         n.route \in {"kUnselected", "kPortal"}
  PROVE  LET r == startPortal(n, persistent, started) IN
         /\ Sound(r) /\ Scheduled(r) /\ r.mode \in {"kPortal", "kWaitingForBle", "kIdle"}
         /\ r.mode = "kPortal" => ~r.accepted
  <1> DEFINE tries == Min({n.starts + 1, MaxPortalStarts})
             radio == IF n.radio = "ap" THEN "off" ELSE n.radio
             o == Opened(n, persistent)
             f == Refused(n, persistent, tries, radio)
             r == startPortal(n, persistent, started)
  <1>1. n \in NetState
    BY SoundTyped
  <1>2. tries \in 0..MaxPortalStarts /\ radio \in {"off", "ap", "sta"}
    BY <1>1, MinOfTwo, Durations DEF NetState
  <1> HIDE DEF tries, radio
  <1>3. o \in NetState /\ f \in NetState
    BY <1>1, <1>2, OpenedTyped, RefusedTyped
  <1>4. r = IF started THEN o
            ELSE IF tries < MaxPortalStarts THEN [f EXCEPT !.attemptIn = PortalRetry]
            ELSE IF n.initial THEN [f EXCEPT !.attemptIn = SetupWindow - n.bootAge]
            ELSE finishFailedAttempt(f)
    BY DEF startPortal, Opened, Refused, tries, radio
  <1>5. /\ o.mode = "kPortal" /\ o.radio = "ap" /\ o.web /\ ~o.schedule /\ o.stopIn = NoStop
        /\ ~o.accepted
        /\ o.sntp = n.sntp /\ o.job = n.job /\ o.route = n.route /\ o.initial = n.initial
        /\ o.candidates = n.candidates /\ o.failed = n.failed /\ o.active = n.active
    BY <1>1 DEF Opened, NetState
  <1>6. /\ f.mode = "kWaitingForBle" /\ f.radio = radio
        /\ f.web = n.web /\ f.sntp = n.sntp /\ f.job = n.job /\ f.route = n.route
        /\ f.initial = n.initial /\ f.candidates = n.candidates /\ f.failed = n.failed
        /\ f.active = n.active
    BY <1>1 DEF Refused, NetState
  <1> HIDE DEF o, f, r
  <1>7. ASSUME started
        PROVE  Sound(r) /\ Scheduled(r) /\ r.mode = "kPortal" /\ ~r.accepted
    BY <1>3, <1>4, <1>5, <1>7
       DEF Sound, RadioFits, RouteFits, TryFits, PortalFits, WifiModes, Scheduled
  <1>8. ASSUME NEW delay \in 0..MaxDelay, r = [f EXCEPT !.attemptIn = delay]
        PROVE  Sound(r) /\ Scheduled(r) /\ r.mode = "kWaitingForBle"
    <2>1. r \in NetState
      BY <1>3, <1>8 DEF NetState
    <2>2. /\ r.mode = f.mode /\ r.radio = f.radio /\ r.web = f.web /\ r.sntp = f.sntp
          /\ r.job = f.job /\ r.route = f.route /\ r.initial = f.initial
          /\ r.candidates = f.candidates /\ r.failed = f.failed /\ r.active = f.active
      BY <1>3, <1>8 DEF NetState
    <2> QED
      BY <1>6, <2>1, <2>2
         DEF Sound, RadioFits, RouteFits, TryFits, PortalFits, WifiModes, Scheduled, radio
  <1>9. PortalRetry \in 0..MaxDelay /\ SetupWindow - n.bootAge \in 0..MaxDelay
    <2>1. n.bootAge \in 0..SetupWindow
      BY <1>1 DEF NetState
    <2> QED
      BY <2>1, Durations, Delays
  <1>10. Stoppable(f)
    BY <1>6 DEF Sound, RadioFits, Stoppable, WifiModes, radio
  <1> QED
    BY <1>3, <1>4, <1>7, <1>8, <1>9, <1>10, FinishFailed DEF r

LEMMA HandlePortalTime ==
  ASSUME NEW n, Sound(n), n.mode = "kPortal"
  PROVE  LET r == handlePortalTime(n) IN
         /\ Sound(r) /\ r.mode = "kPortal" /\ r.schedule = n.schedule
         /\ r.accepted /\ r.overdue = n.overdue /\ r.persistent = n.persistent
         /\ n.accepted => r = n
         /\ ~n.accepted => r.stopIn # 0
  <1> DEFINE r == [n EXCEPT !.accepted = TRUE, !.stopIn = PortalStopDelay]
  <1>1. n \in NetState
    BY SoundTyped
  <1>2. r \in NetState
    BY <1>1, Zeros DEF NetState
  <1>3. /\ r.mode = n.mode /\ r.radio = n.radio /\ r.web = n.web /\ r.sntp = n.sntp
        /\ r.job = n.job /\ r.route = n.route /\ r.initial = n.initial
        /\ r.bootAge = n.bootAge /\ r.attemptIn = n.attemptIn
        /\ r.candidates = n.candidates /\ r.failed = n.failed /\ r.active = n.active
        /\ r.exhausted = n.exhausted
        /\ r.accepted /\ r.stopIn = PortalStopDelay /\ r.schedule = n.schedule
        /\ r.overdue = n.overdue /\ r.persistent = n.persistent
    BY <1>1 DEF NetState
  <1> HIDE DEF r
  <1>4. Sound(r)
    BY <1>2, <1>3 DEF Sound, RadioFits, RouteFits, TryFits, PortalFits
  <1> QED
    BY <1>3, <1>4, Durations DEF handlePortalTime, r

----------------------------------------------------------------------------
(* Open Wi-Fi                                                              *)

Associating(n, active, candidates, attempts) ==
  [n EXCEPT !.active = active, !.candidates = candidates, !.attempts = attempts,
            !.retried = FALSE, !.mode = "kConnecting", !.age = 0]

LEMMA AssociatingTyped ==
  ASSUME NEW n \in NetState, NEW active \in Bssid \union {NoBssid},
         NEW candidates \in SUBSET Bssid, NEW attempts \in 0..MaxAttempts
  PROVE  Associating(n, active, candidates, attempts) \in NetState
  BY Zeros DEF Associating, NetState, Mode, MaxAge

LEMMA ConnectNext ==
  ASSUME NEW n, Working(n), NEW pick
  PROVE  LET r == connectNextCandidate(n, pick) IN
         /\ Sound(r) /\ Scheduled(r) /\ r.mode \in {"kConnecting", "kIdle"}
         /\ r.mode = "kConnecting" => r.active \in n.candidates
  <1> DEFINE next == IF pick \in n.candidates THEN pick ELSE CHOOSE b \in n.candidates : TRUE
             a == Associating(n, next, n.candidates \ {next}, n.attempts + 1)
             r == connectNextCandidate(n, pick)
  <1>1. n \in NetState /\ Stoppable(n)
    BY SoundStops
  <1>2. CASE ~MayConnect(n)
    <2>1. r = finishFailedAttempt(n)
      BY <1>2 DEF connectNextCandidate
    <2> HIDE DEF r
    <2> QED
      BY <1>1, <2>1, FinishFailed DEF r
  <1>3. CASE MayConnect(n)
    <2>1. r = a
      BY <1>3 DEF connectNextCandidate, Associating
    <2>2. /\ next \in n.candidates /\ n.candidates \in SUBSET Bssid
          /\ n.attempts + 1 \in 0..MaxAttempts /\ ~n.exhausted
      BY <1>1, <1>3, Durations DEF MayConnect, NetState
    <2> HIDE DEF next
    <2>3. a \in NetState
      BY <1>1, <2>2, AssociatingTyped
    <2>4. /\ a.mode = "kConnecting" /\ a.active = next /\ a.candidates = n.candidates \ {next}
          /\ a.radio = n.radio /\ a.web = n.web /\ a.sntp = n.sntp /\ a.job = n.job
          /\ a.route = n.route /\ a.initial = n.initial /\ a.bootAge = n.bootAge
          /\ a.failed = n.failed /\ a.exhausted = n.exhausted
      BY <1>1 DEF Associating, NetState
    <2> HIDE DEF a, r
    <2>5. Sound(a) /\ Scheduled(a)
      BY <2>2, <2>3, <2>4
         DEF Working, Sound, RadioFits, RouteFits, TryFits, PortalFits, WifiModes, Scheduled
    <2> QED
      BY <2>1, <2>2, <2>4, <2>5 DEF r
  <1> QED
    BY <1>2, <1>3

LEMMA RememberFailure ==
  ASSUME NEW n, Working(n), n.active \notin n.candidates
  PROVE  LET r == rememberFailure(n) IN
         /\ Working(r) /\ r.candidates = n.candidates /\ n.failed \subseteq r.failed
  <1> DEFINE f == [n EXCEPT !.failed = n.failed \union {n.active}]
             e == [n EXCEPT !.exhausted = TRUE]
  <1>1. n \in NetState
    BY DEF Working
  <1>2. CASE n.active \in n.failed \union {NoBssid}
    BY <1>2 DEF rememberFailure
  <1>3. CASE n.active \notin n.failed \union {NoBssid}
    <2>1. rememberFailure(n) \in {f, e}
      BY <1>3 DEF rememberFailure
    <2>2. n.failed \union {n.active} \in SUBSET Bssid
      BY <1>1, <1>3 DEF NetState
    <2>3. f \in NetState /\ e \in NetState
      BY <1>1, <2>2 DEF NetState
    <2>4. /\ f.failed = n.failed \union {n.active} /\ f.candidates = n.candidates
          /\ f.mode = n.mode /\ f.radio = n.radio /\ f.web = n.web /\ f.sntp = n.sntp
          /\ f.job = n.job /\ f.route = n.route /\ f.initial = n.initial
          /\ f.bootAge = n.bootAge
      BY <1>1 DEF NetState
    <2>5. /\ e.failed = n.failed /\ e.candidates = n.candidates
          /\ e.mode = n.mode /\ e.radio = n.radio /\ e.web = n.web /\ e.sntp = n.sntp
          /\ e.job = n.job /\ e.route = n.route /\ e.initial = n.initial
          /\ e.bootAge = n.bootAge
      BY <1>1 DEF NetState
    <2> HIDE DEF f, e
    <2>6. Working(f) /\ Working(e)
      BY <2>3, <2>4, <2>5 DEF Working
    <2> QED
      BY <2>1, <2>4, <2>5, <2>6
  <1> QED
    BY <1>2, <1>3

\* Whatever comes next has not failed, not even just now.
LEMMA FailCandidate ==
  ASSUME NEW n, Working(n), n.active \notin n.candidates, NEW pick
  PROVE  LET r == failCandidate(n, pick) IN
         Sound(r) /\ Scheduled(r) /\ WifiStep(n, r)
  <1> DEFINE m == rememberFailure(n)
  <1>1. /\ Working(m) /\ m.candidates = n.candidates /\ n.failed \subseteq m.failed
    BY RememberFailure
  <1> HIDE DEF m
  <1>2. m.candidates \intersect m.failed = {}
    BY <1>1 DEF Working
  <1> QED
    BY <1>1, <1>2, ConnectNext DEF failCandidate, Fresh, WifiStep, m

LEMMA ProcessScan ==
  ASSUME NEW n, Working(n), NEW found \in SUBSET Bssid, NEW pick
  PROVE  LET r == processScan(n, found, pick) IN
         Sound(r) /\ Scheduled(r) /\ WifiStep(n, r)
  <1> DEFINE m == [n EXCEPT !.candidates = found \ n.failed]
  <1>1. n \in NetState
    BY DEF Working
  <1>2. m \in NetState
    BY <1>1 DEF NetState
  <1>3. /\ m.candidates = found \ n.failed /\ m.failed = n.failed
        /\ m.mode = n.mode /\ m.radio = n.radio /\ m.web = n.web /\ m.sntp = n.sntp
        /\ m.job = n.job /\ m.route = n.route /\ m.initial = n.initial
        /\ m.bootAge = n.bootAge
    BY <1>1 DEF NetState
  <1>4. processScan(n, found, pick) = connectNextCandidate(m, pick)
    BY DEF processScan
  <1> HIDE DEF m
  <1>5. Working(m)
    BY <1>2, <1>3 DEF Working
  <1> QED
    BY <1>3, <1>4, <1>5, ConnectNext DEF Fresh, WifiStep

Scanning(n) ==
  [n EXCEPT !.initial = FALSE, !.windowAge = 0, !.attempts = 0, !.candidates = {},
            !.active = NoBssid, !.radio = "sta", !.mode = "kScanning", !.age = 0]

LEMMA ScanningTyped ==
  ASSUME NEW n \in NetState
  PROVE  Scanning(n) \in NetState
  BY Zeros DEF Scanning, NetState, Mode, MaxAge

LEMMA StartScan ==
  ASSUME NEW n, Sound(n), n.mode \notin WifiModes, n.route # "kBle",
         n.route = "kUnselected" => n.bootAge = SetupWindow
  PROVE  LET r == startScan(n) IN
         Sound(r) /\ Scheduled(r) /\ r.mode \in {"kScanning", "kIdle"}
  <1> DEFINE m == IF n.mode = "kPortal" THEN stopPortal(n) ELSE n
             g == Scanning(m)
             r == startScan(n)
  <1>1. n \in NetState /\ Stoppable(n)
    BY SoundStops
  <1>2. CASE n.exhausted
    <2>1. r = finishFailedAttempt(n)
      BY <1>2 DEF startScan
    <2> HIDE DEF r
    <2> QED
      BY <1>1, <2>1, FinishFailed DEF r
  <1>3. CASE ~n.exhausted
    <2>1. r = g
      BY <1>3 DEF startScan, Scanning
    <2>2. m \in NetState
      BY <1>1, StopPortalTyped
    <2>3. /\ ~m.web /\ ~m.sntp /\ ~m.job /\ ~m.exhausted
          /\ m.route = n.route /\ m.bootAge = n.bootAge
      BY <1>1, <1>3 DEF stopPortal, NetState, Sound, RadioFits, WifiModes
    <2> HIDE DEF m
    <2>4. g \in NetState
      BY <2>2, ScanningTyped
    <2>5. /\ g.mode = "kScanning" /\ g.radio = "sta" /\ g.candidates = {} /\ g.active = NoBssid
          /\ ~g.initial /\ g.web = m.web /\ g.sntp = m.sntp /\ g.job = m.job
          /\ g.exhausted = m.exhausted /\ g.route = m.route /\ g.bootAge = m.bootAge
      BY <2>2 DEF Scanning, NetState
    <2> HIDE DEF g, r
    <2>6. Sound(g) /\ Scheduled(g)
      BY <2>3, <2>4, <2>5
         DEF Sound, RadioFits, RouteFits, TryFits, PortalFits, WifiModes, Scheduled
    <2> QED
      BY <2>1, <2>5, <2>6 DEF r
  <1> QED
    BY <1>2, <1>3

\* Between two candidates, or on the way to the next step with the same one.
Unfinished(n) == Working(n) /\ n.active \notin n.candidates /\ ~n.exhausted

LEMMA SoundWorks ==
  ASSUME NEW n, Sound(n), n.mode \in {"kScanning", "kConnecting"}
  PROVE  Unfinished(n)
  BY DEF Unfinished, Sound, Working, RadioFits, RouteFits, TryFits, WifiModes

LEMMA SntpStops ==
  ASSUME NEW n, Sound(n), n.mode = "kWaitingForNtp"
  PROVE  LET m == [n EXCEPT !.sntp = FALSE, !.answered = FALSE] IN
         /\ Unfinished(m) /\ m.failed = n.failed /\ m.active = n.active
         /\ m.mode = n.mode
  <1> DEFINE m == [n EXCEPT !.sntp = FALSE, !.answered = FALSE]
  <1>1. n \in NetState
    BY SoundTyped
  <1>2. m \in NetState
    BY <1>1 DEF NetState
  <1>3. /\ ~m.sntp /\ m.failed = n.failed /\ m.active = n.active /\ m.mode = n.mode
        /\ m.candidates = n.candidates /\ m.radio = n.radio /\ m.web = n.web
        /\ m.job = n.job /\ m.route = n.route /\ m.initial = n.initial
        /\ m.bootAge = n.bootAge /\ m.exhausted = n.exhausted
    BY <1>1 DEF NetState
  <1> HIDE DEF m
  <1>4. Unfinished(m)
    BY <1>2, <1>3 DEF Unfinished, Sound, Working, RadioFits, RouteFits, TryFits, WifiModes
  <1> QED
    BY <1>3, <1>4 DEF m

LEMMA JobStops ==
  ASSUME NEW n, Sound(n), n.mode = "kWaitingForPortalAutomation", NEW retried \in BOOLEAN
  PROVE  LET m == [n EXCEPT !.retried = retried, !.job = FALSE] IN
         /\ Unfinished(m) /\ m.failed = n.failed /\ m.active = n.active
         /\ m.mode = n.mode
  <1> DEFINE m == [n EXCEPT !.retried = retried, !.job = FALSE]
  <1>1. n \in NetState
    BY SoundTyped
  <1>2. m \in NetState
    BY <1>1 DEF NetState
  <1>3. /\ ~m.job /\ m.failed = n.failed /\ m.active = n.active /\ m.mode = n.mode
        /\ m.candidates = n.candidates /\ m.radio = n.radio /\ m.web = n.web
        /\ m.sntp = n.sntp /\ m.route = n.route /\ m.initial = n.initial
        /\ m.bootAge = n.bootAge /\ m.exhausted = n.exhausted
    BY <1>1 DEF NetState
  <1> HIDE DEF m
  <1>4. Unfinished(m)
    BY <1>2, <1>3 DEF Unfinished, Sound, Working, RadioFits, RouteFits, TryFits, WifiModes
  <1> QED
    BY <1>3, <1>4 DEF m

\* The same without the change of retried.
LEMMA JobAloneStops ==
  ASSUME NEW n, Sound(n), n.mode = "kWaitingForPortalAutomation"
  PROVE  LET m == [n EXCEPT !.job = FALSE] IN
         /\ Unfinished(m) /\ m.failed = n.failed /\ m.active = n.active
  <1> DEFINE m == [n EXCEPT !.job = FALSE]
  <1>1. n \in NetState
    BY SoundTyped
  <1>2. m \in NetState
    BY <1>1 DEF NetState
  <1>3. /\ ~m.job /\ m.failed = n.failed /\ m.active = n.active /\ m.mode = n.mode
        /\ m.candidates = n.candidates /\ m.radio = n.radio /\ m.web = n.web
        /\ m.sntp = n.sntp /\ m.route = n.route /\ m.initial = n.initial
        /\ m.bootAge = n.bootAge /\ m.exhausted = n.exhausted
    BY <1>1 DEF NetState
  <1> HIDE DEF m
  <1>4. Unfinished(m)
    BY <1>2, <1>3 DEF Unfinished, Sound, Working, RadioFits, RouteFits, TryFits, WifiModes
  <1> QED
    BY <1>3, <1>4 DEF m

LEMMA StartNtp ==
  ASSUME NEW n, Unfinished(n)
  PROVE  LET r == startNtp(n) IN Sound(r) /\ Scheduled(r) /\ WifiStep(n, r)
  <1> DEFINE r == startNtp(n)
  <1>1. n \in NetState
    BY DEF Unfinished, Working
  <1>2. r \in NetState
    BY <1>1, Zeros DEF startNtp, NetState, Mode, MaxAge
  <1>3. /\ r.mode = "kWaitingForNtp" /\ r.sntp /\ r.failed = n.failed /\ r.active = n.active
        /\ r.candidates = n.candidates /\ r.radio = n.radio /\ r.web = n.web
        /\ r.job = n.job /\ r.route = n.route /\ r.initial = n.initial
        /\ r.bootAge = n.bootAge /\ r.exhausted = n.exhausted
    BY <1>1 DEF startNtp, NetState
  <1> HIDE DEF r
  <1>4. Sound(r) /\ Scheduled(r) /\ WifiStep(n, r)
    BY <1>2, <1>3 DEF Unfinished, Working, Sound, RadioFits, RouteFits, TryFits, PortalFits,
                      WifiModes, Scheduled, Fresh, WifiStep
  <1> QED
    BY <1>4 DEF r

LEMMA StartPortalAutomation ==
  ASSUME NEW n, Unfinished(n), NEW started \in BOOLEAN, NEW pick
  PROVE  LET r == startPortalAutomation(n, started, pick) IN
         Sound(r) /\ Scheduled(r) /\ WifiStep(n, r)
  <1> DEFINE r == [n EXCEPT !.job = TRUE, !.mode = "kWaitingForPortalAutomation", !.age = 0]
  <1>1. n \in NetState
    BY DEF Unfinished, Working
  <1>2. r \in NetState
    BY <1>1, Zeros DEF NetState, Mode, MaxAge
  <1>3. /\ r.mode = "kWaitingForPortalAutomation" /\ r.job /\ r.failed = n.failed
        /\ r.active = n.active /\ r.candidates = n.candidates /\ r.radio = n.radio
        /\ r.web = n.web /\ r.sntp = n.sntp /\ r.route = n.route /\ r.initial = n.initial
        /\ r.bootAge = n.bootAge /\ r.exhausted = n.exhausted
    BY <1>1 DEF NetState
  <1> HIDE DEF r
  <1>4. Sound(r) /\ Scheduled(r) /\ WifiStep(n, r)
    BY <1>2, <1>3 DEF Unfinished, Working, Sound, RadioFits, RouteFits, TryFits, PortalFits,
                      WifiModes, Scheduled, Fresh, WifiStep
  <1> QED
    BY <1>4, FailCandidate DEF startPortalAutomation, Unfinished, r

\* An answer leaves the service idle and unarmed until its update has been applied.
LEMMA FinishNtp ==
  ASSUME NEW n, Sound(n), n.mode = "kWaitingForNtp", NEW accepted \in BOOLEAN,
         NEW worker, NEW pick
  PROVE  LET r == finishNtp(n, accepted, worker, pick) IN
         /\ Sound(r) /\ WifiStep(n, r)
         /\ ~accepted => Scheduled(r)
  <1> DEFINE m == [n EXCEPT !.sntp = FALSE, !.answered = FALSE]
             s == stopNetworkActivity(m)
             r == finishNtp(n, accepted, worker, pick)
  <1>1. /\ Unfinished(m) /\ m.failed = n.failed /\ m.active = n.active
    BY SntpStops
  <1> HIDE DEF m
  <1>2. Working(m) /\ m.active \notin m.candidates /\ m \in NetState /\ Stoppable(m)
    BY <1>1, SoundStops DEF Unfinished
  <1>3. CASE accepted
    <2>1. r = [s EXCEPT !.armed = FALSE]
      BY <1>3 DEF finishNtp, m
    <2>2. s \in NetState
      BY <1>2, StopTyped
    <2> HIDE DEF s
    <2>3. /\ r \in NetState /\ r.mode = s.mode /\ r.radio = s.radio /\ r.web = s.web
          /\ r.sntp = s.sntp /\ r.job = s.job /\ r.candidates = s.candidates
          /\ r.initial = s.initial /\ r.route = s.route /\ r.bootAge = s.bootAge
          /\ r.attemptIn = s.attemptIn
      BY <2>1, <2>2 DEF NetState
    <2> HIDE DEF r
    <2>4. s.attemptIn \in Nat
      BY <2>2, Delays DEF NetState
    <2>5. Sound(r)
      BY <1>2, <2>3, <2>4, StopSets, StopTurnsOff, IdleIsSound, Durations DEF s, Working
    <2>6. r.mode = "kIdle"
      BY <1>2, <2>3, StopSets DEF s
    <2> QED
      BY <1>3, <2>5, <2>6 DEF r, Fresh, WifiStep
  <1>4. CASE ~accepted
    <2>1. \/ \E started \in BOOLEAN : r = startPortalAutomation(m, started, pick)
          \/ r = failCandidate(m, pick)
      BY <1>4 DEF finishNtp, m
    <2>2. Sound(r) /\ Scheduled(r) /\ WifiStep(m, r)
      BY <1>1, <1>2, <2>1, StartPortalAutomation, FailCandidate
    <2> HIDE DEF r
    <2> QED
      BY <1>1, <2>2 DEF Fresh, WifiStep, r
  <1> QED
    BY <1>3, <1>4

LEMMA FinishPortalAutomation ==
  ASSUME NEW n, Sound(n), n.mode = "kWaitingForPortalAutomation",
         NEW submitted \in BOOLEAN, NEW pick
  PROVE  LET r == finishPortalAutomation(n, submitted, pick) IN
         Sound(r) /\ Scheduled(r) /\ WifiStep(n, r)
  <1> DEFINE m == [n EXCEPT !.retried = TRUE, !.job = FALSE]
             k == [n EXCEPT !.job = FALSE]
             r == finishPortalAutomation(n, submitted, pick)
  <1>1. /\ Unfinished(m) /\ m.failed = n.failed /\ m.active = n.active
        /\ Unfinished(k) /\ k.failed = n.failed /\ k.active = n.active
    BY JobStops, JobAloneStops
  <1>2. r = IF submitted THEN startNtp(m) ELSE failCandidate(k, pick)
    BY DEF finishPortalAutomation
  <1> HIDE DEF m, k, r
  <1>3. Sound(r) /\ Scheduled(r) /\ (WifiStep(m, r) \/ WifiStep(k, r))
    BY <1>1, <1>2, StartNtp, FailCandidate DEF Unfinished
  <1> QED
    BY <1>1, <1>3 DEF Fresh, WifiStep, r

----------------------------------------------------------------------------
(* A sync, and time                                                        *)

Synced(n, route) ==
  [n EXCEPT !.confirmed = TRUE, !.initial = FALSE, !.overdue = FALSE, !.route = route]

LEMMA SyncedTyped ==
  ASSUME NEW n \in NetState, NEW route \in SyncRoute
  PROVE  /\ Synced(n, route) \in NetState
         /\ [Synced(n, route) EXCEPT !.schedule = TRUE, !.stopIn = PortalStopDelay] \in NetState
  <1>1. Synced(n, route) \in NetState
    BY DEF Synced, NetState
  <1> QED
    BY <1>1, Zeros DEF NetState

\* A sync ends what the service is doing, or marks a portal that is to answer its phone.
LEMMA OnExternalTimeSync ==
  ASSUME NEW n, Sound(n), NEW source \in TimeSource
  PROVE  LET r == onExternalTimeSync(n, source) IN
         /\ Sound(r) /\ Scheduled(r) /\ ~r.overdue
         /\ r.mode = "kIdle" \/ (r.mode = "kPortal" /\ r.schedule)
  <1> DEFINE route == SelectedRoute(n.route, source)
             m == Synced(n, route)
             p == [m EXCEPT !.schedule = TRUE, !.stopIn = PortalStopDelay]
             delay == IF route = "kBle" THEN BleResync ELSE WifiResync
             r == onExternalTimeSync(n, source)
  <1>1. n \in NetState /\ Stoppable(n)
    BY SoundStops
  <1>2. n.route \in SyncRoute
    BY <1>1 DEF NetState
  <1>3. /\ route \in SyncRoute
        /\ source = "kPortal" => route = IF n.route = "kUnselected" THEN "kPortal" ELSE n.route
    BY <1>2 DEF SelectedRoute, syncRouteForSource, TimeSource, SyncRoute
  <1> HIDE DEF route
  <1>4. m \in NetState /\ p \in NetState
    BY <1>1, <1>3, SyncedTyped
  <1>5. /\ m.route = route /\ ~m.initial /\ ~m.overdue /\ m.bootAge = n.bootAge
        /\ m.mode = n.mode /\ m.radio = n.radio /\ m.web = n.web /\ m.sntp = n.sntp
        /\ m.job = n.job /\ m.candidates = n.candidates /\ m.failed = n.failed
        /\ m.active = n.active /\ m.exhausted = n.exhausted
    BY <1>1 DEF Synced, NetState
  <1>6. r = IF source = "kPortal" /\ n.mode = "kPortal" THEN p ELSE armResync(m, delay)
    BY <1>5 DEF onExternalTimeSync, Synced, route
  <1> HIDE DEF m
  <1>7. CASE source = "kPortal" /\ n.mode = "kPortal"
    <2>1. /\ p.schedule /\ p.route = m.route /\ p.initial = m.initial
          /\ p.overdue = m.overdue /\ p.mode = m.mode /\ p.radio = m.radio /\ p.web = m.web
          /\ p.sntp = m.sntp /\ p.job = m.job /\ p.candidates = m.candidates
          /\ p.failed = m.failed /\ p.active = m.active
      BY <1>4 DEF NetState
    <2> HIDE DEF p, r
    <2>2. Sound(p) /\ Scheduled(p)
      BY <1>3, <1>4, <1>5, <1>7, <2>1
         DEF Sound, RadioFits, RouteFits, TryFits, PortalFits, WifiModes, Scheduled
    <2> QED
      BY <1>5, <1>6, <1>7, <2>1, <2>2 DEF r
  <1>8. CASE ~(source = "kPortal" /\ n.mode = "kPortal")
    <2>1. delay \in 0..MaxDelay
      BY Durations, Delays
    <2>2. m.bootAge \in 0..SetupWindow
      BY <1>4 DEF NetState
    <2>3. m.route = "kUnselected" => m.bootAge + delay >= SetupWindow
      BY <1>5, <2>2, Durations
    <2>4. Stoppable(m)
      BY <1>1, <1>5 DEF Stoppable
    <2> HIDE DEF delay, r
    <2> QED
      BY <1>4, <1>5, <1>6, <1>8, <2>1, <2>3, <2>4, ArmResync DEF r
  <1> QED
    BY <1>7, <1>8

Later(n, attemptIn, stopIn, bootAge, windowAge, age) ==
  [n EXCEPT !.attemptIn = attemptIn, !.stopIn = stopIn, !.bootAge = bootAge,
            !.windowAge = windowAge, !.age = age]

LEMMA LaterTyped ==
  ASSUME NEW n \in NetState, NEW attemptIn \in 0..MaxDelay,
         NEW stopIn \in NoStop..PortalStopDelay, NEW bootAge \in 0..SetupWindow,
         NEW windowAge \in 0..WifiWindow, NEW age \in 0..MaxAge
  PROVE  Later(n, attemptIn, stopIn, bootAge, windowAge, age) \in NetState
  BY DEF Later, NetState, MaxAge

LEMMA TimePasses ==
  ASSUME NEW n, Sound(n)
  PROVE  LET r == Aged(n) IN
         /\ Sound(r) /\ r.mode = n.mode /\ r.active = n.active /\ r.armed = n.armed
         /\ r.route = n.route /\ r.overdue = n.overdue /\ r.accepted = n.accepted
         /\ r.schedule = n.schedule
  <1> DEFINE attemptIn == IF n.attemptIn > 0 THEN n.attemptIn - 1 ELSE 0
             stopIn == IF n.stopIn > 0 THEN n.stopIn - 1 ELSE n.stopIn
             bootAge == Min({n.bootAge + 1, SetupWindow})
             windowAge == IF n.mode \in WifiModes THEN Min({n.windowAge + 1, WifiWindow})
                          ELSE n.windowAge
             age == IF n.mode \in WifiModes
                    THEN Min({n.age + 1, IF n.mode = "kWaitingForPortalAutomation"
                                         THEN AutomationTimeout ELSE ModeTimeout})
                    ELSE n.age
             l == Later(n, attemptIn, stopIn, bootAge, windowAge, age)
  <1>1. n \in NetState
    BY SoundTyped
  <1>2. /\ n.attemptIn \in 0..MaxDelay /\ n.stopIn \in NoStop..PortalStopDelay
        /\ n.bootAge \in 0..SetupWindow /\ n.windowAge \in 0..WifiWindow /\ n.age \in 0..MaxAge
    BY <1>1 DEF NetState, MaxAge
  <1>3. attemptIn \in 0..MaxDelay /\ stopIn \in NoStop..PortalStopDelay
    BY <1>2, Delays, Durations DEF NoStop
  <1>4. bootAge = IF n.bootAge < SetupWindow THEN n.bootAge + 1 ELSE SetupWindow
    BY <1>2, Durations, MinOfTwo
  <1>5. windowAge \in 0..WifiWindow
    BY <1>2, Durations, MinOfTwo
  <1>6. age \in 0..MaxAge
    BY <1>2, Durations, Ages, MinOfTwo
  <1>7. Aged(n) = l
    BY DEF Aged, Later
  <1>8. stopIn = NoStop <=> n.stopIn = NoStop
    BY <1>2, Durations DEF NoStop
  <1>9. n.bootAge + n.attemptIn >= SetupWindow => bootAge + attemptIn >= SetupWindow
    BY <1>2, <1>4, Durations, Delays
  <1>10. n.bootAge = SetupWindow => bootAge = SetupWindow
    BY <1>4, Durations
  <1>11. bootAge \in 0..SetupWindow
    BY <1>2, <1>4, Durations
  <1> HIDE DEF attemptIn, stopIn, bootAge, windowAge, age
  <1>12. l \in NetState
    BY <1>1, <1>3, <1>5, <1>6, <1>11, LaterTyped
  <1>13. /\ l.attemptIn = attemptIn /\ l.stopIn = stopIn /\ l.bootAge = bootAge
         /\ l.mode = n.mode /\ l.radio = n.radio /\ l.web = n.web /\ l.sntp = n.sntp
         /\ l.job = n.job /\ l.route = n.route /\ l.initial = n.initial
         /\ l.candidates = n.candidates /\ l.failed = n.failed /\ l.active = n.active
         /\ l.exhausted = n.exhausted /\ l.overdue = n.overdue /\ l.accepted = n.accepted
         /\ l.schedule = n.schedule /\ l.armed = n.armed
    BY <1>1 DEF Later, NetState
  <1> HIDE DEF l
  <1>14. Sound(l)
    BY <1>8, <1>9, <1>10, <1>12, <1>13 DEF Sound, RadioFits, RouteFits, TryFits, PortalFits
  <1> QED
    BY <1>7, <1>13, <1>14

----------------------------------------------------------------------------
(* The ticks                                                               *)

\* An enqueued update is there, whichever it is.
LEMMA Enqueued ==
  ASSUME SlotType, NEW source \in TimeSource, enqueueTimeUpdate(source)
  PROVE  SlotType' /\ slot' # NoUpdate
  BY DEF SlotType, enqueueTimeUpdate, shouldReplacePendingTimeUpdate, TimeSource, NoUpdate

\* Some update is in the slot.
Pending == slot # NoUpdate

\* A time the portal has taken and the service has not been synced with.
Unapplied(n) == n.mode = "kPortal" /\ n.accepted /\ ~n.schedule

\* What any tick guarantees.
Ticked ==
  /\ Sound(net') /\ Fresh(net, net') /\ SlotType'
  /\ Pending => Pending'
  /\ Scheduled(net) => Scheduled(net') \/ Pending'
  /\ Unapplied(net') => Pending' \/ Unapplied(net)
  /\ net.mode = "kPortal" /\ net.persistent /\ net'.mode # "kPortal" /\ net'.overdue =>
       Unapplied(net)

LEMMA TickedQuietly ==
  ASSUME Sound(net), SlotType, Quiet
  PROVE  Ticked
  BY DEF Quiet, Ticked, Fresh, Pending, SlotType, Unapplied, Scheduled, Sound, RadioFits,
         RouteFits, TryFits, PortalFits

LEMMA TickedElsewhere ==
  ASSUME SlotType, UNCHANGED slot, net.mode # "kPortal", Sound(net'), Scheduled(net'),
         Fresh(net, net'), ~Unapplied(net')
  PROVE  Ticked
  BY DEF Ticked, Pending, SlotType

LEMMA TickWaitingForBleIsSound ==
  ASSUME Sound(net), SlotType, NEW started \in BOOLEAN, TickWaitingForBle(started)
  PROVE  Ticked
  <1>1. net.mode = "kWaitingForBle" /\ net \in NetState /\ Stoppable(net)
    BY SoundStops DEF TickWaitingForBle
  <1>2. CASE net.attemptIn > 0
    BY <1>2, TickedQuietly DEF TickWaitingForBle
  <1>3. CASE net' = net /\ UNCHANGED slot
    BY <1>3, TickedQuietly DEF Quiet
  <1>4. ASSUME NEW persistent \in BOOLEAN, net' = startPortal(net, persistent, started),
               UNCHANGED slot, net.route \in {"kUnselected", "kPortal"}
        PROVE  Ticked
    BY <1>1, <1>4, StartPortal, TickedElsewhere DEF Fresh, Unapplied
  <1>5. CASE net' = finishFailedAttempt(net) /\ UNCHANGED slot
    BY <1>1, <1>5, FinishFailed, TickedElsewhere DEF Fresh, Unapplied
  <1>6. ASSUME net' = startScan(net), UNCHANGED slot, net.initial,
               initialSyncPhase(net.bootAge) = "kNtp"
        PROVE  Ticked
    <2>1. net.route = "kUnselected"
      BY <1>6 DEF Sound, RouteFits
    <2>2. net.bootAge \in 0..SetupWindow
      BY <1>1 DEF NetState
    <2>3. net.bootAge = SetupWindow
      BY <1>6, <2>2, Durations DEF initialSyncPhase
    <2> QED
      BY <1>1, <1>6, <2>1, <2>3, StartScan, TickedElsewhere DEF Fresh, Unapplied, WifiModes
  <1>7. net.initial => net.route = "kUnselected"
    BY DEF Sound, RouteFits
  <1> QED
    BY <1>2, <1>3, <1>4, <1>5, <1>6, <1>7 DEF TickWaitingForBle

LEMMA TickPortalIsSound ==
  ASSUME Sound(net), SlotType, NEW post \in BOOLEAN, TickPortal(post)
  PROVE  Ticked
  <1> DEFINE n == IF post THEN handlePortalTime(net) ELSE net
             takes == post /\ ~net.accepted
  <1>1. net.mode = "kPortal" /\ net \in NetState
    BY SoundTyped DEF TickPortal
  <1>2. /\ Sound(n) /\ n.mode = "kPortal" /\ n.schedule = net.schedule
        /\ n.overdue = net.overdue /\ n.persistent = net.persistent
        /\ takes => n.stopIn # 0
        /\ ~takes => n = net
    BY <1>1, HandlePortalTime
  <1>3. SlotType' /\ (Pending => Pending') /\ (takes => Pending')
    <2>1. CASE takes
      <3>1. enqueueTimeUpdate("kPortal")
        BY <2>1 DEF TickPortal
      <3> QED
        BY <3>1, Enqueued DEF Pending, TimeSource
    <2>2. CASE ~takes
      BY <2>2 DEF TickPortal, SlotType, Pending
    <2> QED
      BY <2>1, <2>2
  <1>4. net' = IF n.stopIn = 0
               THEN IF n.schedule THEN armResync(n, WifiResync) ELSE finishFailedAttempt(n)
               ELSE IF SetupWindowOver(n) THEN startScan(n) ELSE n
    BY DEF TickPortal
  <1> HIDE DEF n, takes
  <1>5. n \in NetState /\ Stoppable(n)
    BY <1>2, SoundStops
  <1>6. /\ n.initial => n.route = "kUnselected"
        /\ n.route # "kBle"
        /\ n.schedule => ~n.overdue
        /\ n.stopIn # NoStop => n.accepted \/ n.schedule
    BY <1>2 DEF Sound, RouteFits, PortalFits
  <1>7. n.bootAge \in 0..SetupWindow
    BY <1>5 DEF NetState
  <1>8. CASE n.stopIn = 0 /\ n.schedule
    <2>1. WifiResync \in 0..MaxDelay /\ n.bootAge + WifiResync >= SetupWindow
      BY <1>7, Durations, Delays
    <2>2. Sound(net') /\ Scheduled(net') /\ net'.mode = "kIdle" /\ ~net'.overdue
      BY <1>4, <1>5, <1>6, <1>8, <2>1, ArmResync
    <2> QED
      BY <1>3, <2>2 DEF Ticked, Fresh, Unapplied
  <1>9. CASE n.stopIn = 0 /\ ~n.schedule
    <2>1. Sound(net') /\ Scheduled(net') /\ net'.mode = "kIdle"
      BY <1>4, <1>5, <1>9, FinishFailed
    <2>2. n.accepted /\ n = net
      BY <1>2, <1>6, <1>9 DEF NoStop
    <2> QED
      BY <1>3, <1>9, <2>1, <2>2 DEF Ticked, Fresh, Unapplied
  <1>10. CASE n.stopIn # 0 /\ SetupWindowOver(n)
    <2>1. n.bootAge = SetupWindow /\ ~n.persistent
      BY <1>7, <1>10, Durations DEF SetupWindowOver, initialSyncPhase
    <2>2. Sound(net') /\ Scheduled(net') /\ net'.mode \in {"kScanning", "kIdle"}
      BY <1>2, <1>4, <1>6, <1>10, <2>1, StartScan DEF WifiModes
    <2> QED
      BY <1>2, <1>3, <2>1, <2>2 DEF Ticked, Fresh, Unapplied
  <1>11. CASE n.stopIn # 0 /\ ~SetupWindowOver(n)
    BY <1>2, <1>3, <1>4, <1>11 DEF Ticked, Fresh, Unapplied, Scheduled
  <1> QED
    BY <1>8, <1>9, <1>10, <1>11

LEMMA TickScanningIsSound ==
  ASSUME Sound(net), SlotType, NEW scan \in ScanOutcome, NEW pick, TickScanning(scan, pick)
  PROVE  Ticked
  <1>1. net.mode = "kScanning" /\ Unfinished(net) /\ net \in NetState /\ Stoppable(net)
    BY SoundStops, SoundWorks DEF TickScanning
  <1>2. CASE net' = finishFailedAttempt(net) /\ UNCHANGED slot
    BY <1>1, <1>2, FinishFailed, TickedElsewhere DEF Fresh, Unapplied
  <1>3. CASE net' = processScan(net, scan.found, pick) /\ scan.done /\ UNCHANGED slot
    <2>1. scan.found \in SUBSET Bssid
      BY <1>3 DEF ScanOutcome
    <2> QED
      BY <1>1, <1>3, <2>1, ProcessScan, TickedElsewhere DEF Unfinished, WifiStep, Unapplied
  <1>4. CASE net' = net /\ UNCHANGED slot
    BY <1>4, TickedQuietly DEF Quiet
  <1> QED
    BY <1>2, <1>3, <1>4 DEF TickScanning

\* Every way out of an association that ends the window remembers the access point.
LEMMA GiveUp ==
  ASSUME NEW n, Unfinished(n)
  PROVE  LET r == finishFailedAttempt(rememberFailure(n)) IN
         Sound(r) /\ Scheduled(r) /\ r.mode = "kIdle"
  <1> DEFINE m == rememberFailure(n)
  <1>1. Working(m)
    BY RememberFailure DEF Unfinished
  <1> HIDE DEF m
  <1>2. m \in NetState /\ Stoppable(m)
    BY <1>1, SoundStops
  <1> QED
    BY <1>2, FinishFailed DEF m

LEMMA TickConnectingIsSound ==
  ASSUME Sound(net), SlotType, NEW connected \in BOOLEAN, NEW pick,
         TickConnecting(connected, pick)
  PROVE  Ticked
  <1>1. net.mode = "kConnecting" /\ Unfinished(net)
    BY SoundWorks DEF TickConnecting
  <1>2. CASE net' = finishFailedAttempt(rememberFailure(net)) /\ UNCHANGED slot
    BY <1>1, <1>2, GiveUp, TickedElsewhere DEF Fresh, Unapplied
  <1>3. CASE net' = startNtp(net) /\ UNCHANGED slot
    BY <1>1, <1>3, StartNtp, TickedElsewhere DEF WifiStep, Unapplied
  <1>4. CASE net' = failCandidate(net, pick) /\ UNCHANGED slot
    BY <1>1, <1>4, FailCandidate, TickedElsewhere DEF Unfinished, WifiStep, Unapplied
  <1>5. CASE net' = net /\ UNCHANGED slot
    BY <1>5, TickedQuietly DEF Quiet
  <1> QED
    BY <1>2, <1>3, <1>4, <1>5 DEF TickConnecting

LEMMA TickWaitingForNtpIsSound ==
  ASSUME Sound(net), SlotType, NEW plausible \in BOOLEAN, NEW worker, NEW pick,
         TickWaitingForNtp(plausible, worker, pick)
  PROVE  Ticked
  <1>1. net.mode = "kWaitingForNtp" /\ net \in NetState
    BY SoundTyped DEF TickWaitingForNtp
  <1>2. ASSUME NEW accepted \in BOOLEAN, net' = finishNtp(net, accepted, worker, pick),
               IF accepted THEN enqueueTimeUpdate("kNtp") ELSE UNCHANGED slot
        PROVE  Ticked
    <2>1. Sound(net') /\ WifiStep(net, net') /\ (~accepted => Scheduled(net'))
      BY <1>1, <1>2, FinishNtp
    <2>2. SlotType' /\ (Pending => Pending') /\ (accepted => Pending')
      <3>1. CASE accepted
        BY <1>2, <3>1, Enqueued DEF Pending, TimeSource
      <3>2. CASE ~accepted
        BY <1>2, <3>2 DEF SlotType, Pending
      <3> QED
        BY <3>1, <3>2
    <2> QED
      BY <1>1, <2>1, <2>2 DEF Ticked, WifiStep, Unapplied
  <1>3. CASE Quiet
    BY <1>3, TickedQuietly
  <1> QED
    BY <1>2, <1>3 DEF TickWaitingForNtp

LEMMA TickPortalAutomationIsSound ==
  ASSUME Sound(net), SlotType, NEW outcome, NEW pick, TickPortalAutomation(outcome, pick)
  PROVE  Ticked
  <1> DEFINE m == [net EXCEPT !.job = FALSE]
  <1>1. net.mode = "kWaitingForPortalAutomation"
    BY DEF TickPortalAutomation
  <1>2. Unfinished(m) /\ m.failed = net.failed /\ m.active = net.active
    BY <1>1, JobAloneStops
  <1>3. /\ UNCHANGED slot
        /\ \/ net' = finishFailedAttempt(rememberFailure(m))
           \/ net' = failCandidate(m, pick)
           \/ net' = net
           \/ \E submitted \in BOOLEAN : net' = finishPortalAutomation(net, submitted, pick)
    BY DEF TickPortalAutomation
  <1> HIDE DEF m
  <1>4. CASE net' = finishFailedAttempt(rememberFailure(m))
    BY <1>1, <1>2, <1>3, <1>4, GiveUp, TickedElsewhere DEF Fresh, Unapplied
  <1>5. CASE net' = failCandidate(m, pick)
    <2>1. Sound(net') /\ Scheduled(net') /\ WifiStep(m, net')
      BY <1>2, <1>5, FailCandidate DEF Unfinished
    <2> QED
      BY <1>1, <1>2, <1>3, <2>1, TickedElsewhere DEF WifiStep, Fresh, Unapplied
  <1>6. CASE net' = net
    BY <1>3, <1>6, TickedQuietly DEF Quiet
  <1>7. ASSUME NEW submitted \in BOOLEAN, net' = finishPortalAutomation(net, submitted, pick)
        PROVE  Ticked
    BY <1>1, <1>3, <1>7, FinishPortalAutomation, TickedElsewhere DEF WifiStep, Unapplied
  <1> QED
    BY <1>3, <1>4, <1>5, <1>6, <1>7

LEMMA TickIdleIsSound ==
  ASSUME Sound(net), SlotType, NEW started \in BOOLEAN, TickIdle(started)
  PROVE  Ticked
  <1> DEFINE w == [net EXCEPT !.armed = FALSE, !.overdue = TRUE]
             g == [net EXCEPT !.overdue = TRUE, !.grace = TRUE, !.attemptIn = BleGrace]
             n == [net EXCEPT !.armed = FALSE, !.grace = FALSE]
  <1>1. net.mode = "kIdle" /\ net \in NetState /\ UNCHANGED slot
    BY SoundTyped DEF TickIdle
  <1>2. CASE net' = net
    BY <1>1, <1>2, TickedQuietly DEF Quiet
  <1>3. CASE net.route = "kBle" /\ net' = w
    <2>1. /\ net' \in NetState /\ net'.overdue /\ net'.mode = net.mode
          /\ net'.radio = net.radio /\ net'.web = net.web /\ net'.sntp = net.sntp
          /\ net'.job = net.job /\ net'.route = net.route /\ net'.initial = net.initial
          /\ net'.candidates = net.candidates /\ net'.failed = net.failed
          /\ net'.active = net.active
      BY <1>1, <1>3 DEF NetState
    <2> QED
      BY <1>1, <1>3, <2>1, TickedElsewhere
         DEF Sound, RadioFits, RouteFits, TryFits, PortalFits, WifiModes, Scheduled, Fresh,
             Unapplied
  <1>4. CASE net.armed /\ net.route \in {"kPortal", "kNtp"} /\ net' = g
    <2>1. BleGrace \in 0..MaxDelay
      BY Durations, Delays
    <2>2. /\ net' \in NetState /\ net'.armed = net.armed /\ net'.mode = net.mode
          /\ net'.radio = net.radio /\ net'.web = net.web /\ net'.sntp = net.sntp
          /\ net'.job = net.job /\ net'.route = net.route /\ net'.initial = net.initial
          /\ net'.candidates = net.candidates /\ net'.failed = net.failed
          /\ net'.active = net.active
      BY <1>1, <1>4, <2>1 DEF NetState
    <2> QED
      BY <1>1, <1>4, <2>2, TickedElsewhere
         DEF Sound, RadioFits, RouteFits, TryFits, PortalFits, WifiModes, Scheduled, Fresh,
             Unapplied
  <1>5. CASE /\ ~(net.attemptIn > 0) /\ net.route # "kBle"
             /\ net' = IF n.route = "kPortal" THEN startPortal(n, TRUE, started) ELSE startScan(n)
    <2>1. /\ n \in NetState /\ n.mode = net.mode /\ n.attemptIn = net.attemptIn
          /\ n.bootAge = net.bootAge
          /\ n.radio = net.radio /\ n.web = net.web /\ n.sntp = net.sntp
          /\ n.job = net.job /\ n.route = net.route /\ n.initial = net.initial
          /\ n.candidates = net.candidates /\ n.failed = net.failed
          /\ n.active = net.active
      BY <1>1 DEF NetState
    <2> HIDE DEF n
    <2>2. Sound(n)
      BY <1>1, <2>1 DEF Sound, RadioFits, RouteFits, TryFits, PortalFits, WifiModes
    <2>3. CASE n.route = "kPortal"
      <3>1. /\ Sound(net') /\ Scheduled(net')
            /\ net'.mode \in {"kPortal", "kWaitingForBle", "kIdle"}
            /\ net'.mode = "kPortal" => ~net'.accepted
        BY <1>1, <1>5, <2>1, <2>2, <2>3, StartPortal
      <3> QED
        BY <1>1, <3>1, TickedElsewhere DEF Fresh, Unapplied
    <2>4. CASE n.route # "kPortal"
      <3>1. n.attemptIn \in 0..MaxDelay /\ n.bootAge \in 0..SetupWindow
        BY <2>1 DEF NetState
      <3>2. n.route = "kUnselected" => n.bootAge + n.attemptIn >= SetupWindow
        BY <1>1, <2>1, <2>2 DEF Sound, RouteFits
      <3>3. n.route = "kUnselected" => n.bootAge = SetupWindow
        BY <1>5, <2>1, <3>1, <3>2, Durations, Delays
      <3>4. Sound(net') /\ Scheduled(net') /\ net'.mode \in {"kScanning", "kIdle"}
        BY <1>1, <1>5, <2>1, <2>2, <2>4, <3>3, StartScan DEF WifiModes
      <3> QED
        BY <1>1, <3>4, TickedElsewhere DEF Fresh, Unapplied
    <2> QED
      BY <2>3, <2>4
  <1>6. net.armed \/ net' = net
    BY DEF TickIdle
  <1> QED
    BY <1>2, <1>3, <1>4, <1>5, <1>6 DEF TickIdle

LEMMA TickIsSound ==
  ASSUME Sound(net), SlotType, tick
  PROVE  Ticked
  BY TickWaitingForBleIsSound, TickPortalIsSound, TickScanningIsSound, TickConnectingIsSound,
     TickWaitingForNtpIsSound, TickPortalAutomationIsSound, TickIdleIsSound DEF tick

----------------------------------------------------------------------------
(* The system                                                              *)

\* What the portal has answered is on its way to the service.
PortalAnswers ==
  ~rejecting /\ Unapplied(net) => loop = "apply" \/ (loop = "take" /\ Pending)

\* TypeOK and the properties, strengthened to be inductive: every mode has its radio, its
\* routes and its candidates (Sound), and the update of an unscheduled idle service and of
\* a portal about to close are still to be applied.
IInv ==
  /\ TypeOK /\ Sound(net)
  /\ loop = "apply" <=> cur # NoUpdate
  /\ AcceptedIsScheduled /\ PortalAnswers

LEMMA BeginTyped ==
  ASSUME NEW confirmed \in BOOLEAN, NEW route \in SyncRoute, NEW delay \in 0..MaxDelay
  PROVE  begin(confirmed, route, delay) \in NetState
  <1>1. BleWindow \in 0..MaxDelay
    BY Durations, Delays
  <1>2. "kUnselected" \in SyncRoute
    BY DEF SyncRoute
  <1> QED
    BY <1>1, <1>2, Zeros DEF begin, NetState, Mode, MaxAge

LEMMA BeginIsSound ==
  ASSUME NEW confirmed \in BOOLEAN, NEW route \in SyncRoute, NEW delay \in 0..MaxDelay,
         confirmed <=> route # "kUnselected"
  PROVE  LET n == begin(confirmed, route, delay) IN
         Sound(n) /\ Scheduled(n) /\ n.mode # "kPortal"
  <1> DEFINE n == begin(confirmed, route, delay)
  <1>1. n \in NetState
    BY BeginTyped
  <1>2. /\ n.mode = IF confirmed THEN "kIdle" ELSE "kWaitingForBle"
        /\ n.initial = ~confirmed /\ n.armed = confirmed /\ n.route = route
        /\ n.candidates = {} /\ n.radio = "off" /\ ~n.web /\ ~n.sntp /\ ~n.job
    BY DEF begin
  <1> HIDE DEF n
  <1>3. Sound(n) /\ Scheduled(n) /\ n.mode # "kPortal"
    BY <1>1, <1>2
       DEF Sound, RadioFits, RouteFits, TryFits, PortalFits, WifiModes, Scheduled
  <1> QED
    BY <1>3 DEF n

LEMMA InitIsSound ==
  ASSUME Init
  PROVE  IInv
  <1>1. \E confirmed \in BOOLEAN, route \in SyncRoute, delay \in 0..MaxDelay :
          /\ confirmed <=> route # "kUnselected"
          /\ net = begin(confirmed, route, delay)
    <2>1. /\ 0 \in 0..MaxDelay /\ 0..BleResync \subseteq 0..MaxDelay
          /\ 0..WifiResync \subseteq 0..MaxDelay
      BY Durations, Delays
    <2> QED
      BY <2>1 DEF Init, SyncRoute
  <1>2. Sound(net) /\ Scheduled(net) /\ net.mode # "kPortal"
    BY <1>1, BeginIsSound
  <1>3. TypeOK
    BY <1>2, SoundTyped DEF Init, TypeOK, SlotType, NetType
  <1> QED
    BY <1>2, <1>3 DEF IInv, Init, AcceptedIsScheduled, IdleIsScheduled, Scheduled,
                      PortalAnswers, Unapplied

LEMMA HostEnqueueIsSound ==
  ASSUME IInv, HostEnqueue
  PROVE  IInv'
  <1>1. SlotType' /\ slot' # NoUpdate
    BY Enqueued DEF HostEnqueue, IInv, TypeOK, TimeSource
  <1> QED
    BY <1>1 DEF IInv, HostEnqueue, TypeOK, NetType, AcceptedIsScheduled, IdleIsScheduled,
                PortalAnswers, Unapplied, Pending, Sound, RadioFits, RouteFits, TryFits,
                PortalFits

LEMMA TakeIsSound ==
  ASSUME IInv, Take
  PROVE  IInv'
  BY DEF IInv, Take, TypeOK, SlotType, NetType, AcceptedIsScheduled, IdleIsScheduled,
         PortalAnswers, Unapplied, Pending, Sound, RadioFits, RouteFits, TryFits, PortalFits

LEMMA ApplyIsSound ==
  ASSUME IInv, NEW accepts \in BOOLEAN, Apply(accepts)
  PROVE  IInv'
  <1>1. /\ Sound(net) /\ SlotType /\ rejecting \in BOOLEAN
        /\ cur \in TimeSource
    BY DEF IInv, TypeOK, Apply
  <1>2. loop' = "tick" /\ cur' = NoUpdate /\ rejecting' = rejecting
    BY DEF Apply
  <1>3. CASE accepts
    <2>1. /\ Sound(net') /\ Scheduled(net')
          /\ net'.mode = "kIdle" \/ (net'.mode = "kPortal" /\ net'.schedule)
      BY <1>1, <1>3, OnExternalTimeSync DEF Apply
    <2>2. SlotType'
      BY <1>1, <1>3 DEF Apply, discardSupersededTimeUpdate, SlotType
    <2>3. TypeOK'
      BY <1>1, <1>2, <2>1, <2>2, SoundTyped DEF TypeOK, NetType
    <2> QED
      BY <1>2, <2>1, <2>3
         DEF IInv, AcceptedIsScheduled, IdleIsScheduled, Scheduled, PortalAnswers, Unapplied
  <1>4. CASE ~accepts
    BY <1>1, <1>2, <1>4
       DEF IInv, Apply, TypeOK, SlotType, NetType, AcceptedIsScheduled, PortalAnswers,
           Sound, RadioFits, RouteFits, TryFits, PortalFits
  <1> QED
    BY <1>3, <1>4

LEMMA LoopTick ==
  ASSUME IInv, Tick
  PROVE  IInv' /\ Ticked /\ (~rejecting => ~Unapplied(net))
  <1>1. /\ Sound(net) /\ SlotType /\ loop = "tick" /\ cur = NoUpdate
        /\ loop' = "take" /\ cur' = cur /\ rejecting' = rejecting /\ rejecting \in BOOLEAN
        /\ ~rejecting => ~Unapplied(net)
        /\ ~rejecting => Scheduled(net) \/ Pending
    BY DEF IInv, Tick, TypeOK, AcceptedIsScheduled, IdleIsScheduled, Scheduled, PortalAnswers,
           Pending
  <1>2. Ticked
    BY <1>1, TickIsSound DEF Tick
  <1>3. TypeOK'
    BY <1>1, <1>2, SoundTyped DEF TypeOK, NetType, Ticked
  <1> QED
    BY <1>1, <1>2, <1>3 DEF IInv, Ticked, AcceptedIsScheduled, IdleIsScheduled, Scheduled,
                            PortalAnswers, Pending

LEMMA CallbackIsSound ==
  ASSUME IInv, Callback
  PROVE  IInv'
  <1> DEFINE n == [net EXCEPT !.answered = TRUE]
  <1>1. /\ net' = n /\ net \in NetState
        /\ UNCHANGED <<slot, loop, cur, rejecting>>
    BY SoundTyped DEF Callback, ntpCallback, IInv
  <1>2. /\ net' \in NetState /\ net'.mode = net.mode /\ net'.radio = net.radio
        /\ net'.web = net.web /\ net'.sntp = net.sntp /\ net'.job = net.job
        /\ net'.route = net.route /\ net'.initial = net.initial
        /\ net'.bootAge = net.bootAge /\ net'.attemptIn = net.attemptIn
        /\ net'.candidates = net.candidates /\ net'.failed = net.failed
        /\ net'.active = net.active /\ net'.exhausted = net.exhausted
        /\ net'.schedule = net.schedule /\ net'.overdue = net.overdue
        /\ net'.stopIn = net.stopIn /\ net'.accepted = net.accepted /\ net'.armed = net.armed
    BY <1>1 DEF NetState
  <1>3. Sound(net')
    BY <1>2 DEF IInv, Sound, RadioFits, RouteFits, TryFits, PortalFits
  <1> QED
    BY <1>1, <1>2, <1>3 DEF IInv, TypeOK, SlotType, NetType, AcceptedIsScheduled,
                            IdleIsScheduled, PortalAnswers, Unapplied, Pending

LEMMA ElapseIsSound ==
  ASSUME IInv, Elapse
  PROVE  IInv'
  <1>1. /\ Sound(net') /\ net'.mode = net.mode /\ net'.armed = net.armed
        /\ net'.route = net.route /\ net'.overdue = net.overdue
        /\ net'.accepted = net.accepted /\ net'.schedule = net.schedule
        /\ UNCHANGED <<slot, loop, cur, rejecting>>
    BY TimePasses DEF IInv, Elapse
  <1> QED
    BY <1>1, SoundTyped DEF IInv, TypeOK, SlotType, NetType, AcceptedIsScheduled,
                            IdleIsScheduled, PortalAnswers, Unapplied, Pending

LEMMA StepIsSound ==
  ASSUME IInv, [Next]_vars
  PROVE  IInv'
  <1>1. CASE UNCHANGED vars
    BY <1>1 DEF vars, IInv, TypeOK, SlotType, NetType, AcceptedIsScheduled, IdleIsScheduled,
                PortalAnswers, Unapplied, Pending, Sound, RadioFits, RouteFits, TryFits,
                PortalFits
  <1>2. CASE Next
    BY <1>2, HostEnqueueIsSound, TakeIsSound, ApplyIsSound, LoopTick, CallbackIsSound,
       ElapseIsSound DEF Next, Main
  <1> QED
    BY <1>1, <1>2

\* The invariant the theorems below follow from.
THEOREM Soundness == Spec => []IInv
  BY InitIsSound, StepIsSound, PTL DEF Spec

----------------------------------------------------------------------------
(* The properties                                                          *)

\* The state of the loop, the slot and the service stays within its types: no
\* countdown, attempt or failure count leaves its range.
THEOREM TypeCorrect == Spec => []TypeOK
  <1>1. IInv => TypeOK
    BY DEF IInv
  <1> QED
    BY <1>1, Soundness, PTL

\* The radio, the portal's servers, SNTP and the automation job are on exactly in
\* their modes, after every sync, timeout, failure and refused access point.
THEOREM RadioCorrect == Spec => []RadioFollowsMode
  <1>1. IInv => RadioFollowsMode
    BY DEF IInv, Sound, RadioFits, RadioFollowsMode, WifiModes
  <1> QED
    BY <1>1, Soundness, PTL

\* No BLE route powers Wi-Fi, no NTP route a portal, no clock scans before its setup
\* window is over, and none after the table of failures has overflowed.
THEOREM WifiAllowed == Spec => []WifiIsAllowed
  <1>1. IInv => WifiIsAllowed
    BY DEF IInv, Sound, RouteFits, TryFits, WifiIsAllowed, wifiBusy
  <1> QED
    BY <1>1, Soundness, PTL

\* As long as TimeKeeper applies what the producers have checked, an idle service has
\* something to wait for.
THEOREM Schedules == Spec => []AcceptedIsScheduled
  <1>1. IInv => AcceptedIsScheduled
    BY DEF IInv
  <1> QED
    BY <1>1, Soundness, PTL

\* An access point that failed in this boot is never associated with again, however
\* often it is found and whichever way the attempt failed.
THEOREM FailedStaysUntried == Spec => FailedIsNeverTried
  <1> DEFINE A == net'.mode = "kConnecting" /\ net'.active # net.active =>
                    net'.active \notin net.failed
  <1>1. ASSUME IInv, [Next]_vars
        PROVE  A \/ UNCHANGED vars
    <2>1. CASE Tick
      BY <1>1, <2>1, LoopTick DEF Ticked, Fresh
    <2>2. CASE HostEnqueue \/ Take
      BY <2>2 DEF HostEnqueue, Take
    <2>3. ASSUME NEW accepts \in BOOLEAN, Apply(accepts) PROVE A
      <3>1. CASE accepts
        <4>1. cur \in TimeSource
          BY <1>1, <2>3 DEF IInv, TypeOK, Apply
        <4> QED
          BY <1>1, <2>3, <3>1, <4>1, OnExternalTimeSync DEF Apply, IInv
      <3>2. CASE ~accepts
        BY <2>3, <3>2 DEF Apply
      <3> QED
        BY <3>1, <3>2
    <2>4. CASE Callback
      <3>1. net \in NetState
        BY <1>1, SoundTyped DEF IInv
      <3>2. net'.active = net.active
        BY <2>4, <3>1 DEF Callback, ntpCallback, NetState
      <3> QED
        BY <3>2
    <2>5. CASE Elapse
      BY <1>1, <2>5, TimePasses DEF Elapse, IInv
    <2> QED
      BY <1>1, <2>1, <2>2, <2>3, <2>4, <2>5 DEF Next, Main
  <1>2. IInv /\ [Next]_vars => [A]_vars
    BY <1>1
  <1> QED
    BY <1>2, Soundness, PTL DEF Spec, FailedIsNeverTried

\* A refresh portal is closed by a sync only, as long as what it has answered is applied.
THEOREM PortalStaysOpen == Spec => PortalOpenUntilSuccess
  <1> DEFINE A == ~rejecting /\ net.mode = "kPortal" /\ net.persistent /\ net'.mode # "kPortal"
                    => ~net'.overdue
  <1>1. ASSUME IInv, [Next]_vars
        PROVE  A \/ UNCHANGED vars
    <2>1. CASE Tick
      BY <1>1, <2>1, LoopTick DEF Ticked
    <2>2. CASE HostEnqueue \/ Take
      BY <2>2 DEF HostEnqueue, Take
    <2>3. ASSUME NEW accepts \in BOOLEAN, Apply(accepts) PROVE A
      <3>1. CASE accepts
        <4>1. cur \in TimeSource
          BY <1>1, <2>3 DEF IInv, TypeOK, Apply
        <4> QED
          BY <1>1, <2>3, <3>1, <4>1, OnExternalTimeSync DEF Apply, IInv
      <3>2. CASE ~accepts
        BY <2>3, <3>2 DEF Apply
      <3> QED
        BY <3>1, <3>2
    <2>4. CASE Callback
      <3>1. net \in NetState
        BY <1>1, SoundTyped DEF IInv
      <3>2. net'.mode = net.mode
        BY <2>4, <3>1 DEF Callback, ntpCallback, NetState
      <3> QED
        BY <3>2
    <2>5. CASE Elapse
      BY <1>1, <2>5, TimePasses DEF Elapse, IInv
    <2> QED
      BY <1>1, <2>1, <2>2, <2>3, <2>4, <2>5 DEF Next, Main
  <1>2. IInv /\ [Next]_vars => [A]_vars
    BY <1>1
  <1> QED
    BY <1>2, Soundness, PTL DEF Spec, PortalOpenUntilSuccess

=============================================================================
