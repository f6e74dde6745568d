# ESPClock: a TLA+ model of the clock and its companion

ESPClock is an ESP32 clock that is set over BLE by an iPhone, over a captive
setup portal by any phone, or over open Wi-Fi by NTP. This directory holds
TLA+ modules translated from its source, the TLC configurations that check
them, and TLAPS proofs. Paths below are relative to the repository.

Run everything from this directory: `tlc -config X.cfg M` for a run of the
table below, `tlapm M.tla` for the proofs of a `*Proofs` module.

## 1. Inventory

| Part | State it keeps | Operations | Hard behaviour |
|---|---|---|---|
| Main loop, `src/main.cpp` | one pending time update under a mutex; recovery button | enqueue, dequeue, discard, `loop`, recovery | three producers on two tasks, priorities, updates superseded between two critical sections |
| `BleTimeService` | connection, bonded flag, pending-write flag, last accepted write, sync-request retries, advertising mode | write callback, `reportTimeResult`, connect/authenticate/disconnect, `requestSync`, `tick` | callbacks of the NimBLE host task against the main task; rate limiting; advertising recovery |
| `TimeKeeper` | trusted baseline, route, offset, last sync in RAM; record and four legacy keys in flash; optional RTC | `begin` (with migration), `apply`, `clearSyncTrust` | power loss between any two writes, failing writes, damaged record, RTC without power |
| `NetworkTimeService` | mode, deadlines, route, portal and scan state, failed access points, schedule | `begin`, `tick` in seven modes, `onExternalTimeSync` | deadlines that race with updates, tear-down from any mode, refresh schedule that must never dry up |
| Portal HTTP server (in `NetworkTimeService`) | one client, its half-read request, two deadlines | one tick per pass, up to 256 bytes | requests split at any byte, limits at their boundary, members left behind by the request before, slow phones |
| Access-point choice, `WifiCandidateRanker`, `BssidAttemptTracker` | ranked candidates, failed access points | `consider`, `add` | insertion at capacity, duplicates in any order |
| Captive-portal worker, `CaptivePortalAutofill` | command and completion queues, generation | `start`, `cancel`, `poll`, task loop | stale completions, cancellation between check and send |
| Captive-portal form core | the form that is open, the best one so far, the cookie jar | one pass over a page's tags; `add`, `headerFor` | nested and unclosed forms, limits, radio groups, replacement at capacity |
| `ClockCore` | none | pure policies | boundaries |
| Display | light level, sensor counters, key of the last frame | `tick`, sensor sampling | a sensor that comes and goes, hysteresis, a cached frame that depends on the level |
| iOS companion, `ClockSyncManager` | Bluetooth state, acknowledgement and reconnect state, timers | CoreBluetooth callbacks, timers, user commands | callbacks in any order, stale timers, retries |

How they interact. The producers call `enqueueTimeUpdate` (the BLE callback
from the host task; the portal and the NTP client from `networkTime.tick` on
the main task). `loop` dequeues one update, `TimeKeeper::apply` accepts or
rejects it, BLE is told the result, `NetworkTimeService::onExternalTimeSync`
selects the route and schedules the next refresh, and
`discardSupersededTimeUpdate` drops a queued update that is no stronger. The
main task then ticks both services. The service asks for BLE through
`takeBleSyncRequest`; it drives the captive-portal worker through queues.

What makes each part correct: a BLE write is answered and none gets through the
limiter early; the durable trust is always one whole accepted tuple and never
newer than the RTC; the radio is on only in the mode, route and phase that may
use it; failed access points are not retried; refreshes and searches come
again for ever; the portal takes a time only from a whole request and keeps nobody
waiting; the clock submits a stranger's form only if it holds nothing it must not
answer, and then the best one; the panel shows the last frame asked for, at the
level of the light.

## 2. Modules

* `ClockCore` - the pure policies of `src/ClockCore.cpp` the modules use.
* `PendingSlot` - the slot of `main.cpp`. `slot` is the source of the pending
  update, or `NoUpdate`; one operator per critical section.
* `TimeArbitration` - the write callback of `BleTimeService` (`Write...`
  actions, the NimBLE host task) and `loop` (`Main...` actions), each atomic
  access a step. `careful` is a rigid choice: a client that waits for the answer
  to a write before the next one, or any client. `status` is the status
  characteristic. `superseded` and `lastBleApplied` are history. Whether
  `TimeKeeper` accepts is left open.
* `DurableTrust` - the abstract promise of `TimeKeeper`: durable trust changes
  only to the whole tuple of an accepted update, or to nothing, and never
  leaves the BLE route.
* `TimeKeeper` - `begin`, `apply` and `clearSyncTrust` with one action per write
  (`phase` says where it is), `PowerLoss` anywhere, failing `putBytes`,
  `BlobDamage`, `RtcPowerLoss`. It implements `DurableTrust` under the mapping
  `trust <- DurableTuple` (what the next `begin` would recover: the record if it
  decodes, the legacy keys if there is no record) and
  `pending <- AcceptedTuple` (RAM, from acceptance to the record's write).
* `NetworkTimeService` - one operator from state to state per method, so that
  `finishNtp` composes `stopNetworkActivity`, `startPortalAutomation`,
  `rememberFailure` and `connectNextCandidate` as the code does; one action per
  mode of `tick`. Deadlines are kept relative to `millis()`.
* `EspClock` - the main loop around `NetworkTimeService`: `Take`, `Apply`, `Tick`,
  with BLE updates enqueued between any two steps. `rejecting` is a rigid choice:
  `TimeKeeper` applies whatever its producers have found acceptable, or may reject
  the updates of `Rejectable`.
* `PortalHttp` - `servicePortalHttp`: `ServiceBegins`, a `Read` for each byte and
  `ServiceEnds` make one tick; phones arrive, close and stall in between. `http` is
  the record of the `portalHttp...` members. A byte is a CR, an LF, a control or any
  other, what a line says (`RequestKind`, `HeaderKind`) is open until it ends. `heard`
  is history: the lines of the request.
* `WifiRanking` - `WifiCandidateRanker` and `BssidAttemptTracker` with scans that
  report access points in any order, any number of times, and candidates that fail.
* `CookieJar` - `CookieJar::add` and `headerFor`; a cookie is its host, its name and
  the length of its pair.
* `PortalForm` - `buildSubmission` as an automaton over the tags of a page. A control
  is a record of the answers the code gets to its questions (is it a terms box, does the
  button say no, is it required), not of its text; a field remembers the control it came
  from. `seen` and `offers` are history: what the page shows, from which `Offer` says,
  without the code's bookkeeping, whether a form may be sent and what it is worth.
* `Display` - `DisplayController::tick` over `LightLevelController` and the OLED's
  cache of its last frame.
* `Recovery` - `handleRecoveryButton`: what a pass of the loop sees of the button, the two
  erasures and the restart, with a power loss at any step. `downAge` is history.
* `Parts` - `WifiRanking`, `CookieJar`, `PortalForm`, `Display` and `Recovery` side by
  side: they share no state, so a behaviour is a behaviour of one of them. `MCParts` is
  the instance TLC checks.
* `BleLink` - the rest of `BleTimeService`: the callbacks of the NimBLE host task
  (`PhoneConnects` to `DisconnectRestart`) and `tick` on the main task (`Tick...`, one
  step per access the other task could come between). `link`, `peer`, `adv`,
  `intervals` and `failures` are the stack, which the source only uses: it stops
  advertising when a phone connects, takes one connection, keeps the cadence it
  was started with and may refuse to start, to stop or to disconnect a phone
  (`disconnect`: the link stays, and its phone may still pair). `admitted`, `unwanted`
  and `straddled` are history.
* `Companion` - the iOS app's `ClockSyncManager` and `OnboardingLifecycle`. `app` is one
  record, each method an operator from `app` to `app`, each callback, timer, tap or
  session event an action: everything runs on the main actor, so only their order is
  open. `app.clock[c]` joins the app's `ClockRuntime` (`known` says that there is
  one) with what Core Bluetooth has of the clock (`link`, `gatt`, `subscribed`, `writes`).
  Of Core Bluetooth the module assumes what its documentation says: below `poweredOn`
  every link is gone without a callback, a connection request has no timeout, a manager
  has one object for a peripheral; and that the link of a revoked accessory is dropped.
  The app may be ended at any moment and relaunched with or without its links.
* `PortalJob` - the abstract promise of the captive-portal worker: at most one answer
  to the job that is waited for, on the association it was asked on.
* `PortalWorker` - the worker task of `CaptivePortalAutofill` and the part of
  `NetworkTimeService` that drives it. `command` and `completion` are the one-deep
  queues, `currentGeneration` the atomic; `main` and `worker.at` say where the two tasks
  are, each queue operation and each access to the atomic a step. Within a job
  `RunLoop` is one pass of `run`, `Connect` to `Read` one request of
  `requestFollowingRedirects`; a head and a body are two writes, each behind
  `writeAll`'s test of the generation. Connections live on the access point they were
  made over (`socket`) and end with it. `home` and `late` are history. It implements
  `PortalJob` under `job <- WaitedFor`: the job is answered as soon as its own
  completion is in the queue, wherever the worker is by then.
* `TimeArbitrationProofs`, `TimeKeeperProofs`, `EspClockProofs`, `BleLinkProofs`,
  `PortalWorkerProofs`, `PortalHttpProofs`, `CompanionProofs`, `PartsProofs` - the theorems
  about the module each is named for, with their proofs.

Operators marked `MUTANT` are not used by any specification: each is a
plausible bug of the definition that follows it, kept to show that a property
notices it (`PROJECT.json` pairs them).

## 3. Runs

| Run | Question | Result |
|---|---|---|
| `arbitration` | every interleaving of write callback and loop | all properties hold |
| `arbitration_stuck` | the same for a client that does not wait | **violated**: the pending flag outlives its update |
| `timekeeper` | crashes, failing writes, migration, recovery | all hold, including the refinement of `DurableTrust` |
| `espclock` | radio, route, onboarding and access-point discipline, with updates rejected or not; does the schedule ever dry up | all hold; the schedule lasts if checked updates are applied |
| `espclock_parked` | the same when a BLE update is rejected | **violated**: NTP route with no next attempt |
| `espclock_scan` | does a portal-route clock scan Wi-Fi | **violated** at the end of the setup window |
| `blelink` | who restarts advertising, how fast, who may bond, how often a phone is asked | all hold |
| `blelink_silent` | does the clock come back on the air | **violated**: recovery gives up for good |
| `companion` | attempts and their timers, unwanted and wanted clocks, a manual sync, whatever the order of events | all hold |
| `portal_worker` | whose answer is taken, what a job that was given up still does, does the worker come back | all hold, including the refinement of `PortalJob` |
| `portal_http` | requests of any bytes cut anywhere: what is taken, and does a slow phone block the next | all hold |
| `parts` | the best access points, a sound jar, the best allowed form and its fields, the panel and its light, a deliberate recovery | all hold |

The four violations are disagreements between the code and its own comments or
README; `PROJECT.json` quotes both sides under "findings". Two more disagreements have no
run of their own; the models behave there as the code does, and the properties say so:

* README.md 474 has new unbonded phones rejected after the two-minute window.
  `onConnect` asks NimBLE to disconnect one; if NimBLE refuses, it only logs that
  (BleTimeService.cpp 257-262), nothing tries again, and `onAuthenticationComplete`
  accepts the phone's pairing whether it was admitted or not. Four steps of `BleLink`
  lead there: the window ends, a phone connects, is refused its disconnection, pairs.
  `NewBondsAreAdmitted` therefore excepts the phone that is `unwanted`.
* README.md 498-499 has unknown required choices of a captive portal's form fail closed. A
  required checkbox of unknown meaning does; a required radio group of unknown meaning
  is answered with its first button, or the checked one (CaptivePortalAutofillCore.cpp
  989-1001). `Forbidden`, and with it `SubmissionIsBestAllowed`, bars the checkbox only.

`RadioFollowsMode`, `AdvertisingIsOwned` and `LinkFollowsWish` include the types of their
modules.

What the properties of `espclock` say together: `RadioFollowsMode` relates the mode to
what the radio, the portal and the worker are doing; `WifiIsAllowed` says when Wi-Fi work
may be under way at all (unconfirmed after the setup window, or on the NTP route, never
once the table of failed access points is full); `FailedIsNeverTried`,
`PortalOpenUntilSuccess` and `AcceptedIsScheduled` are the discipline of attempts, of the
refresh portal and of the schedule, and `WifiWorkEnds` and `SearchGoesOn` its liveness.

### Bounds

* `TimeArbitration`: `AcceptInterval = 2`, `MaxTime = 6`: three full limiter
  intervals, so a write can be accepted, refused and accepted again, with the
  host task delayed across an interval. `MillisRange = 64` is the width of the
  unsigned subtraction; it only has to exceed the uptime for the wrapped
  difference to be huge, as 2^32 ms is. While the main task handles one update
  at most one unit begins, since it never blocks for seconds; 49.7-day uptimes
  are outside the model.
* `TimeKeeper`: epochs 2..4 valid with 1 and 5 just outside, tolerance 1 (so a
  correction by 2 is refused), offsets -1..1 valid with 2 offered. Time may run
  past the last valid epoch. Updates, power losses and damage are unbounded.
* `NetworkTimeService`: every interval is one to four units, in the order the
  code's constants have; counters stop where the code no longer tells a
  difference, so time, failures and updates are unbounded and the state space
  is finite. Three access points with a table of two failures and two
  attempts per window reach both limits; two portal starts stand for three.
* `BleLink`: two phones and room for one bond, so that pairing evicts. The pairing
  window, the recovery interval and the retry are one unit and the refresh two;
  ages stop where the code no longer tells a difference, so time, reboots,
  connections and failures are unbounded. `MaxFailures` bounds the starts refused in a
  row: one in `blelink`, so that recovery succeeds, four in `blelink_silent`, one
  more than recovery tries. At most one unit begins in a pass of the loop, and none
  between a connection and its callback.
* `Companion`: a clock the user does anything with, and one (`Quiet`) whose automatic
  sync is off, which shares the session, the scan and the manager with it. Two
  attempts and three reconnects as in the code. `MaxWrites` bounds the writes whose
  response is still to come, two being the overlap of an old and a new attempt. A
  timer has no duration, so it may fire at any time after it is set. Clocks, taps,
  radio changes and relaunches are unbounded.

* `PortalWorker`: two access points, so that a job given up on one meets the next;
  two submissions and two redirects stand for the code's limits, so that a job may be
  redirected before, between and after its forms. `MaxGeneration = 5` bounds
  the generations a job may get: enough for a job running, one given up in the
  command queue and one in the completion queue at the same time, each of another
  access point. The wrap of the 32-bit generation is outside the model. The proofs hold
  for every bound.

* `PortalHttp`: a line buffer of four bytes, fifteen bytes of headers (enough for a
  request line, two headers and the empty line), a body of two and two bytes a tick: every
  limit of the parser is met exactly and by one byte more, in the middle of a tick and at
  its end. The idle timeout is one unit, the total two.
* `Parts`: four access points for a list of three and a table of two; two hosts with
  two names for a jar of three cookies, nine bytes in pairs of up to four; two forms
  and two controls of a page of three, every kind of control among them; two light
  boundaries, so that a level may be passed over, and four readings around them; a hold of
  three units, which two presses of two would add up to. Pages,
  scans, jobs and time are unbounded but for `MaxTags`, the controls of a page.

### Fairness

* `TimeArbitration`: the main loop never blocks and a callback that has begun
  runs to its end (weak fairness of `MainNext` and of the callback's steps). No
  fairness for a central's writes.
* `EspClock`: the loop runs (`Main`) and time passes (`Elapse`). Nothing is
  assumed of phones, access points, time servers or the worker: the liveness
  properties rest on the code's own timeouts.
* `BleLink`: the loop runs (`Main`), a callback that is due runs to its end
  (`Callback`) and time passes (`Elapse`). Phones come, pair and go as they like, and
  NimBLE refuses a start only `MaxFailures` times in a row.
* `Companion`: the timers of an attempt fire (`AttemptTimer`) and a subscribed clock
  that is not answered asks again (`ClockAsks`), which is what
  `ConnectedPhoneIsAskedAgain` of `BleLink` shows. Nothing is assumed of iOS, the user
  or the radio: `ManualSyncEnds` holds for a connection that lasts.
* `PortalWorker`: the worker runs, and its blocking calls return, since each has a
  timeout of its own (`WF_vars(Worker)`). Nothing is assumed of the main task, the
  portal or the access points: `WorkerComesBack` rests on the limits of submissions and
  redirects and on the generation.

* `PortalHttp`: the loop services the portal and time passes; nothing is assumed of
  phones, so `WaitingPhoneIsServed` rests on the two timeouts.
* `Parts`: the loop ticks the display and time passes; `SensorIsUsedAgain` is for a
  sensor that works from some time on.

## 4. Proofs

Every safety property of a passing run is a theorem. The statements hold for every value
of the constants under the assumptions the modules declare, and TLC evaluates these for the
instances of the runs:

| Assumption | What it asks, and why the code justifies it |
|---|---|
| `BoundsAssumption` (`TimeArbitration`) | the limiter's interval is at least two units, and the uptime ends before `millis()` wraps |
| `EpochAssumption`, `BlobAssumption` (`TimeKeeper`) | an interval of valid epochs, a positive limit of offsets; the marks for no record and a damaged one are no records |
| `DurationsAssumption` (`NetworkTimeService`) | durations and limits are positive; the BLE window ends before the setup window, as `AppConfig.h` asserts |
| `ResyncAssumption` (`NetworkTimeService`) | the setup window is not longer than the daily refresh: two minutes and a day by default. `AppConfig.h` asserts nothing of the kind. A sync schedules the refresh one interval ahead and the service idles until then; should that come before the setup window is over, a clock without a route would scan within it |
| `RejectableAssumption` (`EspClock`), `WorkerAssumption` (`PortalWorker`), `CompanionAssumption` (`Companion`) | sets are subsets of what they are said to be, limits are positive |
| `LinkAssumption` (`BleLink`) | the bond store has room for one, windows and limits are positive; `MaxFailures` may be anything |
| `HttpAssumption` (`PortalHttp`) | buffers and limits are positive, the idle timeout is below the total |
| `FormAssumption`, `JarAssumption`, `RankingAssumption`, `DisplayAssumption`, `HoldAssumption` (`Parts`) | capacities are positive; signals and addresses are integers, and the mark for "not heard" is no signal |

A proof follows one pattern: a lemma for each operator of the module says what it makes of
any state that satisfies the invariant, a step per action puts these together, and the
theorem rests on the three facts `Init => IInv`, `IInv /\ [Next]_vars => IInv'` and
`IInv => Inv`. None of the properties below is inductive by itself; what had to be added
is the interesting part.

**`TimeArbitrationProofs`**: `TypeCorrect`;
`CarefulNeverStuck`, that a client which waits for its answers never sees the
pending flag without an update on its way; `CarefulWritesSpaced`, that two of its
accepted updates are at least the limiter's interval apart; and, for any client,
`SupersededStays`, that no update is taken from the slot once a sync has superseded it.

The first two safety properties are not inductive. `IInv` adds to `TypeOK`, for a careful
client: `OneWrite` (at most one BLE update exists, and the flag is up exactly while
it does), `HostReads` (the stamp the callback has read is still the current one,
although it reads it without the lock), `LimiterClosed` (until the main task has
finished an accepted BLE update no write passes the checks) and `Spaced` (the stamp
follows the acceptance). `LimiterClosed` is the interesting one: the main task runs
`discardSupersededTimeUpdate` after it has cleared the flag, and only the limiter
keeps a new BLE write from arriving in between and being discarded with its flag up.
The lemmas `BleEnters`, `MainProducersYield` and `SlotTyped` say what the
arbitration of `ClockCore` does with the slot. A consequence worth knowing: the
portal and NTP produce their updates on the main task itself, so the only update
`discardSupersededTimeUpdate` can ever find is a BLE update queued behind a BLE
update - for a client that does not wait, the stuck flag of `arbitration_stuck`.
`SupersededStays` needs `DiscardComes`: an update is superseded only between the apply and
the discard of the same pass, where the slot still holds it and it is no stronger than what
was applied. What the host task enqueues meanwhile is a later update, which nothing has
superseded yet.

**`TimeKeeperProofs`**: `TypeCorrect`;
`Forgotten`, `RtcAgrees`, `TrustPaired` and `BootRestores`, one for each property of
the run `timekeeper`; and `ImplementsDurableTrust`, the refinement. `IInv` adds to
`TypeOK` what each phase of `begin` and `apply` may rely on:

* `RamAgrees`: up to the end of `begin` the RAM holds exactly the tuple in flash, and
  the old keys are removed only while the record that replaces them is there;
* `RouteFollows`: after a failed write the RAM's route may be ahead of the one in
  flash, but then it is BLE. Without it the refinement's step from a failed
  write to the next accepted update could move the durable route off BLE;
* `RtcPaired`: from `adjust` on a fitted RTC shows the time just applied.

`DurableStep` is the lemma both the invariant and the refinement rest on: only the
write of the record, recovery and damage change what a boot recovers; migrating and
removing the old keys do not, whatever is lost in between.

**`PortalWorkerProofs`**: `TypeCorrect`; `StaysHome`, that
nothing is written to another access point than the job's own; `LateWorkBounded`, that
a job given up makes at most one more connection and one more write; and
`KeepsPromise`, the refinement of `PortalJob`. `IInv` adds to `TypeOK`:

* `MainOrder`: what the main task knows of its job at each step of `start`, above all
  that no queue and no worker holds the generation it has just counted;
* `GenerationsGrow`: nothing in the queues or the worker is of a later generation than
  the main task's, so that a new generation is new everywhere;
* `JobIsInOnePlace`: the current job is in the command queue, in the worker or in the
  completion queue, in one of them only, and was asked on the present association.
  Without it the check of the generation before the send (line 554) would not keep a
  second answer to the same job out of the queue;
* `ResultsFit`, `FormsFit`, `SocketsFit`, `LateFits`: a current job never ends as
  cancelled; a form is only sent while submissions are left; the connection of a job that
  has passed the test of its generation is its own; what is late is counted.

The refinement shows that the window between the worker's last test and its send is
harmless: `start` may store a new generation and reset the queue in between, but the
completion carries the old one and `Poll` throws it away. It may, while it waits there, keep
the new job's completion out of the full queue; that job then ends by its timeout.

**`EspClockProofs`**: `TypeCorrect`, `RadioCorrect`, `WifiAllowed`, `Schedules`,
`FailedStaysUntried` and `PortalStaysOpen`, for every duration and any set of access
points. `Sound` says of a state of the service:

* `RadioFits`: radio, web server, SNTP and job are on exactly in their modes;
* `RouteFits`: what each route allows. An idle clock without a route has its next
  attempt not before the end of the setup window: without that clause the wake-up from
  `kIdle` could start a scan too early, and this is where `ResyncAssumption` is needed;
* `TryFits`: candidates still to be tried have not failed and are not the active one, so
  that `rememberFailure` may be followed by `connectNextCandidate` in the same call;
* `PortalFits`: a portal with a stop deadline has taken a time or been synced, and after a
  sync no refresh is overdue. `PortalOpenUntilSuccess` rests on it: the deadline closes the
  portal long after the sync that set it.

`Scheduled` (an idle service is armed, or waits for BLE as its route) is kept as long as
`TimeKeeper` applies what its producers have checked, which is what `AcceptedIsScheduled`
asks. In the middle of a method the invariant is broken - SNTP is stopped before the next
association starts - and `Working`, `Unfinished` and `Stoppable` say what holds there.

**`BleLinkProofs`**: `AdvertisingOwned` (with the types) and `NewBondsAdmitted`, for any
phones. `ConnectionFits` ties `connectionCount_` to the link through the callbacks,
`CadenceFits` is the order of `transitionToSlowAdvertising`, and `OnAir` says who has to
start advertising when it is off: NimBLE refused, or the window is over and the main task
has not changed the cadence yet. `BondsFit` says that a stranger on the link came in the
window and that there is room for it, which `onConnect` saw to when it evicted - it has to
hold until the pairing ends, after the window - or else that NimBLE refused to disconnect
it. The last is the condition under which `NewBondsAdmitted` is true of the code; without
it the code does what section 3 describes.

**`PortalHttpProofs`**: `TypeCorrect`, that no index leaves its buffer, and
`WholeRequestsOnly`, for any limits. `RequestFits` says what the members of the parser know
of the lines read so far, at each stage: a request line finds nothing left of the request
before it, a header line has seen one length and one type, a body belongs to a whole
request. It says so only while a client is there, so it rests on the reset of every
member before the first byte of the next one.

**`CompanionProofs`**: `ManagerForClocks`, `AttemptsEnd` and `LinksAreWanted` (with the
types), for any set of clocks, attempts and reconnects. `Settled` is what holds of a
clock's record whatever Bluetooth does: an attempt has its timer, and without a peripheral
there is nothing to wait for, save a link of the last launch that is still to be restored.
`Powered` is what holds while the radio is on: a clock with automatic sync is connected,
waits for its timer or is out of reconnects; a radio that goes off takes the links and leaves
the rest of the record for the manager to clear up. `ManagerFits` ties the manager to the
lifecycle's flag; `Loose` and `Stoppable` say what is left of all this while a session ends
and its clocks are removed one after the other.

**`PartsProofs`**: one theorem or two for each part; a step of `Parts` is a step of one part
(`PartsStep`), so each has an invariant of its own.

* `DeliberateRecovery`: while the gesture is remembered the button has been down at least as
  long as it is old, and the phones are forgotten only when there is no sync
  (`PressIsHonest`).
* `BrightnessFollows`, `PanelFollows`: the level is within the hysteresis of the band the
  last light is in, the brightness is that level or the fallback, and the panel shows the frame
  whose key the backend remembers, at the brightness it has (`DisplayInv`).
* `RankingSound`: the list is `BestOf` what was heard. The lemmas say what an insertion,
  a removal and the shift at capacity do to an ordered list of distinct access points.
* `JarSound`: `bytes_` is the sum of the pairs, each cookie is there once, at its latest
  length (`JarInv`).
* `SubmissionSound`, `FieldsSound`: `FormInv` relates the code's bookkeeping to the page.
  `Fits` says that the open form's flags are up exactly when the page bars the form, that
  its score is the worth of its controls, that every field comes from a control the clock may
  answer for, and (`Care`) that a group of radio buttons has one field, of the last
  checked button so far or of an unchecked one while none is checked. `Forbidden`, which
  says what bars a form, is read off the code and not off README.md 498-499: a required
  radio group of unknown meaning bars no form (section 3). `BestKnown` says that
  the best form remembered is the first of the best of those closed. `addField` with no
  room left is why a checked button may be without a field: then the form is blocked.

The jar's sum, a form's worth and the length of a `Cookie` header are folds over lists of any
length. The induction they need is made by hand: the library's induction theorems are of no
use here, so `Upward` derives from the well-foundedness of strict inclusion that a
set of numbers which holds 0 and with each number the next holds them all, `FoldExists` builds the
table of partial results with it, and the lemmas on each fold go up that table.

## 5. Only model-checked

The liveness properties (`EveryWriteIsAnswered`, `WifiWorkEnds`, `SearchGoesOn`,
`RecoveryIsTried`, `ConnectedPhoneIsAskedAgain`, `ManualSyncEnds`, `WorkerComesBack`,
`WaitingPhoneIsServed`, `SensorIsUsedAgain`): they rest on fairness, and so on `ENABLED`,
which the prover does not reason about. The inductive invariants are proved and need no
run; the four violations are behaviours TLC found.

## 6. Not modelled, and abstractions

* Pixels and segments, the diagnostic image, iOS views and the diagnosis tool: output
  or user interface. TLS and sockets of the captive-portal worker.
* String processing: the parsers of the BLE payload and of the portal's form, HTML
  attributes and entities, URLs and their resolution, the encoding of a submission, the
  synthetic identity. The modules that stand on them take any result.
* The TM1637 backend keeps the key of its frame when the level changes; whether the
  panel then shows the level depends on its library, which is not in the repository.
* `PortalHttp`: an answer is only the end of its connection, as every answer closes it;
  the tick that hands a time on is `handlePortalTime` of `NetworkTimeService`.
* `PortalForm`: a control has one meaning where the texts of a real one may have several,
  of which the code asks in a fixed order; a button has one of four pairs of score and
  rejection. The text between tags is a single question: does it hold a blocked word.
* `Display`: the low-pass filter comes to any level between its old value and the
  reading; the colon is left out; an OLED is a frame and a level. A level is written to
  the panel without failing.
* `TimeKeeper`: an RTC is fitted or not for good and keeps exact time; a flash key
  is written atomically, `clear` and `remove` succeed; `timezoneFresh_` is left out.
* `NetworkTimeService`: any untried candidate may be next (`WifiRanking` says which is),
  a phone submits an acceptable time at once (`PortalHttp` says how), and the worker
  comes to any outcome (`PortalWorker` says to which); an update that the service has
  found acceptable is rejected by `TimeKeeper` only where a run says so
  (`Rejectable`), and only on a confirmed clock.
* `BleLink`: NimBLE's own restart after a disconnection (the library's default) is
  left out; so is the wrap of `millis()` after 49.7 days, when the pairing window opens
  again. The store of bonds is NimBLE's: a phone that pairs when it is full, which
  `onConnect` prevents for those it admits, costs any other its bond. What a time write leads to is
  `TimeArbitration`.
* `Companion`: names, texts and sync dates; the migration of old preferences; the two
  characteristics are found together or not at all; `time-pending`, which changes only a
  text. `unauthorized` behaves like `poweredOff`, `unsupported` and `unknown` like
  `resetting`. A response to a write of a lost connection does not come.
* `PortalWorker`: the text of requests, pages and cookies; a form is `GET`, `POST` or
  none, an answer a kind of status. A write is whole. A job's time may be over at any
  test, an access point is left only by the main task, and the task and its queues exist.
* `TimeArbitration`: `begin` always has a handler (main.cpp), so the refusal of a write
  without one is left out; so is the wrap of `millis()`, which closes the limiter again.
* `NetworkTimeService`: `scanNetworks` is asked to run in the background and so returns
  no count; the branch of `startScan` for one is left out.
* `portalStopAtMs_` and `lastAcceptedWriteMs_` use 0 for "none"; the model has a
  value of its own for that, so a deadline that falls on 0 is outside it.

## 7. Plan

1. done: `TimeArbitration`, `TimeKeeper`/`DurableTrust`, `NetworkTimeService`/`EspClock`.
2. done: `BleLink`.
3. done: `PortalWorker`/`PortalJob` with their proofs.
4. done: `Companion`.
5. done: `PortalHttp`; `WifiRanking`, `CookieJar`, `PortalForm`, `Display` and
   `Recovery` in `Parts`.
6. done: every safety property of the passing runs is proved.
7. Open: the payload parsers with their boundaries; the wrap of `millis()`, which opens the
   pairing window again; an abstract specification of the clock's search for a time, which
   `EspClock` would implement; the refresh and the answer of a job across `EspClock`,
   `PortalHttp` and `PortalWorker` in one composition.
