-------------------------- MODULE TimeArbitration --------------------------
(***************************************************************************)
(* The BLE time write of BleTimeService and the main loop of main.cpp, two *)
(* tasks that share the pending slot, timeWritePending_ and                *)
(* lastAcceptedWriteMs_.  Every atomic load and store and every critical   *)
(* section is a step of its own:                                           *)
(*                                                                         *)
(*   - the NimBLE host task runs onTimeWrite, one write at a time;         *)
(*   - the main task dequeues, applies, reports the result of a BLE write, *)
(*     tells NetworkTimeService, drops a superseded update and then ticks  *)
(*     NetworkTimeService, which may enqueue a portal or an NTP update.    *)
(*                                                                         *)
(* Whether TimeKeeper::apply accepts an update is left open here (module   *)
(* TimeKeeper decides it).  Time is counted in units of which              *)
(* AcceptInterval make the 30 s of the write limiter.                      *)
(***************************************************************************)
EXTENDS PendingSlot

CONSTANTS AcceptInterval, \* the limiter's 30000 ms, in units
          MaxTime,        \* bound on the modelled uptime, in units
          MillisRange     \* 2^32 ms, in units: where millis() wraps

ASSUME BoundsAssumption ==
  /\ AcceptInterval \in Nat /\ AcceptInterval >= 2
  /\ MaxTime \in Nat \ {0}
  /\ MillisRange \in Nat
  /\ MillisRange > MaxTime + AcceptInterval

VARIABLES
  careful,             \* rigid: the client awaits the answer to a write before the next
  now,                 \* millis()
  timeWritePending,    \* timeWritePending_
  lastAcceptedWriteMs, \* lastAcceptedWriteMs_, 0 before the first accepted write
  status,              \* what the status characteristic last said of a time write
  hostPc, hostNow, hostLast, \* the host task: its next step, and the locals of onTimeWrite
  mainPc, cur, applied,      \* the main task: its next step, and the locals of loop()
  passAged,            \* the clock has advanced since the main task took this update
  superseded,          \* history: the queued update was there when one at least as strong took effect
  lastBleApplied       \* history: when TimeKeeper last accepted a BLE update, 0 if never

hostVars == <<hostPc, hostNow, hostLast>>
mainVars == <<mainPc, cur, applied, passAged>>
history  == <<superseded, lastBleApplied>>
vars == <<slot, careful, now, timeWritePending, lastAcceptedWriteMs, status,
          hostVars, mainVars, history>>

HostStep == {"idle", "loadLast", "check", "publish", "notify", "enqueue"}
MainStep == {"dequeue", "apply", "report", "stamp", "status", "sync", "discard", "tick"}
Status   == {"time-needed", "time-pending", "time-accepted", "time-rejected",
             "invalid-time", "rate-limited"}

TypeOK ==
  /\ SlotType
  /\ careful \in BOOLEAN
  /\ now \in 1..MaxTime
  /\ timeWritePending \in BOOLEAN
  /\ lastAcceptedWriteMs \in 0..now
  /\ status \in Status
  /\ hostPc \in HostStep /\ hostNow \in 0..now /\ hostLast \in 0..now
  /\ mainPc \in MainStep /\ cur \in TimeSource \union {NoUpdate} /\ applied \in BOOLEAN
  /\ passAged \in BOOLEAN
  /\ superseded \in BOOLEAN /\ lastBleApplied \in 0..now

\* Unsigned 32-bit subtraction: an earlier minuend wraps to a huge interval.
ElapsedMs(later, earlier) ==
  IF later >= earlier THEN later - earlier ELSE MillisRange - (earlier - later)

\* MUTANT: the limiter lets a write through once half of the interval has passed.
LimitedHalfway(at, last) == last # 0 /\ 2 * ElapsedMs(at, last) < AcceptInterval

RateLimited(at, last) == last # 0 /\ ElapsedMs(at, last) < AcceptInterval

Init ==
  /\ slot = NoUpdate
  /\ careful \in BOOLEAN
  /\ now = 1
  /\ timeWritePending = FALSE /\ lastAcceptedWriteMs = 0 /\ status = "time-needed"
  /\ hostPc = "idle" /\ hostNow = 0 /\ hostLast = 0
  /\ mainPc = "dequeue" /\ cur = NoUpdate /\ applied = FALSE /\ passAged = FALSE
  /\ superseded = FALSE /\ lastBleApplied = 0

----------------------------------------------------------------------------
(* BleTimeService::onTimeWrite, on the NimBLE host task.                   *)

\* A central writes; the connection may have lost its bonded state by then.
\* A careful central does not write while its previous write is unanswered.
WriteBegin(bonded) ==
  /\ hostPc = "idle"
  /\ careful => status # "time-pending"
  /\ IF bonded
     THEN hostPc' = "loadLast" /\ hostNow' = now /\ UNCHANGED status
     ELSE status' = "time-rejected" /\ UNCHANGED <<hostPc, hostNow>>
  /\ UNCHANGED <<slot, careful, now, timeWritePending, lastAcceptedWriteMs, hostLast,
                 mainVars, history>>

WriteLoadLast ==
  /\ hostPc = "loadLast"
  /\ hostLast' = lastAcceptedWriteMs
  /\ hostPc' = "check"
  /\ UNCHANGED <<slot, careful, now, timeWritePending, lastAcceptedWriteMs, status,
                 hostNow, mainVars, history>>

WriteCheck(parses) ==
  /\ hostPc = "check"
  /\ IF timeWritePending \/ RateLimited(hostNow, hostLast)
     THEN status' = "rate-limited" /\ hostPc' = "idle"
     ELSE IF ~parses
     THEN status' = "invalid-time" /\ hostPc' = "idle"
     ELSE hostPc' = "publish" /\ UNCHANGED status
  /\ UNCHANGED <<slot, careful, now, timeWritePending, lastAcceptedWriteMs,
                 hostNow, hostLast, mainVars, history>>

WritePublish ==
  /\ hostPc = "publish"
  /\ timeWritePending' = TRUE
  /\ hostPc' = "notify"
  /\ UNCHANGED <<slot, careful, now, lastAcceptedWriteMs, status, hostNow, hostLast,
                 mainVars, history>>

WriteNotify ==
  /\ hostPc = "notify"
  /\ status' = "time-pending"
  /\ hostPc' = "enqueue"
  /\ UNCHANGED <<slot, careful, now, timeWritePending, lastAcceptedWriteMs, hostNow,
                 hostLast, mainVars, history>>

WriteEnqueue ==
  /\ hostPc = "enqueue"
  /\ enqueueTimeUpdate("kBle")
  /\ superseded' = FALSE
  /\ hostPc' = "idle"
  /\ UNCHANGED <<careful, now, timeWritePending, lastAcceptedWriteMs, status, hostNow,
                 hostLast, mainVars, lastBleApplied>>

HostNext ==
  \/ \E bonded \in BOOLEAN : WriteBegin(bonded)
  \/ WriteLoadLast
  \/ \E parses \in BOOLEAN : WriteCheck(parses)
  \/ WritePublish
  \/ WriteNotify
  \/ WriteEnqueue

----------------------------------------------------------------------------
(* loop() of main.cpp, on the main task.                                   *)

MainDequeue ==
  /\ mainPc = "dequeue"
  /\ IF slot # NoUpdate
     THEN /\ cur' = slot /\ slot' = NoUpdate
          /\ mainPc' = "apply"
     ELSE /\ mainPc' = "tick"
          /\ UNCHANGED <<cur, slot>>
  /\ UNCHANGED <<careful, now, timeWritePending, lastAcceptedWriteMs, status, hostVars,
                 applied, passAged, history>>

\* TimeKeeper::apply accepts or rejects.
MainApply(accepts) ==
  /\ mainPc = "apply"
  /\ applied' = accepts
  /\ lastBleApplied' = IF accepts /\ cur = "kBle" THEN now ELSE lastBleApplied
  /\ mainPc' = CASE cur = "kBle" -> "report"
                 [] cur # "kBle" /\ accepts -> "sync"
                 [] OTHER -> "tick"
  /\ UNCHANGED <<slot, careful, now, timeWritePending, lastAcceptedWriteMs, status,
                 hostVars, cur, passAged, superseded>>

AfterReport == IF applied THEN "sync" ELSE "tick"

\* MUTANT: a rejected write is settled without an answer.
ReportOnlyAccepted ==
  /\ mainPc = "report"
  /\ timeWritePending' = FALSE
  /\ mainPc' = IF timeWritePending /\ applied THEN "stamp" ELSE AfterReport
  /\ UNCHANGED <<slot, careful, now, lastAcceptedWriteMs, status, hostVars, cur, applied,
                 passAged, history>>

\* reportTimeResult: clears the flag first ...
MainReport ==
  /\ mainPc = "report"
  /\ timeWritePending' = FALSE
  /\ mainPc' = IF ~timeWritePending THEN AfterReport
               ELSE IF applied THEN "stamp" ELSE "status"
  /\ UNCHANGED <<slot, careful, now, lastAcceptedWriteMs, status, hostVars, cur, applied,
                 passAged, history>>

\* ... stamps an accepted write afterwards ...
MainStamp ==
  /\ mainPc = "stamp"
  /\ lastAcceptedWriteMs' = now
  /\ mainPc' = "status"
  /\ UNCHANGED <<slot, careful, now, timeWritePending, status, hostVars, cur, applied,
                 passAged, history>>

\* ... and answers the client last.
MainStatus ==
  /\ mainPc = "status"
  /\ status' = IF applied THEN "time-accepted" ELSE "time-rejected"
  /\ mainPc' = AfterReport
  /\ UNCHANGED <<slot, careful, now, timeWritePending, lastAcceptedWriteMs, hostVars, cur,
                 applied, passAged, history>>

\* networkTime.onExternalTimeSync: from here on what is queued with no higher
\* priority is superseded by the update just applied.
MainSync ==
  /\ mainPc = "sync"
  /\ superseded' = (/\ slot # NoUpdate
                    /\ timeSourcePriority(slot) <= timeSourcePriority(cur))
  /\ mainPc' = "discard"
  /\ UNCHANGED <<slot, careful, now, timeWritePending, lastAcceptedWriteMs, status, hostVars,
                 cur, applied, passAged, lastBleApplied>>

MainDiscard ==
  /\ mainPc = "discard"
  /\ discardSupersededTimeUpdate(cur)
  /\ superseded' = (superseded /\ slot' # NoUpdate)
  /\ mainPc' = "tick"
  /\ UNCHANGED <<careful, now, timeWritePending, lastAcceptedWriteMs, status, hostVars, cur,
                 applied, passAged, lastBleApplied>>

\* networkTime.tick, quiet or enqueueing the portal's or the NTP client's update.
MainTick ==
  /\ mainPc = "tick"
  /\ \/ UNCHANGED <<slot, superseded>>
     \/ \E source \in {"kPortal", "kNtp"} :
          /\ enqueueTimeUpdate(source)
          /\ superseded' = (superseded /\ slot' = slot)
  /\ mainPc' = "dequeue" /\ cur' = NoUpdate /\ applied' = FALSE /\ passAged' = FALSE
  /\ UNCHANGED <<careful, now, timeWritePending, lastAcceptedWriteMs, status, hostVars,
                 lastBleApplied>>

MainNext ==
  \/ MainDequeue
  \/ \E accepts \in BOOLEAN : MainApply(accepts)
  \/ MainReport \/ MainStamp \/ MainStatus
  \/ MainSync \/ MainDiscard \/ MainTick

----------------------------------------------------------------------------
(* One unit of time passes.  Handling one update takes the main task less  *)
(* than the limiter's interval (it never blocks for seconds), so at most   *)
(* one unit begins while it does; the host task may be delayed at will.    *)
Elapse ==
  /\ now < MaxTime
  /\ mainPc = "dequeue" \/ ~passAged
  /\ now' = now + 1
  /\ passAged' = (mainPc # "dequeue")
  /\ UNCHANGED <<slot, careful, timeWritePending, lastAcceptedWriteMs, status, hostVars,
                 mainPc, cur, applied, history>>

Next == HostNext \/ MainNext \/ Elapse

(* The main loop never blocks and a started callback runs to its end; when *)
(* a central writes is up to the central.                                  *)
Fairness ==
  /\ WF_vars(MainNext)
  /\ WF_vars(HostNext /\ hostPc # "idle")

Spec == Init /\ [][Next]_vars /\ Fairness

----------------------------------------------------------------------------
(* Properties                                                              *)

HostPublished == hostPc \in {"notify", "enqueue"}
MainHoldsWrite == cur = "kBle" /\ mainPc \in {"apply", "report"}

\* While timeWritePending_ is set, a BLE update is on its way: the callback is
\* about to enqueue it, it is queued, or the main task is deciding it.  So the
\* flag cannot outlive the update it stands for (BleTimeService.cpp 366-368).
PendingWriteIsInFlight ==
  timeWritePending => HostPublished \/ slot = "kBle" \/ MainHoldsWrite

\* The same for a client that waits for each answer.
CarefulWriteIsInFlight == careful => PendingWriteIsInFlight

\* Two BLE updates that TimeKeeper accepts are at least AcceptInterval apart when
\* the client waits for its answers (the limiter of onTimeWrite).
AcceptedWritesAreSpaced ==
  [][ careful /\ lastBleApplied' # lastBleApplied /\ lastBleApplied # 0
        => lastBleApplied' - lastBleApplied >= AcceptInterval ]_vars

\* An update that was queued when one of the same or a higher priority took effect
\* is never applied afterwards (discardSupersededTimeUpdate in loop()).
SupersededIsNeverTaken ==
  [][ mainPc = "dequeue" /\ cur' # cur => ~superseded ]_vars

\* Every write of a client that waits for its answers gets one.
EveryWriteIsAnswered ==
  careful /\ status = "time-pending" ~> status \in {"time-accepted", "time-rejected"}

=============================================================================
