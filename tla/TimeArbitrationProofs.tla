----------------------- MODULE TimeArbitrationProofs -----------------------
(***************************************************************************)
(* Proofs about TimeArbitration, for every limiter interval, every uptime  *)
(* and every interleaving: type correctness, and for a client that waits   *)
(* for its answers that a pending write is always in flight and that       *)
(* accepted writes are spaced; for any client that no queued update is     *)
(* taken once a sync has superseded it.                                    *)
(***************************************************************************)
EXTENDS TimeArbitration, TLAPS

\* The host task has passed the checks of onTimeWrite and not yet returned.
HostPassed == hostPc = "publish" \/ HostPublished

\* The main task is between MainApply and the answer to a BLE write.
MainAnswers == mainPc \in {"stamp", "status"}

\* A BLE update is between the callback's hand-over and the client's answer.
Unanswered == slot = "kBle" \/ MainHoldsWrite \/ MainAnswers

\* One write at a time: at most one BLE update exists, the flag is set exactly
\* while it does, and the client sees time-pending until it is answered.
OneWrite ==
  /\ timeWritePending <=> HostPublished \/ slot = "kBle" \/ MainHoldsWrite
  /\ Unanswered => hostPc = "idle" /\ status = "time-pending"
  /\ slot = "kBle" => ~MainHoldsWrite /\ ~MainAnswers
  /\ hostPc = "enqueue" => status = "time-pending"
  /\ mainPc = "report" \/ MainAnswers => cur = "kBle"
  /\ mainPc = "sync" => applied

\* What the callback has read of the last accepted write is still true.
HostReads ==
  /\ hostPc # "idle" => lastAcceptedWriteMs <= hostNow
  /\ hostPc \notin {"idle", "loadLast"} => hostLast = lastAcceptedWriteMs

\* While the main task finishes an accepted BLE write the limiter is closed.
LimiterClosed ==
  /\ (mainPc = "status" /\ applied) \/ (mainPc \in {"sync", "discard"} /\ cur = "kBle")
       => /\ lastAcceptedWriteMs > 0
          /\ now <= lastAcceptedWriteMs + (IF passAged THEN 1 ELSE 0)
          /\ ~HostPassed /\ slot # "kBle"

\* The stamp follows the acceptance, and a write past the checks is late enough.
Spaced ==
  /\ ~(mainPc \in {"report", "stamp"} /\ applied) => lastBleApplied <= lastAcceptedWriteMs
  /\ lastBleApplied # 0
     /\ (HostPassed \/ slot = "kBle" \/ (mainPc = "apply" /\ cur = "kBle"))
       => now >= lastBleApplied + AcceptInterval

Careful == OneWrite /\ HostReads /\ LimiterClosed /\ Spaced

IInv == TypeOK /\ (careful => Careful)

----------------------------------------------------------------------------
(* Arbitration picks one of the two updates, and never a weaker one over a *)
(* BLE update.                                                             *)

\* The slot keeps its type under all three operators of main.cpp.
LEMMA SlotTyped ==
  ASSUME SlotType, NEW source \in TimeSource,
         \/ enqueueTimeUpdate(source)
         \/ dequeueTimeUpdate
         \/ discardSupersededTimeUpdate(source)
  PROVE  SlotType'
  BY DEF SlotType, enqueueTimeUpdate, dequeueTimeUpdate, discardSupersededTimeUpdate

\* A BLE update always enters the slot.
LEMMA BleEnters ==
  ASSUME SlotType, enqueueTimeUpdate("kBle")
  PROVE  slot' = "kBle"
  BY DEF SlotType, enqueueTimeUpdate, shouldReplacePendingTimeUpdate,
         timeSourcePriority, TimeSource, NoUpdate

\* The producers of the main task neither displace a BLE update nor forge one.
LEMMA MainProducersYield ==
  ASSUME SlotType, NEW source \in {"kPortal", "kNtp"}, enqueueTimeUpdate(source)
  PROVE  slot' = "kBle" <=> slot = "kBle"
  BY DEF SlotType, enqueueTimeUpdate, shouldReplacePendingTimeUpdate,
         timeSourcePriority, TimeSource, NoUpdate

----------------------------------------------------------------------------
\* The two halves of type correctness.
LEMMA InitTyped == ASSUME Init PROVE TypeOK
<1> USE BoundsAssumption DEF BoundsAssumption
<1>1. SlotType /\ cur \in TimeSource \union {NoUpdate}
  BY DEF Init, SlotType
<1>2. /\ now \in 1..MaxTime /\ lastAcceptedWriteMs \in 0..now
      /\ hostNow \in 0..now /\ hostLast \in 0..now /\ lastBleApplied \in 0..now
  BY DEF Init
<1>3. /\ careful \in BOOLEAN /\ timeWritePending \in BOOLEAN
      /\ applied \in BOOLEAN /\ passAged \in BOOLEAN /\ superseded \in BOOLEAN
  BY DEF Init
<1>4. status \in Status /\ hostPc \in HostStep /\ mainPc \in MainStep
  BY DEF Init, Status, HostStep, MainStep
<1>5. QED
  BY <1>1, <1>2, <1>3, <1>4 DEF TypeOK

LEMMA NextTyped == ASSUME TypeOK, [Next]_vars PROVE TypeOK'
<1> USE BoundsAssumption DEF BoundsAssumption
<1> USE DEF TypeOK, Status, HostStep, MainStep, hostVars, mainVars, history
<1>1. CASE HostNext
  <2>1. ASSUME NEW bonded \in BOOLEAN, WriteBegin(bonded) PROVE TypeOK'
    BY <2>1 DEF WriteBegin, SlotType
  <2>2. CASE WriteLoadLast
    BY <2>2 DEF WriteLoadLast, SlotType
  <2>3. ASSUME NEW parses \in BOOLEAN, WriteCheck(parses) PROVE TypeOK'
    BY <2>3 DEF WriteCheck, SlotType
  <2>4. CASE WritePublish
    BY <2>4 DEF WritePublish, SlotType
  <2>5. CASE WriteNotify
    BY <2>5 DEF WriteNotify, SlotType
  <2>6. CASE WriteEnqueue
    <3>1. SlotType'
      BY <2>6, SlotTyped DEF WriteEnqueue, TimeSource
    <3>2. QED
      BY <2>6, <3>1 DEF WriteEnqueue
  <2>7. QED
    BY <1>1, <2>1, <2>2, <2>3, <2>4, <2>5, <2>6 DEF HostNext
<1>2. CASE MainNext
  <2>1. CASE MainDequeue
    BY <2>1 DEF MainDequeue, SlotType, NoUpdate
  <2>2. ASSUME NEW accepts \in BOOLEAN, MainApply(accepts) PROVE TypeOK'
    BY <2>2 DEF MainApply, SlotType
  <2>3. CASE MainReport
    BY <2>3 DEF MainReport, AfterReport, SlotType
  <2>4. CASE MainStamp
    BY <2>4 DEF MainStamp, SlotType
  <2>5. CASE MainStatus
    BY <2>5 DEF MainStatus, AfterReport, SlotType
  <2>6. CASE MainSync
    BY <2>6 DEF MainSync, SlotType
  <2>7. CASE MainDiscard
    BY <2>7 DEF MainDiscard, discardSupersededTimeUpdate, SlotType, NoUpdate
  <2>8. CASE MainTick
    <3>1. SlotType'
      BY <2>8, SlotTyped DEF MainTick, SlotType, TimeSource
    <3>2. QED
      BY <2>8, <3>1 DEF MainTick
  <2>9. QED
    BY <1>2, <2>1, <2>2, <2>3, <2>4, <2>5, <2>6, <2>7, <2>8 DEF MainNext
<1>3. CASE Elapse
  BY <1>3 DEF Elapse, SlotType
<1>4. CASE UNCHANGED vars
  BY <1>4 DEF vars, SlotType
<1>5. QED
  BY <1>1, <1>2, <1>3, <1>4 DEF Next

\* The variables keep their types whatever the two tasks do (TimeArbitration's
\* TypeOK, with the clock readings never ahead of millis()).
THEOREM TypeCorrect == Spec => []TypeOK
  BY InitTyped, NextTyped, PTL DEF Spec

----------------------------------------------------------------------------
(* The client that waits for its answers.                                  *)

\* Whether the client waits never changes.
LEMMA CarefulIsRigid == ASSUME [Next]_vars PROVE careful' = careful
  BY DEF Next, HostNext, MainNext, WriteBegin, WriteLoadLast, WriteCheck, WritePublish,
     WriteNotify, WriteEnqueue, MainDequeue, MainApply, MainReport, MainStamp, MainStatus,
     MainSync, MainDiscard, MainTick, Elapse, vars

\* Such a client starts a write only when no update of its own is unanswered,
\* so the host task never meets the main task inside a BLE update; the limiter
\* then reads a stamp nobody is about to change (onTimeWrite, reportTimeResult).
LEMMA CarefulStep ==
  ASSUME TypeOK, careful, Careful, [Next]_vars
  PROVE  Careful'
<1> USE BoundsAssumption DEF BoundsAssumption, TypeOK, SlotType, HostStep, MainStep, Careful,
        OneWrite, HostReads, LimiterClosed, Spaced, HostPassed, HostPublished, Unanswered,
        MainHoldsWrite, MainAnswers, hostVars, mainVars, history
<1>1. CASE HostNext
  <2>1. ASSUME NEW bonded \in BOOLEAN, WriteBegin(bonded) PROVE Careful'
    BY <2>1 DEF WriteBegin
  <2>2. CASE WriteLoadLast
    BY <2>2 DEF WriteLoadLast
  <2>3. ASSUME NEW parses \in BOOLEAN, WriteCheck(parses) PROVE Careful'
    BY <2>3 DEF WriteCheck, RateLimited, ElapsedMs
  <2>4. CASE WritePublish
    BY <2>4 DEF WritePublish
  <2>5. CASE WriteNotify
    BY <2>5 DEF WriteNotify
  <2>6. CASE WriteEnqueue
    <3>1. slot' = "kBle"
      BY <2>6, BleEnters DEF WriteEnqueue
    <3>2. QED
      BY <2>6, <3>1 DEF WriteEnqueue
  <2>7. QED
    BY <1>1, <2>1, <2>2, <2>3, <2>4, <2>5, <2>6 DEF HostNext
<1>2. CASE MainNext
  <2>1. CASE MainDequeue
    BY <2>1 DEF MainDequeue, NoUpdate
  <2>2. ASSUME NEW accepts \in BOOLEAN, MainApply(accepts) PROVE Careful'
    BY <2>2 DEF MainApply
  <2>3. CASE MainReport
    BY <2>3 DEF MainReport, AfterReport
  <2>4. CASE MainStamp
    BY <2>4 DEF MainStamp
  <2>5. CASE MainStatus
    BY <2>5 DEF MainStatus, AfterReport
  <2>6. CASE MainSync
    BY <2>6 DEF MainSync
  <2>7. CASE MainDiscard
    BY <2>7 DEF MainDiscard, discardSupersededTimeUpdate, shouldDiscardQueuedTimeUpdate,
       timeSourcePriority, TimeSource, NoUpdate
  <2>8. CASE MainTick
    <3>1. slot' = "kBle" <=> slot = "kBle"
      BY <2>8, MainProducersYield DEF MainTick
    <3>2. QED
      BY <2>8, <3>1 DEF MainTick, NoUpdate
  <2>9. QED
    BY <1>2, <2>1, <2>2, <2>3, <2>4, <2>5, <2>6, <2>7, <2>8 DEF MainNext
<1>3. CASE Elapse
  <2>1. OneWrite' /\ HostReads'
    BY <1>3 DEF Elapse
  <2>2. LimiterClosed'
    <3>1. CASE mainPc = "dequeue"
      BY <1>3, <3>1 DEF Elapse
    <3>2. CASE mainPc # "dequeue"
      <4>1. ~passAged /\ passAged' = TRUE
        BY <1>3, <3>2 DEF Elapse
      <4>2. QED
        BY <1>3, <4>1 DEF Elapse
    <3>3. QED
      BY <3>1, <3>2
  <2>3. Spaced'
    BY <1>3 DEF Elapse
  <2>4. QED
    BY <2>1, <2>2, <2>3
<1>4. CASE UNCHANGED vars
  BY <1>4 DEF vars
<1>5. QED
  BY <1>1, <1>2, <1>3, <1>4 DEF Next

\* The inductive invariant holds in every reachable state.
THEOREM CarefulInductive == Spec => []IInv
<1>1. Init => IInv
  <2> SUFFICES ASSUME Init PROVE IInv
    OBVIOUS
  <2>1. TypeOK
    BY InitTyped
  <2>2. Careful
    BY DEF Init, Careful, OneWrite, HostReads, LimiterClosed, Spaced, HostPassed,
       HostPublished, Unanswered, MainHoldsWrite, MainAnswers, NoUpdate
  <2>3. QED
    BY <2>1, <2>2 DEF IInv
<1>2. IInv /\ [Next]_vars => IInv'
  <2> SUFFICES ASSUME IInv, [Next]_vars PROVE IInv'
    OBVIOUS
  <2>1. TypeOK'
    BY NextTyped DEF IInv
  <2>2. careful' = careful
    BY CarefulIsRigid
  <2>3. QED
    BY <2>1, <2>2, CarefulStep DEF IInv
<1>3. QED
  BY <1>1, <1>2, PTL DEF Spec

\* For a client that waits for its answers the pending flag always stands for an
\* update that is still on its way (the hand-over comment of onTimeWrite).
THEOREM CarefulNeverStuck == Spec => []CarefulWriteIsInFlight
<1>1. IInv => CarefulWriteIsInFlight
  BY DEF IInv, Careful, OneWrite, CarefulWriteIsInFlight, PendingWriteIsInFlight
<1>2. QED
  BY <1>1, CarefulInductive, PTL

\* Two BLE updates accepted from such a client are an interval apart: the limiter
\* of onTimeWrite and the late stamp of reportTimeResult leave no gap.
THEOREM CarefulWritesSpaced == Spec => AcceptedWritesAreSpaced
<1> DEFINE Step == careful /\ lastBleApplied' # lastBleApplied /\ lastBleApplied # 0
                     => lastBleApplied' - lastBleApplied >= AcceptInterval
<1>1. IInv /\ [Next]_vars => [Step]_vars
  <2> SUFFICES ASSUME IInv, [Next]_vars, careful, lastBleApplied' # lastBleApplied,
                      lastBleApplied # 0
               PROVE  lastBleApplied' - lastBleApplied >= AcceptInterval
    OBVIOUS
  <2>1. PICK accepts \in BOOLEAN : MainApply(accepts)
    BY DEF Next, HostNext, MainNext, WriteBegin, WriteLoadLast, WriteCheck, WritePublish,
       WriteNotify, WriteEnqueue, MainDequeue, MainReport, MainStamp, MainStatus, MainSync,
       MainDiscard, MainTick, Elapse, vars, history
  <2>2. mainPc = "apply" /\ cur = "kBle" /\ lastBleApplied' = now
    BY <2>1 DEF MainApply
  <2>3. now >= lastBleApplied + AcceptInterval
    BY <2>2 DEF IInv, Careful, Spaced
  <2>4. QED
    BY <2>2, <2>3, BoundsAssumption DEF IInv, TypeOK, BoundsAssumption
<1>2. QED
  BY <1>1, CarefulInductive, PTL DEF Spec, AcceptedWritesAreSpaced

----------------------------------------------------------------------------
(* The update that was queued when a stronger one took effect.             *)

\* The main task holds back from its queue only between the two halves of a
\* hand-over, and what it is about to throw away is what discard throws away.
DiscardComes ==
  superseded => /\ mainPc = "discard" /\ slot # NoUpdate
                /\ timeSourcePriority(slot) <= timeSourcePriority(cur)

LEMMA DiscardStep ==
  ASSUME DiscardComes, [Next]_vars
  PROVE  DiscardComes'
<1> USE DEF DiscardComes, hostVars, mainVars, history
<1>1. CASE HostNext
  <2>1. CASE WriteEnqueue
    BY <2>1 DEF WriteEnqueue
  <2>2. CASE UNCHANGED <<slot, mainVars, superseded>>
    BY <2>2
  <2>3. QED
    BY <1>1, <2>1, <2>2 DEF HostNext, WriteBegin, WriteLoadLast, WriteCheck, WritePublish,
       WriteNotify
<1>2. CASE MainNext
  <2>1. CASE mainPc # "discard" /\ UNCHANGED superseded
    BY <2>1
  <2>2. CASE MainSync
    BY <2>2 DEF MainSync
  <2>3. CASE MainDiscard
    <3>1. CASE superseded
      <4>1. slot' = NoUpdate
        BY <2>3, <3>1 DEF MainDiscard, discardSupersededTimeUpdate,
           shouldDiscardQueuedTimeUpdate
      <4>2. QED
        BY <2>3, <4>1 DEF MainDiscard
    <3>2. CASE ~superseded
      BY <2>3, <3>2 DEF MainDiscard
    <3>3. QED
      BY <3>1, <3>2
  <2>4. CASE MainTick
    BY <2>4 DEF MainTick
  <2>5. QED
    BY <1>2, <2>1, <2>2, <2>3, <2>4 DEF MainNext, MainDequeue, MainApply, MainReport,
       MainStamp, MainStatus
<1>3. CASE Elapse
  BY <1>3 DEF Elapse
<1>4. CASE UNCHANGED vars
  BY <1>4 DEF vars
<1>5. QED
  BY <1>1, <1>2, <1>3, <1>4 DEF Next

\* No update outlives the one that superseded it: onExternalTimeSync, the producers of
\* both tasks and discardSupersededTimeUpdate may meet in any order.
THEOREM SupersededStays == Spec => SupersededIsNeverTaken
<1> DEFINE Step == mainPc = "dequeue" /\ cur' # cur => ~superseded
<1>1. Init => DiscardComes
  BY DEF Init, DiscardComes
<1>2. DiscardComes /\ [Next]_vars => DiscardComes'
  BY DiscardStep
<1>3. DiscardComes /\ [Next]_vars => [Step]_vars
  BY DEF DiscardComes
<1>4. QED
  BY <1>1, <1>2, <1>3, PTL DEF Spec, SupersededIsNeverTaken

=============================================================================
