---------------------------- MODULE PendingSlot ----------------------------
(***************************************************************************)
(* main.cpp's one-deep hand-over between the producers of time updates     *)
(* (the NimBLE host task, the setup portal and the NTP client) and the     *)
(* main loop.  Every access holds timeUpdateMux, so each operator below is *)
(* one atomic step.  The slot holds the source of the pending update;      *)
(* NoUpdate stands for timeUpdatePending = false.                          *)
(***************************************************************************)
EXTENDS ClockCore

VARIABLE slot

NoUpdate == "none"

SlotType == slot \in TimeSource \union {NoUpdate}

enqueueTimeUpdate(source) ==
  slot' = IF shouldReplacePendingTimeUpdate(slot # NoUpdate, slot, source)
          THEN source ELSE slot

\* The caller takes the source out of slot in the same step.
dequeueTimeUpdate == slot # NoUpdate /\ slot' = NoUpdate

discardSupersededTimeUpdate(appliedSource) ==
  slot' = IF shouldDiscardQueuedTimeUpdate(slot # NoUpdate, slot, appliedSource)
          THEN NoUpdate ELSE slot

=============================================================================
