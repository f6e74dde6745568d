------------------------------ MODULE Recovery ------------------------------
(***************************************************************************)
(* The recovery gesture of src/src/main.cpp: BOOT held for five seconds    *)
(* and released makes the clock forget its sync and its phones and         *)
(* restart.  The button is looked at once per pass of loop().  Power may   *)
(* be lost at any moment, and a phone may pair while the main task is at   *)
(* the gesture.                                                            *)
(***************************************************************************)
EXTENDS Integers, FiniteSetsExt

CONSTANT HoldTime      \* kRecoveryHoldMs

ASSUME HoldAssumption == HoldTime \in Nat \ {0}

VARIABLES
  button,     \* BOOT is down
  held,       \* recoveryButtonHeld
  armed,      \* recoveryResetArmed
  heldAge,    \* the time since recoveryButtonPressedMs, up to HoldTime
  at,         \* where the main task is
  confirmed,  \* TimeKeeper has a sync in flash
  bonded,     \* NimBLE has a bond in flash
  downAge     \* history: since when every pass has seen the button down; NotDown

recoveryVars == <<button, held, armed, heldAge, at, confirmed, bonded, downAge>>

NotDown == -1

RecoveryInit ==
  /\ button = FALSE /\ at = "loop"
  /\ confirmed \in BOOLEAN /\ bonded \in BOOLEAN
  /\ held = FALSE /\ armed = FALSE /\ heldAge = 0 /\ downAge = NotDown

ButtonSeenDown ==
  /\ at = "loop" /\ button
  /\ held' = TRUE
  /\ heldAge' = IF held THEN heldAge ELSE 0
  /\ armed' = (armed \/ (held /\ heldAge >= HoldTime))
  /\ downAge' = IF downAge = NotDown THEN 0 ELSE downAge
  /\ UNCHANGED <<button, at, confirmed, bonded>>

\* MUTANT: a short press is not forgotten.
ReleaseKeepsPress ==
  /\ at = "loop" /\ ~button /\ ~armed
  /\ downAge' = NotDown
  /\ UNCHANGED <<button, held, armed, heldAge, at, confirmed, bonded>>

\* A press that was too short.
ButtonSeenUp ==
  /\ at = "loop" /\ ~button /\ ~armed
  /\ held' = FALSE
  /\ downAge' = NotDown
  /\ UNCHANGED <<button, armed, heldAge, at, confirmed, bonded>>

clearSyncTrust ==
  /\ at = "loop" /\ ~button /\ armed
  /\ confirmed' = FALSE /\ at' = "clearBonds"
  /\ UNCHANGED <<button, held, armed, heldAge, bonded, downAge>>

clearBonds ==
  /\ at = "clearBonds"
  /\ bonded' = FALSE /\ at' = "restart"
  /\ UNCHANGED <<button, held, armed, heldAge, confirmed, downAge>>

\* ESP.restart, or the power goes at any step.
Stops ==
  /\ at # "off"
  /\ at' = "off"
  /\ held' = FALSE /\ armed' = FALSE /\ heldAge' = 0 /\ downAge' = NotDown
  /\ UNCHANGED <<button, confirmed, bonded>>

\* With BOOT down the board starts its download loader instead.
Starts ==
  /\ at = "off" /\ ~button
  /\ at' = "loop"
  /\ UNCHANGED <<button, held, armed, heldAge, confirmed, bonded, downAge>>

ButtonMoves ==
  /\ button' = ~button
  /\ UNCHANGED <<held, armed, heldAge, at, confirmed, bonded, downAge>>

\* The rest of loop() applies an update.
Syncs ==
  /\ at = "loop" /\ confirmed' = TRUE
  /\ UNCHANGED <<button, held, armed, heldAge, at, bonded, downAge>>

\* On the NimBLE host task, even while the main task waits for the restart.
Pairs ==
  /\ at # "off" /\ bonded' = TRUE
  /\ UNCHANGED <<button, held, armed, heldAge, at, confirmed, downAge>>

Older(age) == IF age = NotDown THEN age ELSE Min({age + 1, HoldTime})

SecondsPass ==
  /\ heldAge' = Older(heldAge) /\ downAge' = Older(downAge)
  /\ UNCHANGED <<button, held, armed, at, confirmed, bonded>>

RecoveryNext ==
  \/ ButtonSeenDown \/ ButtonSeenUp \/ clearSyncTrust \/ clearBonds
  \/ Stops \/ Starts \/ ButtonMoves \/ Syncs \/ Pairs \/ SecondsPass

----------------------------------------------------------------------------
(* Properties                                                              *)

\* The clock forgets its sync only when the button comes up after it was down in every
\* pass of HoldTime: presses do not add up, not even over a restart.  And it forgets its
\* phones only after its sync, wherever the power goes: a clock without phones takes any
\* time from the next one.
RecoveryIsDeliberate ==
  [][/\ confirmed /\ ~confirmed' => ~button /\ downAge >= HoldTime
     /\ bonded /\ ~bonded' => ~confirmed]_recoveryVars

=============================================================================
