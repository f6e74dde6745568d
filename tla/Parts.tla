------------------------------- MODULE Parts -------------------------------
(***************************************************************************)
(* The parts of the clock that share no state with each other, side by     *)
(* side: the choice of access points (WifiRanking), the jar and the forms  *)
(* of a captive portal (CookieJar, PortalForm), the panel (Display), the   *)
(* recovery gesture (Recovery).  One behaviour is a behaviour of one of    *)
(* them; their interleavings would show nothing more.                      *)
(***************************************************************************)
EXTENDS WifiRanking, CookieJar, PortalForm, Display, Recovery

VARIABLE part

vars == <<part, rankVars, jarVars, formVars, displayVars, recoveryVars>>

Part == {"ranking", "jar", "form", "display", "recovery"}

Init ==
  /\ part \in Part
  /\ RankInit /\ JarInit /\ FormInit /\ DisplayInit /\ RecoveryInit
  /\ part # "display" => ~hasPanel /\ sensor = "fails" /\ ~display.ready
  /\ part # "recovery" => ~confirmed /\ ~bonded

RankStep ==
  part = "ranking" /\ RankNext /\ UNCHANGED <<jarVars, formVars, displayVars, recoveryVars>>

JarStep ==
  part = "jar" /\ JarNext /\ UNCHANGED <<rankVars, formVars, displayVars, recoveryVars>>

FormStep ==
  part = "form" /\ FormNext /\ UNCHANGED <<rankVars, jarVars, displayVars, recoveryVars>>

RecoveryStep ==
  part = "recovery" /\ RecoveryNext /\ UNCHANGED <<rankVars, jarVars, formVars, displayVars>>

Others     == <<rankVars, jarVars, formVars, recoveryVars>>
TickStep   == part = "display" /\ tick /\ UNCHANGED Others
TimeStep   == part = "display" /\ TimePasses /\ UNCHANGED Others
SensorStep == part = "display" /\ SensorChanges /\ UNCHANGED Others

Next ==
  /\ RankStep \/ JarStep \/ FormStep \/ RecoveryStep \/ TickStep \/ TimeStep \/ SensorStep
  /\ UNCHANGED part

(* loop() runs for ever and time passes; nothing is assumed of the sensor. *)
Spec == Init /\ [][Next]_vars /\ WF_vars(TickStep /\ UNCHANGED part)
                              /\ WF_vars(TimeStep /\ UNCHANGED part)

=============================================================================
