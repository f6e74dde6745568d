------------------------------ MODULE Display ------------------------------
(***************************************************************************)
(* The panel and its brightness: src/src/DisplayController.cpp with        *)
(* LightLevelController and the choice of a frame from ClockCore.cpp, over *)
(* the OLED of src/src/Ssd1306DisplayBackend.cpp, which redraws only what  *)
(* differs from the key of its last frame.                                 *)
(*                                                                         *)
(* The BH1750 and the panel may be missing, and the sensor may stop, stall *)
(* or lie at any time.  Lux stands for a few levels of light; the low-pass *)
(* filter moves anywhere between its old value and the reading.  Ages      *)
(* count the time since lastLightSampleMs_, lastLightSensorAttemptMs_ and  *)
(* lastDisplayMs_, up to the interval the code compares them with.         *)
(***************************************************************************)
EXTENDS Integers, Sequences, FiniteSetsExt

CONSTANTS
  Lux,                                   \* numbers
  Boundary,                              \* kBoundaries, an ascending sequence
  Fallback,                              \* kFallbackBrightness
  SampleTime, SensorRetry, FrameTime,    \* kLightSampleMs, kLightSensorRetryMs, 250 ms
  MaxBad                                 \* the five readings before a sensor is given up

ASSUME DisplayAssumption ==
  /\ Lux \subseteq Nat /\ Boundary \in Seq(Nat) /\ Fallback \in Nat
  /\ {SampleTime, SensorRetry, FrameTime, MaxBad} \subseteq Nat \ {0}

VARIABLES
  display,    \* the controller and its backend
  hasPanel,   \* displayAvailable_: the panel answered at boot
  sensor,     \* the BH1750: "works", or "fails" in any way
  wanted      \* history: the frame asked for last, and the brightness it was asked at

displayVars == <<display, hasPanel, sensor, wanted>>

NoLux == -1
NoFrame == <<"none">>

----------------------------------------------------------------------------
(* Light                                                                   *)

\* MUTANT: a new level is drawn with the next new frame only.
SetBrightnessKeepsKey(d, level) ==
  IF ~hasPanel \/ level = d.brightness THEN d ELSE [d EXCEPT !.brightness = level]

\* The dithering is part of the frame: a new level asks for the frame again.
setBrightness(d, level) ==
  IF ~hasPanel \/ level = d.brightness THEN d
  ELSE [d EXCEPT !.brightness = level, !.key = NoFrame]

reset(d) == [d EXCEPT !.lux = NoLux, !.level = 0]

\* LightLevelController::update, for a filter that has come to f.
update(d, f) ==
  LET up   == Min({k \in d.level..Len(Boundary) :
                     k = Len(Boundary) \/ 10 * f <= 12 * Boundary[k + 1]})
      down == Max({k \in 0..up : k = 0 \/ 10 * f >= 8 * Boundary[k]})
  IN  [d EXCEPT !.lux = f, !.level = down]

Between(old, lux) ==
  IF old = NoLux THEN {lux}
  ELSE {f \in Lux : (old <= f /\ f <= lux) \/ (lux <= f /\ f <= old)}

\* MUTANT: a sensor that is given up leaves the panel as bright as it was.
LostStaysBright(d) == [reset(d) EXCEPT !.ready = FALSE]

SensorLost(d) == setBrightness([reset(d) EXCEPT !.ready = FALSE], Fallback)

\* found: the sensor has answered at one of its two addresses.
tryLightSensor(d, found) ==
  LET t == [reset(d) EXCEPT !.attemptAge = 0, !.ready = found, !.invalid = 0, !.unready = 0]
  IN  IF found THEN t ELSE setBrightness(t, Fallback)

\* One more reading of a kind that is borne MaxBad times.
Bad(d, kind) ==
  LET b == [d EXCEPT ![kind] = @ + 1] IN IF b[kind] >= MaxBad THEN SensorLost(b) ELSE b

\* r: not ready, read but not armed for the next one, invalid, or where the reading takes
\* the filter.
Sampled(d, r) ==
  LET s == [d EXCEPT !.unready = 0] IN
  CASE r.what = "unready" -> Bad(d, "unready")
    [] r.what = "unarmed" -> SensorLost(s)
    [] r.what = "invalid" -> Bad(s, "invalid")
    [] r.what = "lux" -> LET u == update([s EXCEPT !.invalid = 0], r.lux)
                         IN  setBrightness(u, u.level)

\* MUTANT: only a sensor in use is looked for again.
RetryOnlyReady(d) == d.ready /\ d.attemptAge >= SensorRetry

RetryIsDue(d) == ~d.ready /\ d.attemptAge >= SensorRetry

sampleLight(d, found, r) ==
  LET t == IF RetryIsDue(d) THEN tryLightSensor(d, found) ELSE d
      s == [t EXCEPT !.sampleAge = 0]
  IN  IF t.sampleAge < SampleTime THEN t ELSE IF ~t.ready THEN s ELSE Sampled(s, r)

----------------------------------------------------------------------------
(* Frames                                                                  *)

selectUserDisplayState(recovery, portal, wifi, valid, pairing, overdue) ==
  CASE recovery                                -> "kRecovery"
    [] ~recovery /\ valid /\ overdue           -> "kClock"
    [] ~recovery /\ ~(valid /\ overdue) /\ pairing -> "kPairing"
    [] OTHER -> IF portal THEN "kPortal" ELSE IF wifi THEN "kWifi"
                ELSE IF valid THEN "kClock" ELSE "kNoTime"

\* timesTurn: the part of the cycle in which the time alternates with the message.
makeDisplayFrame(valid, state, timesTurn) ==
  IF state = "kClock" \/ (state \in {"kPortal", "kWifi"} /\ valid /\ timesTurn)
  THEN "kTime" ELSE state

\* A time is another frame at another second and when it becomes overdue.
FrameKey(content, second, overdue) ==
  IF content = "kTime" THEN <<content, second, overdue>> ELSE <<content>>

show(d, key) ==
  IF key = d.key THEN d
  ELSE [d EXCEPT !.key = key, !.panel = [frame |-> key, level |-> d.brightness]]

----------------------------------------------------------------------------
(* The controller                                                          *)

Boot(panel, found) ==
  LET off == [ready |-> FALSE, attemptAge |-> 0, sampleAge |-> 0, frameAge |-> 0,
              unready |-> 0, invalid |-> 0, lux |-> NoLux, level |-> 0,
              brightness |-> IF panel THEN Fallback ELSE 0,
              key |-> NoFrame, panel |-> [frame |-> NoFrame, level |-> 0]]
  IN  [off EXCEPT !.ready = found]

DisplayInit ==
  /\ hasPanel \in BOOLEAN /\ sensor \in {"works", "fails"}
  /\ wanted = [frame |-> NoFrame, level |-> 0]
  /\ \E found \in BOOLEAN : (sensor = "works" => found) /\ display = Boot(hasPanel, found)

\* What the sensor may do at this sample.
Readings ==
  {[what |-> "lux", lux |-> f] : f \in UNION {Between(display.lux, lux) : lux \in Lux}}
  \union IF sensor = "works" THEN {}
         ELSE {[what |-> w, lux |-> NoLux] : w \in {"unready", "unarmed", "invalid"}}

\* Every frame the rest of the clock may ask for (displayState of main.cpp).
Frames ==
  {FrameKey(makeDisplayFrame(valid, selectUserDisplayState(recovery, portal, wifi, valid,
                                                           pairing, overdue), timesTurn),
            second, overdue) :
     recovery, portal, wifi, valid, pairing, overdue, timesTurn \in BOOLEAN, second \in 0..1}

Drawn(d, key) ==
  IF ~hasPanel \/ d.frameAge < FrameTime THEN display' = d /\ UNCHANGED wanted
  ELSE /\ display' = show([d EXCEPT !.frameAge = 0], key)
       /\ wanted' = [frame |-> key, level |-> d.brightness]

tick ==
  /\ \E found \in BOOLEAN, r \in Readings, key \in Frames :
       /\ sensor = "works" => found
       /\ Drawn(sampleLight(display, found, r), key)
  /\ UNCHANGED <<hasPanel, sensor>>

Aged(d) ==
  [d EXCEPT !.attemptAge = Min({@ + 1, SensorRetry}), !.sampleAge = Min({@ + 1, SampleTime}),
            !.frameAge = Min({@ + 1, FrameTime})]

TimePasses ==
  /\ display' = Aged(display)
  /\ UNCHANGED <<hasPanel, sensor, wanted>>

SensorChanges ==
  /\ sensor' \in {"works", "fails"} \ {sensor}
  /\ UNCHANGED <<display, hasPanel, wanted>>

DisplayNext == tick \/ TimePasses \/ SensorChanges

----------------------------------------------------------------------------
(* Properties                                                              *)

\* The panel has the level of the light while a sensor delivers, within 20 % of the
\* level's band however fast the light changes, and the fallback level whenever there is
\* no sensor or no reading yet.
BrightnessFollowsLight ==
  LET d == display IN
  /\ hasPanel => d.brightness = IF d.ready /\ d.lux # NoLux THEN d.level ELSE Fallback
  /\ d.lux # NoLux =>
       /\ d.level < Len(Boundary) => 10 * d.lux <= 12 * Boundary[d.level + 1]
       /\ d.level > 0             => 10 * d.lux >= 8 * Boundary[d.level]

\* Although unchanged frames are not drawn again, the panel shows the frame asked for
\* last, at the brightness it was asked at.
PanelShowsFrame == hasPanel => display.panel = wanted

\* A sensor that works again is found again, and its readings are used.
SensorIsUsedAgain ==
  <>[](sensor = "works") => <>[](display.ready /\ display.lux # NoLux)

=============================================================================
