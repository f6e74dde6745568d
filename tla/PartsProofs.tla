----------------------------- MODULE PartsProofs -----------------------------
(***************************************************************************)
(* Theorems about the parts of the clock that share no state with each     *)
(* other: the recovery gesture, the panel and its light, the ranking of    *)
(* access points, the cookie jar and the choice of a form.                 *)
(***************************************************************************)
EXTENDS Parts, FiniteSetTheorems, SequenceTheorems, WellFoundedInduction, TLAPS

----------------------------------------------------------------------------
(* One part at a time                                                      *)

\* Every step is a step of one part, or of none.
LEMMA PartsStep ==
  ASSUME [Next]_vars
  PROVE  /\ [RankNext]_rankVars /\ [JarNext]_jarVars /\ [FormNext]_formVars
         /\ [DisplayNext]_displayVars /\ [RecoveryNext]_recoveryVars
  BY DEF Next, vars, RankStep, JarStep, FormStep, RecoveryStep, TickStep, TimeStep,
         SensorStep, Others, DisplayNext

----------------------------------------------------------------------------
(* The least and the greatest of a set of numbers                          *)

\* The numbers below n are well-founded because the sets 1..x are, by inclusion.
LEMMA LeastExists ==
  ASSUME NEW n \in Nat, NEW S \in SUBSET (0..n), S # {}
  PROVE  \E x \in S : \A y \in S : x <= y
  <1> DEFINE R == StrictSubsetOrdering(1..n)
             T == {1..x : x \in S}
  <1>1. IsWellFoundedOn(R, SUBSET (1..n))
    <2>1. IsFiniteSet(1..n)
      BY FS_Interval
    <2>2. FiniteSubsetsOf(1..n) = SUBSET (1..n)
      BY <2>1, FS_FiniteSubsetsOfFinite
    <2> QED
      BY <2>2, FS_StrictSubsetOrderingWellFounded
  <1>2. T \subseteq SUBSET (1..n) /\ T # {}
    <2>1. \A x \in S : 1..x \in SUBSET (1..n)
      OBVIOUS
    <2>2. T # {}
      OBVIOUS
    <2> QED
      BY <2>1, <2>2
  <1> HIDE DEF R
  <1>3. PICK t \in T : \A u \in T : ~(<<u, t>> \in R)
    BY <1>1, <1>2, WFMin
  <1>4. PICK x \in S : t = 1..x
    BY <1>3
  <1>5. ASSUME NEW y \in S PROVE x <= y
    <2> SUFFICES ASSUME y < x PROVE FALSE
      OBVIOUS
    <2>1. 1..y \in T
      OBVIOUS
    <2>2. 1..y \subseteq 1..x /\ 1..y # 1..x
      OBVIOUS
    <2>3. <<1..y, 1..x>> \in R
      BY <2>2 DEF R, StrictSubsetOrdering
    <2> QED
      BY <1>3, <1>4, <2>1, <2>3
  <1> QED
    BY <1>5

LEMMA MinFacts ==
  ASSUME NEW n \in Nat, NEW S \in SUBSET (0..n), S # {}
  PROVE  Min(S) \in S /\ \A y \in S : Min(S) <= y
  BY LeastExists DEF Min

LEMMA MaxFacts ==
  ASSUME NEW n \in Nat, NEW S \in SUBSET (0..n), S # {}
  PROVE  Max(S) \in S /\ \A y \in S : Max(S) >= y
  <1> DEFINE T == {n - y : y \in S}
  <1>1. T \in SUBSET (0..n) /\ T # {}
    OBVIOUS
  <1>2. PICK t \in T : \A u \in T : t <= u
    BY <1>1, LeastExists
  <1>3. PICK x \in S : t = n - x
    BY <1>2
  <1>4. \A y \in S : x >= y
    <2> SUFFICES ASSUME NEW y \in S PROVE x >= y
      OBVIOUS
    <2>1. n - y \in T
      OBVIOUS
    <2>2. n - x <= n - y
      BY <1>2, <1>3, <2>1
    <2> QED
      BY <2>2
  <1> QED
    BY <1>4 DEF Max

\* A counter that stops at its bound.
LEMMA MinOfTwo ==
  ASSUME NEW a \in Int, NEW b \in Int
  PROVE  Min({a, b}) = IF a <= b THEN a ELSE b
  BY DEF Min

----------------------------------------------------------------------------
(* Induction, and the recursion of the folds                               *)

\* Induction up to n, on a set of numbers.
LEMMA Upward ==
  ASSUME NEW n \in Nat, NEW T, 0 \in T, \A k \in 1..n : k - 1 \in T => k \in T
  PROVE  0..n \subseteq T
  <1> DEFINE S == (0..n) \ T
  <1> SUFFICES ASSUME S # {} PROVE FALSE
    OBVIOUS
  <1>1. PICK x \in S : \A y \in S : x <= y
    <2> HIDE DEF S
    <2>1. S \in SUBSET (0..n)
      BY DEF S
    <2> QED
      BY <2>1, LeastExists
  <1>2. x \in 1..n /\ x - 1 \in 0..n /\ ~(x <= x - 1)
    BY <1>1
  <1> QED
    BY <1>1, <1>2

\* What one more number does to the greatest of a set.
LEMMA MaxOfTop ==
  ASSUME NEW n \in Nat, NEW S \in SUBSET (1..n)
  PROVE  /\ S # {} => Max(S) \in S /\ Max(S) \in 1..n
         /\ n \in S => Max(S) = n
  <1>1. S \in SUBSET (0..n)
    OBVIOUS
  <1>2. S # {} => Max(S) \in S /\ \A y \in S : Max(S) >= y
    BY <1>1, MaxFacts
  <1> DEFINE m == Max(S)
  <1>3. S # {} => m \in S /\ m \in 1..n
    BY <1>2
  <1>4. n \in S => m >= n
    BY <1>2
  <1> HIDE DEF m
  <1>5. n \in S => m = n
    BY <1>3, <1>4
  <1> QED
    BY <1>3, <1>5 DEF m

Iterates(iter, n, base, step) ==
  iter = [s \in SUBSET (1..n) |->
            IF s = {} THEN base ELSE step[Max(s)][iter[s \ {Max(s)}]]]

Solves(iter, k, base, step) ==
  \A s \in SUBSET (1..k) :
    iter[s] = IF s = {} THEN base ELSE step[Max(s)][iter[s \ {Max(s)}]]

Solvable(k, base, step) == \E iter \in [SUBSET (1..k) -> Int] : Solves(iter, k, base, step)

\* The recursion of MapThenFoldSet has a solution.
LEMMA FoldExists ==
  ASSUME NEW n \in Nat, NEW base \in Int, NEW step \in [1..n -> [Int -> Int]]
  PROVE  \E iter \in [SUBSET (1..n) -> Int] : Iterates(iter, n, base, step)
  <1> DEFINE T == {k \in 0..n : Solvable(k, base, step)}
  <1>1. 0 \in T
    <2> DEFINE iter == [s \in SUBSET (1..0) |-> base]
    <2>1. SUBSET (1..0) = {{}}
      OBVIOUS
    <2>2. iter \in [SUBSET (1..0) -> Int]
      OBVIOUS
    <2>3. Solves(iter, 0, base, step)
      BY <2>1 DEF Solves
    <2> HIDE DEF iter
    <2>4. Solvable(0, base, step)
      BY <2>2, <2>3 DEF Solvable
    <2> QED
      BY <2>4
  <1>2. ASSUME NEW k \in 1..n, k - 1 \in T PROVE k \in T
    <2>1. PICK old \in [SUBSET (1..k - 1) -> Int] : Solves(old, k - 1, base, step)
      BY <1>2 DEF Solvable
    <2> DEFINE iter == [s \in SUBSET (1..k) |->
                          IF k \in s THEN step[k][old[s \ {k}]] ELSE old[s]]
    <2>2. /\ k \in Nat /\ k - 1 \in Nat
          /\ \A i \in 1..k : i # k => i \in 1..k - 1
          /\ \A i \in 1..k - 1 : i \in 1..k /\ i # k
      OBVIOUS
    <2>3. \A s \in SUBSET (1..k) :
            /\ s \ {k} \in SUBSET (1..k - 1)
            /\ k \notin s => s \in SUBSET (1..k - 1)
      BY <2>2
    <2>4. \A s \in SUBSET (1..k - 1) : s \in SUBSET (1..k) /\ k \notin s
      BY <2>2
    <2>5. iter \in [SUBSET (1..k) -> Int]
      <3> SUFFICES ASSUME NEW s \in SUBSET (1..k)
                   PROVE  (IF k \in s THEN step[k][old[s \ {k}]] ELSE old[s]) \in Int
        OBVIOUS
      <3>1. step[k] \in [Int -> Int] /\ old[s \ {k}] \in Int
        BY <2>3
      <3> QED
        BY <2>3, <3>1
    <2>6. /\ \A s \in SUBSET (1..k - 1) : iter[s] = old[s]
          /\ \A s \in SUBSET (1..k) : k \in s => iter[s] = step[k][old[s \ {k}]]
      BY <2>4
    <2> HIDE DEF iter
    <2>7. ASSUME NEW s \in SUBSET (1..k)
          PROVE  iter[s] = IF s = {} THEN base ELSE step[Max(s)][iter[s \ {Max(s)}]]
      <3>1. CASE k \in s
        <4>1. Max(s) = k
          BY <2>2, <3>1, MaxOfTop
        <4>2. iter[s \ {k}] = old[s \ {k}] /\ iter[s] = step[k][old[s \ {k}]]
          BY <2>3, <2>6, <3>1
        <4> QED
          BY <3>1, <4>1, <4>2
      <3>2. CASE k \notin s
        <4>1. s \in SUBSET (1..k - 1) /\ s \ {Max(s)} \in SUBSET (1..k - 1)
          BY <2>3, <3>2
        <4>2. iter[s] = old[s] /\ iter[s \ {Max(s)}] = old[s \ {Max(s)}]
          BY <2>6, <4>1
        <4> QED
          BY <2>1, <3>2, <4>1, <4>2 DEF Solves
      <3> QED
        BY <3>1, <3>2
    <2>8. Solvable(k, base, step)
      BY <2>5, <2>7 DEF Solvable, Solves
    <2> QED
      BY <2>8
  <1> HIDE DEF T
  <1>3. 0..n \subseteq T
    BY <1>1, <1>2, Upward
  <1>4. n \in T
    BY <1>3
  <1>5. PICK iter \in [SUBSET (1..n) -> Int] : Solves(iter, n, base, step)
    BY <1>4 DEF T, Solvable
  <1>6. iter = [s \in SUBSET (1..n) |->
                  IF s = {} THEN base ELSE step[Max(s)][iter[s \ {Max(s)}]]]
    BY <1>5 DEF Solves
  <1> QED
    BY <1>6 DEF Iterates

\* The sets the recursion goes down: the first k places.
LEMMA FirstPlaces ==
  ASSUME NEW n \in Nat, NEW k \in 1..n
  PROVE  /\ Max(1..k) = k /\ 1..k # {} /\ (1..k) \ {k} = 1..k - 1
         /\ 1..k \in SUBSET (1..n) /\ 1..k - 1 \in SUBSET (1..n)
  <1>1. k \in Nat /\ k \in 1..k
    OBVIOUS
  <1>2. Max(1..k) = k
    BY <1>1, MaxOfTop
  <1>3. (1..k) \ {k} = 1..k - 1
    <2>1. \A i \in 1..k : i # k => i \in 1..k - 1
      OBVIOUS
    <2>2. \A i \in 1..k - 1 : i \in 1..k /\ i # k
      OBVIOUS
    <2> QED
      BY <2>1, <2>2
  <1> QED
    BY <1>1, <1>2, <1>3

----------------------------------------------------------------------------
(* Recovery                                                                *)

\* While a press is remembered the button has been down at least as long as the press is
\* old; an armed reset has seen it down for the whole of HoldTime; and the phones are only
\* forgotten while there is no sync.
PressIsHonest ==
  /\ heldAge \in 0..HoldTime /\ downAge \in {NotDown} \union 0..HoldTime
  /\ held => downAge >= heldAge
  /\ armed => downAge = HoldTime
  /\ at = "clearBonds" => ~confirmed

LEMMA PressStaysHonest ==
  ASSUME PressIsHonest, [RecoveryNext]_recoveryVars
  PROVE  PressIsHonest'
  <1> USE HoldAssumption DEF NotDown
  <1>1. CASE ButtonSeenDown
    <2>1. heldAge' \in 0..HoldTime /\ downAge' \in 0..HoldTime /\ downAge' >= heldAge'
      <3>1. CASE held
        BY <1>1, <3>1 DEF PressIsHonest, ButtonSeenDown
      <3>2. CASE ~held
        BY <1>1, <3>2 DEF PressIsHonest, ButtonSeenDown
      <3> QED
        BY <3>1, <3>2
    <2>2. ASSUME armed' PROVE downAge' = HoldTime
      <3>1. armed \/ (held /\ heldAge >= HoldTime)
        BY <1>1, <2>2 DEF ButtonSeenDown
      <3>2. downAge = HoldTime
        BY <3>1 DEF PressIsHonest
      <3> QED
        BY <1>1, <3>2 DEF ButtonSeenDown
    <2> QED
      BY <1>1, <2>1, <2>2 DEF PressIsHonest, ButtonSeenDown
  <1>2. CASE ButtonSeenUp
    BY <1>2 DEF PressIsHonest, ButtonSeenUp
  <1>3. CASE clearSyncTrust
    BY <1>3 DEF PressIsHonest, clearSyncTrust
  <1>4. CASE clearBonds
    BY <1>4 DEF PressIsHonest, clearBonds
  <1>5. CASE Stops
    BY <1>5 DEF PressIsHonest, Stops
  <1>6. CASE Starts
    BY <1>6 DEF PressIsHonest, Starts
  <1>7. CASE ButtonMoves
    BY <1>7 DEF PressIsHonest, ButtonMoves
  <1>8. CASE Syncs
    BY <1>8 DEF PressIsHonest, Syncs
  <1>9. CASE Pairs
    BY <1>9 DEF PressIsHonest, Pairs
  <1>10. CASE SecondsPass
    <2>1. \A age \in {NotDown} \union 0..HoldTime :
            Older(age) = IF age = NotDown \/ age = HoldTime THEN age ELSE age + 1
      BY MinOfTwo DEF Older
    <2> QED
      BY <1>10, <2>1 DEF PressIsHonest, SecondsPass
  <1>11. CASE UNCHANGED recoveryVars
    BY <1>11 DEF PressIsHonest, recoveryVars
  <1> QED
    BY <1>1, <1>2, <1>3, <1>4, <1>5, <1>6, <1>7, <1>8, <1>9, <1>10, <1>11 DEF RecoveryNext

\* handleRecoveryButton forgets the sync only after a press of HoldTime, and the phones only
\* after the sync, wherever the power goes.
THEOREM DeliberateRecovery == Spec => RecoveryIsDeliberate
  <1>1. Init => PressIsHonest
    BY HoldAssumption DEF Init, RecoveryInit, PressIsHonest, NotDown
  <1>2. PressIsHonest /\ [Next]_vars => PressIsHonest'
    BY PartsStep, PressStaysHonest
  <1>3. PressIsHonest /\ [Next]_vars
        => [/\ confirmed /\ ~confirmed' => ~button /\ downAge >= HoldTime
            /\ bonded /\ ~bonded' => ~confirmed]_recoveryVars
    <2> SUFFICES ASSUME PressIsHonest, RecoveryNext
                 PROVE  /\ confirmed /\ ~confirmed' => ~button /\ downAge >= HoldTime
                        /\ bonded /\ ~bonded' => ~confirmed
      BY PartsStep
    <2>1. CASE clearSyncTrust
      BY <2>1, HoldAssumption DEF PressIsHonest, clearSyncTrust
    <2>2. CASE clearBonds
      BY <2>2 DEF PressIsHonest, clearBonds
    <2>3. CASE ~clearSyncTrust /\ ~clearBonds
      BY <2>3 DEF RecoveryNext, ButtonSeenDown, ButtonSeenUp, Stops, Starts, ButtonMoves,
                  Syncs, Pairs, SecondsPass
    <2> QED
      BY <2>1, <2>2, <2>3
  <1> QED
    BY <1>1, <1>2, <1>3, PTL DEF Spec, RecoveryIsDeliberate

----------------------------------------------------------------------------
(* The level of the light                                                  *)

DisplayType ==
  [ready : BOOLEAN, attemptAge : Nat, sampleAge : Nat, frameAge : Nat, unready : Nat,
   invalid : Nat, lux : Lux \union {NoLux}, level : 0..Len(Boundary), brightness : Nat,
   key : Frames \union {NoFrame},
   panel : [frame : Frames \union {NoFrame}, level : Nat]]

\* The level is within 20 % of the band the light is in.
InBand(d) ==
  d.lux # NoLux =>
    /\ d.level < Len(Boundary) => 10 * d.lux <= 12 * Boundary[d.level + 1]
    /\ d.level > 0             => 10 * d.lux >= 8 * Boundary[d.level]

Level(d) == IF d.ready /\ d.lux # NoLux THEN d.level ELSE Fallback

Lit(d) == InBand(d) /\ (hasPanel => d.brightness = Level(d))

\* The panel shows the frame whose key the backend remembers, at the level it has.
Shown(d) ==
  hasPanel /\ d.key # NoFrame => d.panel = [frame |-> d.key, level |-> d.brightness]

\* What the sensor and the light may do to the frame: nothing, or have it drawn again.
Redraws(d, e) ==
  /\ e.panel = d.panel /\ e.frameAge = d.frameAge
  /\ e.key = NoFrame \/ (e.key = d.key /\ e.brightness = d.brightness)

LEMMA Bands ==
  /\ Len(Boundary) \in Nat
  /\ \A k \in 1..Len(Boundary) : Boundary[k] \in Nat
  /\ Fallback \in Nat /\ Lux \subseteq Nat
  BY DisplayAssumption

\* LightLevelController::update finds a band from any level and any light.
LEMMA UpdateInBand ==
  ASSUME NEW d \in DisplayType, NEW f \in Lux
  PROVE  LET e == update(d, f) IN
         /\ e \in DisplayType /\ InBand(e) /\ e.lux = f /\ (e.ready <=> d.ready)
         /\ e.brightness = d.brightness /\ e.key = d.key /\ e.panel = d.panel
         /\ e.frameAge = d.frameAge
  <1> DEFINE n == Len(Boundary)
             ups == {k \in d.level..n : k = n \/ 10 * f <= 12 * Boundary[k + 1]}
             up == Min(ups)
             downs == {k \in 0..up : k = 0 \/ 10 * f >= 8 * Boundary[k]}
             down == Max(downs)
             e == [d EXCEPT !.lux = f, !.level = down]
  <1>1. n \in Nat /\ d.level \in 0..n /\ f \in Nat
    BY Bands DEF DisplayType
  <1>2. up \in 0..n /\ (up = n \/ 10 * f <= 12 * Boundary[up + 1])
    <2>1. ups \in SUBSET (0..n) /\ n \in ups
      BY <1>1
    <2> HIDE DEF n
    <2>2. up \in ups
      BY <1>1, <2>1, MinFacts
    <2> QED
      BY <1>1, <2>2
  <1> HIDE DEF up
  <1>3. down \in downs /\ \A k \in downs : down >= k
    <2>1. downs \in SUBSET (0..up) /\ 0 \in downs /\ up \in Nat
      BY <1>2
    <2> HIDE DEF downs
    <2> QED
      BY <2>1, MaxFacts
  <1> HIDE DEF down
  <1>4. down \in 0..n /\ (down > 0 => 10 * f >= 8 * Boundary[down])
    BY <1>1, <1>2, <1>3
  <1>5. down < n => 10 * f <= 12 * Boundary[down + 1]
    <2>1. CASE down = up
      BY <1>2, <2>1
    <2>2. CASE down < up
      <3>1. down + 1 \in 0..up /\ down + 1 \notin downs
        BY <1>2, <1>3, <1>4, <2>2
      <3>2. ~(10 * f >= 8 * Boundary[down + 1])
        BY <3>1
      <3>3. Boundary[down + 1] \in Nat
        BY <1>1, <1>2, <1>4, <2>2, Bands
      <3> QED
        BY <1>1, <3>2, <3>3
    <2> QED
      BY <1>2, <1>3, <2>1, <2>2
  <1>6. update(d, f) = e
    BY DEF update, down, up
  <1>7. e \in DisplayType
    BY <1>4 DEF DisplayType
  <1>8. /\ e.lux = f /\ e.level = down /\ (e.ready <=> d.ready)
        /\ e.brightness = d.brightness /\ e.key = d.key /\ e.panel = d.panel
        /\ e.frameAge = d.frameAge
    BY DEF DisplayType
  <1> HIDE DEF e
  <1>9. InBand(e)
    BY <1>4, <1>5, <1>8 DEF InBand
  <1> QED
    BY <1>6, <1>7, <1>8, <1>9

LEMMA Sums ==
  /\ 0 \in Nat /\ 0 \in 0..Len(Boundary) /\ NoLux \in Int /\ NoLux \notin Lux
  /\ SampleTime \in Nat \ {0} /\ SensorRetry \in Nat \ {0} /\ FrameTime \in Nat \ {0}
  /\ \A n \in Nat : n + 1 \in Nat
  BY DisplayAssumption, Bands DEF NoLux

\* reset, with the sensor in use or not, and its counters at any value.
LEMMA ResetTyped ==
  ASSUME NEW d \in DisplayType
  PROVE  LET e == reset(d) IN
         /\ e \in DisplayType /\ e.lux = NoLux /\ (e.ready <=> d.ready)
         /\ e.brightness = d.brightness /\ e.key = d.key /\ e.panel = d.panel
         /\ e.frameAge = d.frameAge
  <1>1. reset(d) \in DisplayType
    BY Sums DEF reset, DisplayType
  <1> QED
    BY <1>1 DEF reset, DisplayType

\* setBrightness: the new level, and the frame again if it differs.
LEMMA SetBrightnessFacts ==
  ASSUME NEW d \in DisplayType, NEW level \in Nat
  PROVE  LET e == setBrightness(d, level) IN
         /\ e \in DisplayType /\ e.lux = d.lux /\ e.level = d.level /\ (e.ready <=> d.ready)
         /\ hasPanel => e.brightness = level
         /\ hasPanel => Redraws(d, e)
         /\ e.frameAge = d.frameAge
  <1> DEFINE e == [d EXCEPT !.brightness = level, !.key = NoFrame]
  <1>1. CASE ~hasPanel \/ level = d.brightness
    <2>1. setBrightness(d, level) = d
      BY <1>1 DEF setBrightness
    <2> QED
      BY <1>1, <2>1 DEF Redraws
  <1>2. CASE ~(~hasPanel \/ level = d.brightness)
    <2>1. setBrightness(d, level) = e
      BY <1>2 DEF setBrightness
    <2>2. e \in DisplayType
      BY DEF DisplayType
    <2>3. /\ e.lux = d.lux /\ e.level = d.level /\ (e.ready <=> d.ready)
          /\ e.brightness = level /\ e.key = NoFrame /\ e.panel = d.panel
          /\ e.frameAge = d.frameAge
      BY DEF DisplayType
    <2> HIDE DEF e
    <2>4. Redraws(d, e)
      BY <2>3 DEF Redraws
    <2> QED
      BY <2>1, <2>2, <2>3, <2>4
  <1> QED
    BY <1>1, <1>2

\* Without a sensor or a reading the fallback level is set.
LEMMA Dark ==
  ASSUME NEW d \in DisplayType, NEW e \in DisplayType, e.lux = NoLux,
         hasPanel => Redraws(d, e), e.frameAge = d.frameAge
  PROVE  LET g == setBrightness(e, Fallback) IN
         g \in DisplayType /\ Lit(g) /\ (hasPanel => Redraws(d, g)) /\ g.frameAge = d.frameAge
  <1> DEFINE g == setBrightness(e, Fallback)
  <1>1. Fallback \in Nat
    BY Bands
  <1>2. /\ g \in DisplayType /\ g.lux = NoLux /\ g.frameAge = d.frameAge
        /\ hasPanel => g.brightness = Fallback /\ Redraws(e, g)
    BY <1>1, SetBrightnessFacts
  <1> HIDE DEF g
  <1>3. Lit(g)
    BY <1>2 DEF Lit, InBand, Level
  <1>4. hasPanel => Redraws(d, g)
    BY <1>2 DEF Redraws
  <1> QED
    BY <1>2, <1>3, <1>4 DEF g

\* What every operation of the light must leave behind.
Dims(d, e) ==
  e \in DisplayType /\ Lit(e) /\ (hasPanel => Redraws(d, e)) /\ e.frameAge = d.frameAge

LEMMA SensorLostDims ==
  ASSUME NEW d \in DisplayType
  PROVE  Dims(d, SensorLost(d))
  <1> DEFINE r == reset(d)
             e == [r EXCEPT !.ready = FALSE]
  <1>1. /\ r \in DisplayType /\ r.lux = NoLux /\ r.brightness = d.brightness
        /\ r.key = d.key /\ r.panel = d.panel /\ r.frameAge = d.frameAge
    BY ResetTyped
  <1> HIDE DEF r
  <1>2. e \in DisplayType
    BY <1>1 DEF DisplayType
  <1>3. /\ e.lux = r.lux /\ e.brightness = r.brightness /\ e.key = r.key
        /\ e.panel = r.panel /\ e.frameAge = r.frameAge
    BY <1>1 DEF DisplayType
  <1>4. SensorLost(d) = setBrightness(e, Fallback)
    BY DEF SensorLost, r
  <1> HIDE DEF e
  <1>5. Redraws(d, e)
    BY <1>1, <1>3 DEF Redraws
  <1> QED
    BY <1>1, <1>2, <1>3, <1>4, <1>5, Dark DEF Dims

LEMMA TryLightSensorDims ==
  ASSUME NEW d \in DisplayType, Lit(d), ~d.ready, NEW found \in BOOLEAN
  PROVE  /\ Dims(d, tryLightSensor(d, found))
         /\ tryLightSensor(d, found).lux = NoLux
         /\ tryLightSensor(d, found).sampleAge = d.sampleAge
  <1> DEFINE r == reset(d)
             e == [r EXCEPT !.attemptAge = 0, !.ready = found, !.invalid = 0, !.unready = 0]
  <1>1. /\ r \in DisplayType /\ r.lux = NoLux /\ r.brightness = d.brightness
        /\ r.key = d.key /\ r.panel = d.panel /\ r.frameAge = d.frameAge
    BY ResetTyped
  <1>2. r.sampleAge = d.sampleAge
    BY DEF reset, DisplayType
  <1> HIDE DEF r
  <1>3. e \in DisplayType
    BY <1>1, Sums DEF DisplayType
  <1>4. /\ e.lux = r.lux /\ e.brightness = r.brightness /\ e.key = r.key
        /\ e.panel = r.panel /\ e.frameAge = r.frameAge /\ e.sampleAge = r.sampleAge
        /\ (e.ready <=> found)
    BY <1>1 DEF DisplayType
  <1>5. tryLightSensor(d, found) = IF found THEN e ELSE setBrightness(e, Fallback)
    BY DEF tryLightSensor, r
  <1> HIDE DEF e
  <1>6. Redraws(d, e)
    BY <1>1, <1>4 DEF Redraws
  <1>7. CASE found
    <2>1. hasPanel => e.brightness = Fallback
      BY <1>1, <1>4 DEF Lit, Level
    <2>2. Lit(e)
      BY <1>1, <1>4, <2>1 DEF Lit, InBand, Level
    <2> QED
      BY <1>1, <1>2, <1>3, <1>4, <1>5, <1>6, <1>7, <2>2 DEF Dims
  <1>8. CASE ~found
    <2>1. Dims(d, setBrightness(e, Fallback))
      BY <1>1, <1>3, <1>4, <1>6, Dark DEF Dims
    <2>2. /\ setBrightness(e, Fallback).lux = e.lux
          /\ setBrightness(e, Fallback).sampleAge = e.sampleAge
      <3>1. Fallback \in Nat
        BY Bands
      <3> QED
        BY <1>3, <3>1 DEF setBrightness, DisplayType
    <2> QED
      BY <1>1, <1>2, <1>4, <1>5, <1>8, <2>1, <2>2
  <1> QED
    BY <1>7, <1>8

\* Every reading leaves the panel at the right level: unready, unarmed, invalid, or light.
LEMMA BadDims ==
  ASSUME NEW d \in DisplayType, Lit(d), NEW kind \in {"unready", "invalid"}
  PROVE  Dims(d, Bad(d, kind))
  <1> DEFINE b == [d EXCEPT ![kind] = @ + 1]
  <1>1. CASE kind = "unready"
    <2> DEFINE e == [d EXCEPT !.unready = @ + 1]
    <2>1. e \in DisplayType
      BY Sums DEF DisplayType
    <2>2. /\ e.lux = d.lux /\ e.level = d.level /\ (e.ready <=> d.ready)
          /\ e.brightness = d.brightness /\ e.key = d.key /\ e.panel = d.panel
          /\ e.frameAge = d.frameAge
      BY DEF DisplayType
    <2>3. Bad(d, kind) = IF e[kind] >= MaxBad THEN SensorLost(e) ELSE e
      BY <1>1 DEF Bad
    <2> HIDE DEF e
    <2> QED
      BY <2>1, <2>2, <2>3, SensorLostDims DEF Dims, Lit, InBand, Level, Redraws
  <1>2. CASE kind = "invalid"
    <2> DEFINE e == [d EXCEPT !.invalid = @ + 1]
    <2>1. e \in DisplayType
      BY Sums DEF DisplayType
    <2>2. /\ e.lux = d.lux /\ e.level = d.level /\ (e.ready <=> d.ready)
          /\ e.brightness = d.brightness /\ e.key = d.key /\ e.panel = d.panel
          /\ e.frameAge = d.frameAge
      BY DEF DisplayType
    <2>3. Bad(d, kind) = IF e[kind] >= MaxBad THEN SensorLost(e) ELSE e
      BY <1>2 DEF Bad
    <2> HIDE DEF e
    <2> QED
      BY <2>1, <2>2, <2>3, SensorLostDims DEF Dims, Lit, InBand, Level, Redraws
  <1> QED
    BY <1>1, <1>2

LEMMA DimsTransitive ==
  ASSUME NEW d, NEW e, NEW g, hasPanel => Redraws(d, e), e.frameAge = d.frameAge, Dims(e, g)
  PROVE  Dims(d, g)
  BY DEF Dims, Redraws

What == {"unready", "unarmed", "invalid", "lux"}

LEMMA SampledDims ==
  ASSUME NEW d \in DisplayType, Lit(d), d.ready,
         NEW r, r.what \in What, r.what = "lux" => r.lux \in Lux
  PROVE  Dims(d, Sampled(d, r))
  <1> DEFINE s == [d EXCEPT !.unready = 0]
             v == [s EXCEPT !.invalid = 0]
             u == update(v, r.lux)
  <1>1. s \in DisplayType /\ v \in DisplayType
    BY Sums DEF DisplayType
  <1>2. /\ s.lux = d.lux /\ s.level = d.level /\ (s.ready <=> d.ready)
        /\ s.brightness = d.brightness /\ s.key = d.key /\ s.panel = d.panel
        /\ s.frameAge = d.frameAge
    BY DEF DisplayType
  <1>3. /\ v.lux = d.lux /\ (v.ready <=> d.ready) /\ v.brightness = d.brightness
        /\ v.key = d.key /\ v.panel = d.panel /\ v.frameAge = d.frameAge
    BY DEF DisplayType
  <1>4. Lit(s) /\ Redraws(d, s) /\ Redraws(d, v)
    BY <1>2, <1>3 DEF Lit, InBand, Level, Redraws
  <1>5. CASE r.what = "unready"
    <2>1. Sampled(d, r) = Bad(d, "unready")
      BY <1>5 DEF Sampled
    <2> QED
      BY <2>1, BadDims
  <1>6. CASE r.what = "unarmed"
    <2>1. Sampled(d, r) = SensorLost(s)
      BY <1>6 DEF Sampled
    <2> HIDE DEF s
    <2> QED
      BY <1>1, <1>2, <1>4, <2>1, SensorLostDims, DimsTransitive
  <1>7. CASE r.what = "invalid"
    <2>1. Sampled(d, r) = Bad(s, "invalid")
      BY <1>7 DEF Sampled
    <2> HIDE DEF s
    <2> QED
      BY <1>1, <1>2, <1>4, <2>1, BadDims, DimsTransitive
  <1>8. CASE r.what = "lux"
    <2>1. Sampled(d, r) = setBrightness(u, u.level)
      BY <1>8 DEF Sampled
    <2> HIDE DEF s, v
    <2>2. /\ u \in DisplayType /\ InBand(u) /\ u.lux = r.lux /\ (u.ready <=> v.ready)
          /\ u.brightness = v.brightness /\ u.key = v.key /\ u.panel = v.panel
          /\ u.frameAge = v.frameAge
      BY <1>1, <1>8, UpdateInBand
    <2> HIDE DEF u
    <2>3. u.level \in Nat /\ u.lux # NoLux
      BY <1>8, <2>2, Sums, Bands DEF DisplayType
    <2> DEFINE g == setBrightness(u, u.level)
    <2>4. /\ g \in DisplayType /\ g.lux = u.lux /\ g.level = u.level /\ (g.ready <=> u.ready)
          /\ hasPanel => g.brightness = u.level
          /\ hasPanel => Redraws(u, g)
          /\ g.frameAge = u.frameAge
      BY <2>2, <2>3, SetBrightnessFacts
    <2> HIDE DEF g
    <2>5. Lit(g)
      BY <1>3, <2>2, <2>3, <2>4 DEF Lit, InBand, Level
    <2>6. Redraws(d, u) /\ u.frameAge = d.frameAge
      BY <1>3, <2>2 DEF Redraws
    <2>7. Dims(d, g)
      BY <2>4, <2>5, <2>6 DEF Dims, Redraws
    <2> QED
      BY <2>1, <2>7 DEF g
  <1> QED
    BY <1>5, <1>6, <1>7, <1>8 DEF What

LEMMA SampleLightDims ==
  ASSUME NEW d \in DisplayType, Lit(d), NEW found \in BOOLEAN,
         NEW r, r.what \in What, r.what = "lux" => r.lux \in Lux
  PROVE  Dims(d, sampleLight(d, found, r))
  <1> DEFINE t == IF RetryIsDue(d) THEN tryLightSensor(d, found) ELSE d
             s == [t EXCEPT !.sampleAge = 0]
  <1>1. t \in DisplayType /\ Lit(t) /\ (hasPanel => Redraws(d, t)) /\ t.frameAge = d.frameAge
    <2>1. CASE RetryIsDue(d)
      BY <2>1, TryLightSensorDims DEF Dims, RetryIsDue
    <2>2. CASE ~RetryIsDue(d)
      BY <2>2 DEF Redraws
    <2> QED
      BY <2>1, <2>2
  <1>2. sampleLight(d, found, r) =
          IF t.sampleAge < SampleTime THEN t ELSE IF ~t.ready THEN s ELSE Sampled(s, r)
    BY DEF sampleLight
  <1> HIDE DEF t
  <1>3. s \in DisplayType
    BY <1>1, Sums DEF DisplayType
  <1>4. /\ s.lux = t.lux /\ s.level = t.level /\ (s.ready <=> t.ready)
        /\ s.brightness = t.brightness /\ s.key = t.key /\ s.panel = t.panel
        /\ s.frameAge = t.frameAge
    BY <1>1 DEF DisplayType
  <1> HIDE DEF s
  <1>5. Lit(s) /\ (hasPanel => Redraws(d, s)) /\ s.frameAge = d.frameAge
    BY <1>1, <1>4 DEF Lit, InBand, Level, Redraws
  <1>6. s.ready => Dims(d, Sampled(s, r))
    BY <1>3, <1>5, SampledDims, DimsTransitive
  <1> QED
    BY <1>1, <1>2, <1>3, <1>4, <1>5, <1>6 DEF Dims

----------------------------------------------------------------------------
(* The frame                                                               *)

LEMMA FrameIsSome == \A key \in Frames : key # NoFrame
  <1> SUFFICES ASSUME NEW key \in Frames PROVE key # NoFrame
    OBVIOUS
  <1> DEFINE F(recovery, portal, wifi, valid, pairing, overdue, timesTurn, second) ==
               FrameKey(makeDisplayFrame(valid, selectUserDisplayState(recovery, portal, wifi,
                          valid, pairing, overdue), timesTurn), second, overdue)
  <1>1. Frames = {F(recovery, portal, wifi, valid, pairing, overdue, timesTurn, second) :
                    recovery, portal, wifi, valid, pairing, overdue, timesTurn \in BOOLEAN,
                    second \in 0..1}
    BY DEF Frames
  <1> HIDE DEF F
  <1>2. PICK recovery, portal, wifi, valid, pairing, overdue, timesTurn \in BOOLEAN,
             second \in 0..1 :
          key = F(recovery, portal, wifi, valid, pairing, overdue, timesTurn, second)
    BY <1>1
  <1> DEFINE state == selectUserDisplayState(recovery, portal, wifi, valid, pairing, overdue)
             content == makeDisplayFrame(valid, state, timesTurn)
  <1>3. state \in {"kRecovery", "kClock", "kPairing", "kPortal", "kWifi", "kNoTime"}
    BY DEF selectUserDisplayState
  <1> HIDE DEF state
  <1>4. content # "none"
    BY <1>3 DEF makeDisplayFrame
  <1> HIDE DEF content
  <1>5. key = <<content, second, overdue>> \/ key = <<content>>
    BY <1>2 DEF F, FrameKey, content, state
  <1>6. key[1] = content
    BY <1>5
  <1> QED
    BY <1>4, <1>6 DEF NoFrame

DisplayInv ==
  /\ display \in DisplayType /\ Lit(display) /\ Shown(display)
  /\ hasPanel => display.panel = wanted

\* show: the frame that is drawn, or was.
LEMMA DrawnShows ==
  ASSUME NEW d \in DisplayType, Lit(d), Shown(d), hasPanel => d.panel = wanted,
         NEW key \in Frames, Drawn(d, key)
  PROVE  /\ display' \in DisplayType /\ Lit(display') /\ Shown(display')
         /\ hasPanel => display'.panel = wanted'
  <1> DEFINE a == [d EXCEPT !.frameAge = 0]
             e == [a EXCEPT !.key = key, !.panel = [frame |-> key, level |-> d.brightness]]
  <1>1. CASE ~hasPanel \/ d.frameAge < FrameTime
    BY <1>1 DEF Drawn
  <1>2. CASE ~(~hasPanel \/ d.frameAge < FrameTime)
    <2>1. a \in DisplayType
      BY Sums DEF DisplayType
    <2>2. /\ a.lux = d.lux /\ a.level = d.level /\ (a.ready <=> d.ready)
          /\ a.brightness = d.brightness /\ a.key = d.key /\ a.panel = d.panel
      BY DEF DisplayType
    <2>3. /\ display' = IF key = a.key THEN a ELSE
                          [a EXCEPT !.key = key,
                                    !.panel = [frame |-> key, level |-> a.brightness]]
          /\ wanted' = [frame |-> key, level |-> d.brightness]
      BY <1>2 DEF Drawn, show
    <2> HIDE DEF a
    <2>4. e \in DisplayType
      <3>1. d.brightness \in Nat
        BY DEF DisplayType
      <3>2. [frame |-> key, level |-> d.brightness]
              \in [frame : Frames \union {NoFrame}, level : Nat]
        BY <3>1
      <3> QED
        BY <2>1, <3>2 DEF DisplayType
    <2>5. /\ e.lux = a.lux /\ e.level = a.level /\ (e.ready <=> a.ready)
          /\ e.brightness = a.brightness /\ e.key = key
          /\ e.panel = [frame |-> key, level |-> d.brightness]
      BY <2>1 DEF DisplayType
    <2>6. display' = IF key = a.key THEN a ELSE e
      BY <2>2, <2>3
    <2> HIDE DEF e
    <2>7. CASE key = a.key
      <3>1. a.panel = [frame |-> key, level |-> d.brightness]
        BY <1>2, <2>2, <2>7, FrameIsSome DEF Shown
      <3>2. Lit(a) /\ Shown(a)
        BY <2>2, <2>7, <3>1 DEF Lit, InBand, Level, Shown
      <3> QED
        BY <2>1, <2>3, <2>6, <2>7, <3>1, <3>2
    <2>8. CASE key # a.key
      <3>1. Lit(e) /\ Shown(e)
        BY <2>2, <2>5 DEF Lit, InBand, Level, Shown
      <3> QED
        BY <2>3, <2>4, <2>5, <2>6, <2>8, <3>1
    <2> QED
      BY <2>7, <2>8
  <1> QED
    BY <1>1, <1>2

LEMMA TickKeeps ==
  ASSUME DisplayInv, tick
  PROVE  DisplayInv'
  <1>1. PICK found \in BOOLEAN, r \in Readings, key \in Frames :
          Drawn(sampleLight(display, found, r), key)
    BY DEF tick
  <1> DEFINE d == sampleLight(display, found, r)
  <1>2. r.what \in What /\ (r.what = "lux" => r.lux \in Lux)
    <2>1. ASSUME NEW lux \in Lux PROVE Between(display.lux, lux) \subseteq Lux
      BY DEF Between
    <2>2. CASE \E f \in UNION {Between(display.lux, lux) : lux \in Lux} :
                 r = [what |-> "lux", lux |-> f]
      BY <2>1, <2>2 DEF What
    <2>3. CASE \E w \in {"unready", "unarmed", "invalid"} : r = [what |-> w, lux |-> NoLux]
      BY <2>3 DEF What
    <2> QED
      BY <2>2, <2>3 DEF Readings
  <1>3. Dims(display, d)
    BY <1>2, SampleLightDims DEF DisplayInv
  <1> HIDE DEF d
  <1>4. /\ d \in DisplayType /\ Lit(d) /\ Shown(d)
        /\ hasPanel => d.panel = wanted
    BY <1>3 DEF Dims, DisplayInv, Redraws, Shown
  <1>5. /\ display' \in DisplayType /\ Lit(display') /\ Shown(display')
        /\ hasPanel => display'.panel = wanted'
    BY <1>1, <1>4, DrawnShows DEF d
  <1>6. hasPanel' = hasPanel
    BY DEF tick
  <1> QED
    BY <1>5, <1>6 DEF DisplayInv, Lit, Shown, InBand, Level

LEMMA TimeKeepsDisplay ==
  ASSUME DisplayInv, TimePasses
  PROVE  DisplayInv'
  <1> DEFINE a == Min({display.attemptAge + 1, SensorRetry})
             b == Min({display.sampleAge + 1, SampleTime})
             c == Min({display.frameAge + 1, FrameTime})
             e == [display EXCEPT !.attemptAge = a, !.sampleAge = b, !.frameAge = c]
  <1>1. display \in DisplayType
    BY DEF DisplayInv
  <1>2. a \in Nat /\ b \in Nat /\ c \in Nat
    <2>1. /\ display.attemptAge + 1 \in Nat /\ display.sampleAge + 1 \in Nat
          /\ display.frameAge + 1 \in Nat
      BY <1>1 DEF DisplayType
    <2> QED
      BY <2>1, Sums, MinOfTwo
  <1>3. display' = e
    BY <1>1 DEF TimePasses, Aged, DisplayType
  <1> HIDE DEF a, b, c
  <1>4. e \in DisplayType
    BY <1>1, <1>2 DEF DisplayType
  <1>5. /\ e.lux = display.lux /\ e.level = display.level /\ (e.ready <=> display.ready)
        /\ e.brightness = display.brightness /\ e.key = display.key
        /\ e.panel = display.panel
    BY <1>1 DEF DisplayType
  <1> HIDE DEF e
  <1> QED
    BY <1>3, <1>4, <1>5 DEF DisplayInv, TimePasses, Lit, Shown, InBand, Level

LEMMA DisplayStarts ==
  ASSUME DisplayInit
  PROVE  DisplayInv
  <1>1. PICK found \in BOOLEAN : display = Boot(hasPanel, found)
    BY DEF DisplayInit
  <1> DEFINE light == IF hasPanel THEN Fallback ELSE 0
             off == [ready |-> FALSE, attemptAge |-> 0, sampleAge |-> 0, frameAge |-> 0,
                     unready |-> 0, invalid |-> 0, lux |-> NoLux, level |-> 0,
                     brightness |-> light, key |-> NoFrame,
                     panel |-> [frame |-> NoFrame, level |-> 0]]
             e == [off EXCEPT !.ready = found]
  <1>2. display = e
    BY <1>1 DEF Boot
  <1>3. light \in Nat
    BY Bands
  <1>4. hasPanel => light = Fallback
    OBVIOUS
  <1> HIDE DEF light
  <1>5. off \in DisplayType
    BY <1>3, Sums DEF DisplayType
  <1>6. /\ off.lux = NoLux /\ off.brightness = light /\ off.key = NoFrame
        /\ off.panel = [frame |-> NoFrame, level |-> 0]
    OBVIOUS
  <1> HIDE DEF off
  <1>7. e \in DisplayType
    BY <1>5 DEF DisplayType
  <1>8. /\ e.lux = NoLux /\ e.brightness = light /\ e.key = NoFrame
        /\ e.panel = [frame |-> NoFrame, level |-> 0]
    BY <1>5, <1>6 DEF DisplayType
  <1> HIDE DEF e
  <1>9. wanted = [frame |-> NoFrame, level |-> 0]
    BY DEF DisplayInit
  <1> QED
    BY <1>2, <1>4, <1>7, <1>8, <1>9 DEF DisplayInv, Lit, Shown, InBand, Level

LEMMA DisplayKeeps ==
  ASSUME DisplayInv, [DisplayNext]_displayVars
  PROVE  DisplayInv'
  <1>1. CASE tick
    BY <1>1, TickKeeps
  <1>2. CASE TimePasses
    BY <1>2, TimeKeepsDisplay
  <1>3. CASE UNCHANGED <<display, hasPanel, wanted>>
    BY <1>3 DEF DisplayInv, Lit, Shown, InBand, Level
  <1> QED
    BY <1>1, <1>2, <1>3 DEF DisplayNext, SensorChanges, displayVars

\* The panel, the sensor and the level of the light agree at every moment.
THEOREM DisplaySound == Spec => []DisplayInv
  <1>1. Init => DisplayInv
    BY DisplayStarts DEF Init
  <1>2. DisplayInv /\ [Next]_vars => DisplayInv'
    BY PartsStep, DisplayKeeps
  <1> QED
    BY <1>1, <1>2, PTL DEF Spec

\* LightLevelController and DisplayController keep the panel at the level of the light, or
\* at the fallback without a reading, for any boundaries and however the sensor fails.
THEOREM BrightnessFollows == Spec => []BrightnessFollowsLight
  <1>1. DisplayInv => BrightnessFollowsLight
    BY DEF DisplayInv, BrightnessFollowsLight, Lit, InBand, Level
  <1> QED
    BY <1>1, DisplaySound, PTL

\* The cache of the OLED backend never hides a frame or a level that was asked for.
THEOREM PanelFollows == Spec => []PanelShowsFrame
  <1>1. DisplayInv => PanelShowsFrame
    BY DEF DisplayInv, PanelShowsFrame
  <1> QED
    BY <1>1, DisplaySound, PTL

----------------------------------------------------------------------------
(* The order of access points                                              *)

Candidate == [bssid : Bssid, rssi : Rssi]

LEMMA Numbers ==
  /\ \A c \in Candidate : c.bssid \in Bssid /\ c.rssi \in Rssi
  /\ \A b \in Bssid : b \in Int
  /\ \A r \in Rssi : r \in Int /\ r # NotHeard
  /\ RankCapacity \in Nat \ {0} /\ NotHeard \in Int
  BY RankingAssumption DEF Candidate, NotHeard

\* Strength first, then the address: total, transitive, and no two alike.
LEMMA OutranksOrder ==
  ASSUME NEW c \in Candidate, NEW d \in Candidate, NEW e \in Candidate
  PROVE  /\ Outranks(c, d) \/ Outranks(d, c)
         /\ Outranks(c, d) /\ Outranks(d, e) => Outranks(c, e)
         /\ Outranks(c, d) /\ Outranks(d, c) => c.bssid = d.bssid /\ c.rssi = d.rssi
  <1>1. /\ c.bssid \in Int /\ c.rssi \in Int /\ d.bssid \in Int /\ d.rssi \in Int
        /\ e.bssid \in Int /\ e.rssi \in Int
    BY Numbers
  <1> QED
    BY <1>1 DEF Outranks

\* The lists the code keeps: in order, each access point once.
Ranked(list) ==
  /\ list \in Seq(Candidate)
  /\ \A i, j \in DOMAIN list :
       i < j => Outranks(list[i], list[j]) /\ list[i].bssid # list[j].bssid

Lists(list, d) == \E i \in DOMAIN list : list[i] = d

\* InsertAt of the community modules, place by place.
LEMMA InsertAtFacts ==
  ASSUME NEW list \in Seq(Candidate), NEW c \in Candidate, NEW place \in 1..Len(list)
  PROVE  LET all == InsertAt(list, place, c) IN
         /\ all \in Seq(Candidate) /\ Len(all) = Len(list) + 1 /\ all[place] = c
         /\ \A j \in 1..Len(list) : all[IF j < place THEN j ELSE j + 1] = list[j]
         /\ \A j \in 1..Len(list) + 1 : j # place => all[j] = list[IF j < place THEN j ELSE j - 1]
  <1> DEFINE front == SubSeq(list, 1, place - 1)
             back == SubSeq(list, place, Len(list))
             all == (front \o <<c>>) \o back
  <1>1. /\ front \in Seq(Candidate) /\ Len(front) = place - 1
        /\ \A i \in 1..place - 1 : front[i] = list[i]
    OBVIOUS
  <1>2. /\ back \in Seq(Candidate) /\ Len(back) = Len(list) - place + 1
        /\ \A i \in 1..Len(list) - place + 1 : back[i] = list[place + i - 1]
    OBVIOUS
  <1>3. InsertAt(list, place, c) = all
    BY DEF InsertAt
  <1> HIDE DEF front, back
  <1>4. all \in Seq(Candidate) /\ Len(all) = Len(list) + 1
    <2>1. <<c>> \in Seq(Candidate) /\ Len(<<c>>) = 1
      OBVIOUS
    <2> DEFINE middle == front \o <<c>>
    <2>2. middle \in Seq(Candidate) /\ Len(middle) = place
      BY <1>1, <2>1
    <2> HIDE DEF middle
    <2>3. middle \o back \in Seq(Candidate) /\ Len(middle \o back) = Len(middle) + Len(back)
      BY <1>2, <2>2, ConcatProperties
    <2>4. place + (Len(list) - place + 1) = Len(list) + 1
      OBVIOUS
    <2> QED
      BY <1>2, <2>2, <2>3, <2>4 DEF middle
  <1>5. all[place] = c
    BY <1>1, <1>2
  <1>6. \A j \in 1..Len(list) + 1 : j # place => all[j] = list[IF j < place THEN j ELSE j - 1]
    BY <1>1, <1>2
  <1> HIDE DEF all
  <1>7. \A j \in 1..Len(list) : all[IF j < place THEN j ELSE j + 1] = list[j]
    <2> SUFFICES ASSUME NEW j \in 1..Len(list)
                 PROVE  all[IF j < place THEN j ELSE j + 1] = list[j]
      OBVIOUS
    <2>1. CASE j < place
      BY <1>6, <2>1
    <2>2. CASE ~(j < place)
      <3>1. j + 1 \in 1..Len(list) + 1 /\ j + 1 # place /\ ~(j + 1 < place)
        BY <2>2
      <3>2. all[j + 1] = list[(j + 1) - 1]
        BY <1>6, <3>1
      <3> QED
        BY <2>2, <3>2
    <2> QED
      BY <2>1, <2>2
  <1> QED
    BY <1>3, <1>4, <1>5, <1>6, <1>7

LEMMA RemoveAtFacts ==
  ASSUME NEW list \in Seq(Candidate), NEW place \in 1..Len(list)
  PROVE  LET rest == RemoveAt(list, place) IN
         /\ rest \in Seq(Candidate) /\ Len(rest) = Len(list) - 1
         /\ \A j \in 1..Len(list) - 1 : rest[j] = list[IF j < place THEN j ELSE j + 1]
  <1> DEFINE front == SubSeq(list, 1, place - 1)
             back == SubSeq(list, place + 1, Len(list))
             rest == front \o back
  <1>1. /\ front \in Seq(Candidate) /\ Len(front) = place - 1
        /\ \A i \in 1..place - 1 : front[i] = list[i]
    OBVIOUS
  <1>2. /\ back \in Seq(Candidate) /\ Len(back) = Len(list) - place
        /\ \A i \in 1..Len(list) - place : back[i] = list[place + i]
    OBVIOUS
  <1>3. RemoveAt(list, place) = rest
    BY DEF RemoveAt
  <1> HIDE DEF front, back
  <1>4. /\ rest \in Seq(Candidate) /\ Len(rest) = Len(list) - 1
    BY <1>1, <1>2
  <1>5. ASSUME NEW j \in 1..Len(list) - 1
        PROVE  rest[j] = list[IF j < place THEN j ELSE j + 1]
    <2>1. j \in 1..Len(front) + Len(back) /\ Len(front) = place - 1 /\ Len(list) \in Nat
      BY <1>1, <1>2
    <2>2. rest[j] = IF j <= Len(front) THEN front[j] ELSE back[j - Len(front)]
      BY <1>1, <1>2, <2>1
    <2>3. CASE j < place
      <3>1. j \in 1..place - 1 /\ j <= Len(front)
        BY <2>1, <2>3
      <3> QED
        BY <1>1, <2>2, <2>3, <3>1
    <2>4. CASE ~(j < place)
      <3>1. ~(j <= Len(front)) /\ j - Len(front) \in 1..Len(list) - place
            /\ place + (j - Len(front)) = j + 1
        BY <2>1, <2>4
      <3> QED
        BY <1>2, <2>2, <2>4, <3>1
    <2> QED
      BY <2>3, <2>4
  <1> QED
    BY <1>3, <1>4, <1>5

LEMMA FrontFacts ==
  ASSUME NEW list \in Seq(Candidate), list # <<>>
  PROVE  /\ Front(list) \in Seq(Candidate) /\ Len(Front(list)) = Len(list) - 1
         /\ \A j \in 1..Len(list) - 1 : Front(list)[j] = list[j]
  <1>1. Len(list) \in Nat \ {0} /\ DOMAIN list = 1..Len(list)
    OBVIOUS
  <1>2. \A j \in 1..Len(list) - 1 : list[j] \in Candidate
    BY <1>1
  <1> QED
    BY <1>1, <1>2 DEF Front

\* A list without one of its members is in order.
LEMMA RemovedRanked ==
  ASSUME NEW list, Ranked(list), NEW place \in 1..Len(list)
  PROVE  LET rest == RemoveAt(list, place) IN
         /\ Ranked(rest) /\ Len(rest) = Len(list) - 1
         /\ \A i \in DOMAIN list : i # place => Lists(rest, list[i])
         /\ \A i \in DOMAIN rest : Lists(list, rest[i]) /\ rest[i].bssid # list[place].bssid
  <1> DEFINE rest == RemoveAt(list, place)
             Old(j) == IF j < place THEN j ELSE j + 1
  <1>1. /\ rest \in Seq(Candidate) /\ Len(rest) = Len(list) - 1
        /\ \A j \in 1..Len(list) - 1 : rest[j] = list[Old(j)]
    BY RemoveAtFacts DEF Ranked
  <1>2. list \in Seq(Candidate) /\ Len(list) \in Nat /\ DOMAIN list = 1..Len(list)
    BY DEF Ranked
  <1> HIDE DEF rest
  <1>3. DOMAIN rest = 1..Len(list) - 1
    BY <1>1
  <1>4. \A j \in 1..Len(list) - 1 : Old(j) \in 1..Len(list) /\ Old(j) # place
    BY <1>2
  <1>5. \A i, j \in 1..Len(list) - 1 : i < j => Old(i) < Old(j)
    BY <1>2
  <1>6. ASSUME NEW i \in DOMAIN list, i # place PROVE Lists(rest, list[i])
    <2> DEFINE j == IF i < place THEN i ELSE i - 1
    <2>1. j \in 1..Len(list) - 1 /\ Old(j) = i
      BY <1>2, <1>6
    <2> HIDE DEF Old, j
    <2> QED
      BY <1>1, <1>3, <2>1 DEF Lists
  <1> HIDE DEF Old
  <1>7. Ranked(rest)
    BY <1>1, <1>2, <1>3, <1>4, <1>5 DEF Ranked
  <1>8. ASSUME NEW i \in DOMAIN rest
        PROVE  Lists(list, rest[i]) /\ rest[i].bssid # list[place].bssid
    <2>1. rest[i] = list[Old(i)] /\ Old(i) \in 1..Len(list) /\ Old(i) # place
      BY <1>1, <1>3, <1>4
    <2>2. Old(i) < place \/ place < Old(i)
      BY <1>2, <2>1
    <2> QED
      BY <1>2, <2>1, <2>2 DEF Ranked, Lists
  <1> QED
    BY <1>1, <1>6, <1>7, <1>8 DEF rest

\* The place of a newcomer: behind those that outrank it, before the others.
LEMMA PlaceFacts ==
  ASSUME NEW list, Ranked(list), NEW c \in Candidate
  PROVE  LET ahead == SelectInSeq(list, LAMBDA d : ~Outranks(d, c))
             place == IF ahead = 0 THEN Len(list) + 1 ELSE ahead
         IN  /\ ahead \in 0..Len(list) /\ place \in 1..Len(list) + 1
             /\ \A i \in 1..Len(list) : IF i < place THEN Outranks(list[i], c)
                                                     ELSE Outranks(c, list[i])
  <1> DEFINE behind == {i \in 1..Len(list) : ~Outranks(list[i], c)}
             ahead == SelectInSeq(list, LAMBDA d : ~Outranks(d, c))
             place == IF ahead = 0 THEN Len(list) + 1 ELSE ahead
  <1>1. ahead = IF behind # {} THEN Min(behind) ELSE 0
    BY DEF SelectInSeq
  <1> HIDE DEF ahead
  <1>2. /\ list \in Seq(Candidate) /\ Len(list) \in Nat /\ DOMAIN list = 1..Len(list)
        /\ \A i \in 1..Len(list) : list[i] \in Candidate
    BY DEF Ranked
  <1>3. CASE behind = {}
    <2>1. ahead = 0
      BY <1>1, <1>3
    <2>2. \A i \in 1..Len(list) : Outranks(list[i], c)
      BY <1>3
    <2>3. /\ 0 \in 0..Len(list) /\ Len(list) + 1 \in 1..Len(list) + 1
          /\ \A i \in 1..Len(list) : i < Len(list) + 1
      BY <1>2
    <2> HIDE DEF behind
    <2> QED
      BY <2>1, <2>2, <2>3 DEF ahead
  <1>4. CASE behind # {}
    <2>1. behind \in SUBSET (0..Len(list))
      OBVIOUS
    <2> HIDE DEF behind
    <2>2. ahead \in behind /\ \A i \in behind : ahead <= i
      BY <1>1, <1>2, <1>4, <2>1, MinFacts
    <2> USE DEF behind
    <2>3. ahead \in 1..Len(list) /\ ~Outranks(list[ahead], c) /\ place = ahead
      BY <2>2
    <2>4. ASSUME NEW i \in 1..Len(list), i < ahead PROVE Outranks(list[i], c)
      BY <2>2, <2>3, <2>4
    <2>5. ASSUME NEW i \in 1..Len(list), ~(i < ahead) PROVE Outranks(c, list[i])
      <3>1. Outranks(c, list[ahead])
        BY <1>2, <2>3, OutranksOrder
      <3>2. CASE i = ahead
        BY <3>1, <3>2
      <3>3. CASE i > ahead
        <4>1. Outranks(list[ahead], list[i])
          BY <1>2, <2>3, <3>3 DEF Ranked
        <4> QED
          BY <1>2, <2>3, <3>1, <4>1, OutranksOrder
      <3> QED
        BY <2>3, <2>5, <3>2, <3>3
    <2>6. ahead \in 0..Len(list) /\ place \in 1..Len(list) + 1
      BY <1>2, <2>3
    <2> HIDE DEF behind
    <2> QED
      BY <2>3, <2>4, <2>5, <2>6 DEF ahead
  <1> HIDE DEF behind
  <1> QED
    BY <1>3, <1>4

\* A list with a newcomer at its place, before the capacity is looked at.
Longer(list, c) ==
  LET ahead == SelectInSeq(list, LAMBDA d : ~Outranks(d, c))
  IN  IF ahead = 0 THEN Append(list, c) ELSE InsertAt(list, ahead, c)

LEMMA LongerFacts ==
  ASSUME NEW list, Ranked(list), NEW c \in Candidate,
         \A i \in DOMAIN list : list[i].bssid # c.bssid
  PROVE  \E place \in 1..Len(list) + 1 :
           LET all == Longer(list, c) IN
           /\ Ranked(all) /\ Len(all) = Len(list) + 1 /\ all[place] = c
           /\ \A j \in 1..Len(list) : all[IF j < place THEN j ELSE j + 1] = list[j]
           /\ \A j \in 1..Len(list) + 1 :
                j # place => all[j] = list[IF j < place THEN j ELSE j - 1]
           /\ \A i \in 1..Len(list) : ~(i < place) => Outranks(c, list[i])
  <1> DEFINE ahead == SelectInSeq(list, LAMBDA d : ~Outranks(d, c))
             place == IF ahead = 0 THEN Len(list) + 1 ELSE ahead
             all == Longer(list, c)
             Old(j) == IF j < place THEN j ELSE j - 1
  <1>1. /\ list \in Seq(Candidate) /\ Len(list) \in Nat /\ DOMAIN list = 1..Len(list)
        /\ \A i \in 1..Len(list) : list[i] \in Candidate
    BY DEF Ranked
  <1>2. /\ ahead \in 0..Len(list) /\ place \in 1..Len(list) + 1
        /\ \A i \in 1..Len(list) : IF i < place THEN Outranks(list[i], c)
                                                ELSE Outranks(c, list[i])
    BY PlaceFacts
  <1>3. all = IF ahead = 0 THEN Append(list, c) ELSE InsertAt(list, ahead, c)
    BY DEF Longer
  <1> HIDE DEF ahead, all
  <1>4. /\ all \in Seq(Candidate) /\ Len(all) = Len(list) + 1 /\ all[place] = c
        /\ \A j \in 1..Len(list) : all[IF j < place THEN j ELSE j + 1] = list[j]
        /\ \A j \in 1..Len(list) + 1 : j # place => all[j] = list[Old(j)]
    <2>1. CASE ahead = 0
      BY <1>1, <1>2, <1>3, <2>1
    <2>2. CASE ahead # 0
      <3>1. ahead \in 1..Len(list) /\ place = ahead /\ all = InsertAt(list, ahead, c)
        BY <1>1, <1>2, <1>3, <2>2
      <3> DEFINE more == InsertAt(list, ahead, c)
      <3>2. /\ more \in Seq(Candidate) /\ Len(more) = Len(list) + 1 /\ more[ahead] = c
            /\ \A j \in 1..Len(list) : more[IF j < ahead THEN j ELSE j + 1] = list[j]
            /\ \A j \in 1..Len(list) + 1 :
                 j # ahead => more[j] = list[IF j < ahead THEN j ELSE j - 1]
        BY <1>1, <3>1, InsertAtFacts
      <3>3. all = more
        BY <3>1
      <3> HIDE DEF more, place
      <3> QED
        BY <3>1, <3>2, <3>3
    <2> QED
      BY <2>1, <2>2
  <1> HIDE DEF place
  <1>5. DOMAIN all = 1..Len(list) + 1
    BY <1>1, <1>4
  <1>6. ASSUME NEW i \in DOMAIN all, NEW j \in DOMAIN all, i < j
        PROVE  Outranks(all[i], all[j]) /\ all[i].bssid # all[j].bssid
    <2>1. CASE i # place /\ j # place
      <3>1. Old(i) \in 1..Len(list) /\ Old(j) \in 1..Len(list) /\ Old(i) < Old(j)
        BY <1>1, <1>2, <1>5, <1>6, <2>1
      <3>2. all[i] = list[Old(i)] /\ all[j] = list[Old(j)]
        BY <1>4, <1>5, <2>1
      <3> HIDE DEF Old
      <3> QED
        BY <1>1, <3>1, <3>2 DEF Ranked
    <2>2. CASE i = place
      <3>1. j # place /\ Old(j) \in 1..Len(list) /\ ~(Old(j) < place)
        BY <1>1, <1>2, <1>5, <1>6, <2>2
      <3>2. all[i] = c /\ all[j] = list[Old(j)]
        BY <1>4, <1>5, <2>2, <3>1
      <3> HIDE DEF Old
      <3> QED
        BY <1>1, <1>2, <3>1, <3>2
    <2>3. CASE j = place
      <3>1. i # place /\ Old(i) \in 1..Len(list) /\ Old(i) < place
        BY <1>1, <1>2, <1>5, <1>6, <2>3
      <3>2. all[j] = c /\ all[i] = list[Old(i)]
        BY <1>4, <1>5, <2>3, <3>1
      <3> HIDE DEF Old
      <3> QED
        BY <1>1, <1>2, <3>1, <3>2
    <2> QED
      BY <2>1, <2>2, <2>3
  <1>7. Ranked(all)
    BY <1>4, <1>6 DEF Ranked
  <1> QED
    BY <1>2, <1>4, <1>7 DEF all

\* Inserted: in order, nothing but the list and the newcomer, and of those only one that all
\* others outrank may be missing, of a list that is full.
LEMMA InsertedFacts ==
  ASSUME NEW list, Ranked(list), Len(list) <= RankCapacity, NEW c \in Candidate,
         \A i \in DOMAIN list : list[i].bssid # c.bssid
  PROVE  LET r == Inserted(list, c) IN
         /\ Ranked(r)
         /\ Len(r) = IF Len(list) < RankCapacity THEN Len(list) + 1 ELSE RankCapacity
         /\ \A i \in DOMAIN r : r[i] = c \/ Lists(list, r[i])
         /\ \A d : d = c \/ Lists(list, d) =>
              Lists(r, d) \/ (/\ Len(list) = RankCapacity
                              /\ \A i \in DOMAIN r : Outranks(r[i], d))
         /\ Len(list) = RankCapacity /\ Lists(r, c) =>
              \E j \in DOMAIN list : Outranks(c, list[j])
  <1> DEFINE all == Longer(list, c)
             r == Inserted(list, c)
             n == Len(list)
  <1>1. PICK place \in 1..n + 1 :
          /\ Ranked(all) /\ Len(all) = n + 1 /\ all[place] = c
          /\ \A j \in 1..n : all[IF j < place THEN j ELSE j + 1] = list[j]
          /\ \A j \in 1..n + 1 : j # place => all[j] = list[IF j < place THEN j ELSE j - 1]
          /\ \A i \in 1..n : ~(i < place) => Outranks(c, list[i])
    BY LongerFacts
  <1>2. r = IF Len(all) > RankCapacity THEN Front(all) ELSE all
    BY DEF Inserted, Longer
  <1>3. /\ list \in Seq(Candidate) /\ n \in Nat /\ DOMAIN list = 1..n
        /\ all \in Seq(Candidate) /\ DOMAIN all = 1..n + 1
    BY <1>1 DEF Ranked
  <1> HIDE DEF all, r
  <1>4. \A j \in 1..n + 1 : all[j] = c \/ Lists(list, all[j])
    <2> SUFFICES ASSUME NEW j \in 1..n + 1, j # place PROVE Lists(list, all[j])
      BY <1>1
    <2>1. (IF j < place THEN j ELSE j - 1) \in 1..n
      BY <1>1, <1>3
    <2> QED
      BY <1>1, <1>3, <2>1 DEF Lists
  <1>5. \A d : d = c \/ Lists(list, d) => \E j \in 1..n + 1 : all[j] = d
    <2>1. \A j \in 1..n : (IF j < place THEN j ELSE j + 1) \in 1..n + 1
      BY <1>1, <1>3
    <2> QED
      BY <1>1, <1>3, <2>1 DEF Lists
  <1>6. RankCapacity \in Nat \ {0}
    BY Numbers
  <1>7. CASE n < RankCapacity
    <2>1. r = all /\ Len(r) = n + 1 /\ DOMAIN r = 1..n + 1
      BY <1>1, <1>2, <1>3, <1>6, <1>7
    <2>2. \A d : d = c \/ Lists(list, d) => Lists(r, d)
      BY <1>5, <2>1 DEF Lists
    <2>3. \A i \in DOMAIN r : r[i] = c \/ Lists(list, r[i])
      BY <1>4, <2>1
    <2> HIDE DEF n
    <2>4. n # RankCapacity
      BY <1>3, <1>6, <1>7
    <2> QED
      BY <1>1, <1>7, <2>1, <2>2, <2>3, <2>4 DEF r, n
  <1>8. CASE ~(n < RankCapacity)
    <2>1. n = RankCapacity /\ n + 1 > RankCapacity /\ n + 1 # 0 /\ (n + 1) - 1 = n
      <3> HIDE DEF n
      <3>1. n \in Nat /\ n <= RankCapacity
        BY <1>3 DEF n
      <3> QED
        BY <1>6, <1>8, <3>1
    <2> HIDE DEF n
    <2>2. Len(all) > RankCapacity /\ all # <<>>
      BY <1>1, <2>1
    <2>3. /\ r \in Seq(Candidate) /\ Len(r) = n
          /\ \A j \in 1..n : r[j] = all[j]
      <3>1. r = Front(all)
        BY <1>2, <2>2
      <3>2. /\ Front(all) \in Seq(Candidate) /\ Len(Front(all)) = Len(all) - 1
            /\ \A j \in 1..Len(all) - 1 : Front(all)[j] = all[j]
        BY <1>3, <2>2, FrontFacts
      <3>3. Len(all) - 1 = n
        BY <1>1, <2>1
      <3> QED
        BY <3>1, <3>2, <3>3
    <2>4. DOMAIN r = 1..n /\ 1..n \subseteq 1..n + 1
      BY <1>3, <2>3
    <2>5. Ranked(r)
      BY <1>1, <1>3, <2>3, <2>4 DEF Ranked
    <2>6. \A i \in DOMAIN r : r[i] = c \/ Lists(list, r[i])
      BY <1>4, <2>3, <2>4
    <2>7. \A i \in DOMAIN r : Outranks(r[i], all[n + 1])
      <3>1. \A i \in 1..n : i < n + 1 /\ i \in 1..n + 1 /\ n + 1 \in 1..n + 1
        BY <1>3
      <3> QED
        BY <1>1, <1>3, <2>3, <2>4, <3>1 DEF Ranked
    <2>8. ASSUME NEW d, d = c \/ Lists(list, d)
          PROVE  Lists(r, d) \/ \A i \in DOMAIN r : Outranks(r[i], d)
      <3>1. PICK j \in 1..n + 1 : all[j] = d
        BY <1>5, <2>8
      <3>2. CASE j = n + 1
        BY <2>7, <3>1, <3>2
      <3>3. CASE j \in 1..n
        BY <2>3, <2>4, <3>1, <3>3 DEF Lists
      <3> QED
        BY <1>3, <3>2, <3>3
    <2>9. ASSUME Lists(r, c) PROVE \E j \in DOMAIN list : Outranks(c, list[j])
      <3>1. PICK i \in 1..n : all[i] = c
        BY <2>3, <2>4, <2>9 DEF Lists
      <3>2. CASE i = place
        <4>1. ~(i < place)
          BY <1>3, <3>2
        <4> QED
          BY <1>1, <1>3, <4>1
      <3>3. CASE i # place
        <4>1. (IF i < place THEN i ELSE i - 1) \in 1..n
          BY <1>1, <1>3, <3>3
        <4>2. all[i] = list[IF i < place THEN i ELSE i - 1]
          BY <1>1, <2>4, <3>3
        <4> QED
          BY <1>3, <3>1, <4>1, <4>2
      <3> QED
        BY <3>2, <3>3
    <2> HIDE DEF n
    <2> QED
      BY <1>8, <2>1, <2>3, <2>5, <2>6, <2>8, <2>9 DEF r, n
  <1> QED
    BY <1>7, <1>8

\* The entry of an access point, and 0 for one that is not listed.
LEMMA SameFacts ==
  ASSUME NEW list, Ranked(list), NEW b
  PROVE  LET same == SelectInSeq(list, LAMBDA d : d.bssid = b) IN
         /\ same = 0 => \A i \in DOMAIN list : list[i].bssid # b
         /\ same # 0 => same \in 1..Len(list) /\ list[same].bssid = b
  <1> DEFINE those == {i \in 1..Len(list) : list[i].bssid = b}
             same == SelectInSeq(list, LAMBDA d : d.bssid = b)
  <1>1. same = IF those # {} THEN Min(those) ELSE 0
    BY DEF SelectInSeq
  <1>2. Len(list) \in Nat /\ DOMAIN list = 1..Len(list)
    BY DEF Ranked
  <1>3. those \in SUBSET (0..Len(list)) /\ ~(0 \in those)
    BY <1>2
  <1>4. ASSUME those = {} PROVE \A i \in DOMAIN list : list[i].bssid # b
    BY <1>2, <1>4
  <1> HIDE DEF same
  <1>5. ASSUME same \in those PROVE same \in 1..Len(list) /\ list[same].bssid = b
    BY <1>5
  <1> HIDE DEF those
  <1>6. those # {} => same \in those
    BY <1>1, <1>2, <1>3, MinFacts
  <1> QED
    BY <1>1, <1>3, <1>4, <1>5, <1>6 DEF same

----------------------------------------------------------------------------
(* The best of what was heard                                              *)

\* As much as a reader of the list could ask for: its members at their best reading, and
\* everyone else heard behind every one of them, with no room left.
Unlisted(list, b) == \A i \in DOMAIN list : list[i].bssid # b

Reading(b, r) == [bssid |-> b, rssi |-> r]

BestOf(list, top) ==
  /\ Ranked(list) /\ Len(list) <= RankCapacity
  /\ top \in [Bssid -> Rssi \union {NotHeard}]
  /\ \A i \in DOMAIN list : list[i].rssi = top[list[i].bssid]
  /\ \A b \in Bssid :
       top[b] # NotHeard /\ Unlisted(list, b)
       => /\ Len(list) = RankCapacity
          /\ \A i \in DOMAIN list : Outranks(list[i], Reading(b, top[b]))

LEMMA Members ==
  ASSUME NEW list, Ranked(list)
  PROVE  /\ \A i \in DOMAIN list : list[i] \in Candidate
         /\ \A i \in DOMAIN list : list[i].bssid \in Bssid /\ list[i].rssi \in Rssi
         /\ \A i \in DOMAIN list : list[i] = Reading(list[i].bssid, list[i].rssi)
  <1>1. \A i \in DOMAIN list : list[i] \in Candidate
    BY DEF Ranked
  <1>2. \A d \in Candidate : d.bssid \in Bssid /\ d.rssi \in Rssi
    BY Numbers
  <1>3. \A d \in Candidate : d = Reading(d.bssid, d.rssi)
    BY DEF Candidate, Reading
  <1> QED
    BY <1>1, <1>2, <1>3

Better(top, c) ==
  [top EXCEPT ![c.bssid] = IF @ = NotHeard \/ c.rssi > @ THEN c.rssi ELSE @]

LEMMA BetterFacts ==
  ASSUME NEW top \in [Bssid -> Rssi \union {NotHeard}], NEW c \in Candidate
  PROVE  /\ Better(top, c) \in [Bssid -> Rssi \union {NotHeard}]
         /\ \A b \in Bssid \ {c.bssid} : Better(top, c)[b] = top[b]
         /\ Better(top, c)[c.bssid] = IF top[c.bssid] = NotHeard \/ c.rssi > top[c.bssid]
                                       THEN c.rssi ELSE top[c.bssid]
         /\ Better(top, c)[c.bssid] \in Rssi
  <1>1. c.bssid \in Bssid /\ c.rssi \in Rssi
    BY Numbers
  <1> QED
    BY <1>1 DEF Better

\* A reading of an access point the list does not hold.
LEMMA NewcomerKeeps ==
  ASSUME NEW list, NEW top, BestOf(list, top), NEW c \in Candidate,
         Unlisted(list, c.bssid)
  PROVE  BestOf(Inserted(list, c), Better(top, c))
  <1> DEFINE r == Inserted(list, c)
             more == Better(top, c)
             b == c.bssid
             n == Len(list)
  <1>1. /\ Ranked(list) /\ n <= RankCapacity
        /\ top \in [Bssid -> Rssi \union {NotHeard}]
        /\ \A i \in DOMAIN list : list[i].rssi = top[list[i].bssid]
        /\ \A a \in Bssid :
             top[a] # NotHeard /\ Unlisted(list, a)
             => n = RankCapacity
                /\ \A i \in DOMAIN list : Outranks(list[i], Reading(a, top[a]))
    BY DEF BestOf
  <1>2. /\ b \in Bssid /\ c.rssi \in Rssi /\ c = Reading(b, c.rssi)
        /\ \A a \in Bssid, s \in Rssi : Reading(a, s) \in Candidate
    BY Numbers DEF Candidate, Reading
  <1>3. /\ \A i \in DOMAIN list : list[i] \in Candidate
        /\ \A i \in DOMAIN list : list[i].bssid \in Bssid /\ list[i].rssi \in Rssi
        /\ \A i \in DOMAIN list : list[i] = Reading(list[i].bssid, list[i].rssi)
    BY <1>1, Members
  <1>4. /\ more \in [Bssid -> Rssi \union {NotHeard}]
        /\ \A a \in Bssid \ {b} : more[a] = top[a]
        /\ more[b] = IF top[b] = NotHeard \/ c.rssi > top[b] THEN c.rssi ELSE top[b]
        /\ more[b] \in Rssi
    BY <1>1, BetterFacts
  <1>5. /\ Ranked(r) /\ Len(r) = IF n < RankCapacity THEN n + 1 ELSE RankCapacity
        /\ \A i \in DOMAIN r : r[i] = c \/ Lists(list, r[i])
        /\ \A d : d = c \/ Lists(list, d) =>
             Lists(r, d) \/ (n = RankCapacity /\ \A i \in DOMAIN r : Outranks(r[i], d))
        /\ n = RankCapacity /\ Lists(r, c) => \E j \in DOMAIN list : Outranks(c, list[j])
    BY <1>1, InsertedFacts DEF Unlisted
  <1>6. n \in Nat /\ RankCapacity \in Nat \ {0} /\ NotHeard \notin Rssi
    BY <1>1, Numbers DEF Ranked
  <1> HIDE DEF r, more, n
  <1>7. Len(r) <= RankCapacity /\ (n = RankCapacity => Len(r) = RankCapacity)
    BY <1>1, <1>5, <1>6
  <1>8. \A i \in DOMAIN r : r[i] \in Candidate
    BY <1>3, <1>5 DEF Lists
  <1>9. ASSUME Lists(r, c) PROVE more[b] = c.rssi
    <2>1. CASE top[b] = NotHeard
      BY <1>4, <2>1
    <2>2. CASE top[b] # NotHeard
      <3> DEFINE old == Reading(b, top[b])
      <3>1. top[b] \in Rssi /\ old \in Candidate /\ old.rssi = top[b]
        BY <1>1, <1>2, <2>2 DEF Reading
      <3>2. PICK j \in DOMAIN list : Outranks(c, list[j]) /\ Outranks(list[j], old)
        BY <1>1, <1>2, <1>5, <1>9, <2>2
      <3> HIDE DEF old
      <3>3. Outranks(c, old)
        BY <1>3, <3>1, <3>2, OutranksOrder
      <3>4. c.rssi >= old.rssi
        <4>1. c.rssi \in Int /\ old.rssi \in Int
          BY <1>2, <3>1, Numbers
        <4> QED
          BY <3>3, <4>1 DEF Outranks
      <3>5. c.rssi \in Int /\ top[b] \in Int
        BY <1>2, <3>1, Numbers
      <3> QED
        BY <1>4, <3>1, <3>4, <3>5
    <2> QED
      BY <2>1, <2>2
  <1>10. ASSUME ~Lists(r, c)
         PROVE  n = RankCapacity /\ \A i \in DOMAIN r : Outranks(r[i], Reading(b, more[b]))
    <2>1. n = RankCapacity /\ \A i \in DOMAIN r : Outranks(r[i], c)
      BY <1>5, <1>10
    <2>2. \A i \in DOMAIN r : Lists(list, r[i])
      BY <1>5, <1>10 DEF Lists
    <2>3. CASE more[b] = c.rssi
      BY <1>2, <2>1, <2>3
    <2>4. CASE more[b] # c.rssi
      <3>1. top[b] # NotHeard /\ more[b] = top[b]
        BY <1>4, <2>4
      <3>2. \A i \in DOMAIN list : Outranks(list[i], Reading(b, top[b]))
        BY <1>1, <1>2, <3>1
      <3> QED
        BY <2>1, <2>2, <3>1, <3>2 DEF Lists
    <2> QED
      BY <2>3, <2>4
  <1>11. ASSUME NEW i \in DOMAIN r PROVE r[i].rssi = more[r[i].bssid]
    <2>1. CASE r[i] = c
      BY <1>9, <1>11, <2>1 DEF Lists
    <2>2. CASE Lists(list, r[i])
      BY <1>1, <1>3, <1>4, <2>2 DEF Lists, Unlisted
    <2> QED
      BY <1>5, <2>1, <2>2
  <1>12. ASSUME NEW a \in Bssid, more[a] # NotHeard, Unlisted(r, a)
         PROVE  n = RankCapacity /\ \A i \in DOMAIN r : Outranks(r[i], Reading(a, more[a]))
    <2>1. CASE a = b
      BY <1>10, <1>12, <2>1 DEF Lists, Unlisted
    <2>2. CASE a # b /\ ~Unlisted(list, a)
      <3>1. PICK j \in DOMAIN list : list[j].bssid = a
        BY <2>2 DEF Unlisted
      <3>2. list[j] = Reading(a, more[a])
        BY <1>1, <1>3, <1>4, <2>2, <3>1
      <3>3. ~Lists(r, list[j])
        BY <1>12, <3>1 DEF Lists, Unlisted
      <3>4. Lists(list, list[j])
        BY DEF Lists
      <3> QED
        BY <1>5, <3>2, <3>3, <3>4
    <2>3. CASE a # b /\ Unlisted(list, a)
      <3> DEFINE old == Reading(a, top[a])
      <3>1. more[a] = top[a] /\ top[a] # NotHeard
        BY <1>4, <1>12, <2>3
      <3>2. n = RankCapacity /\ \A i \in DOMAIN list : Outranks(list[i], old)
        BY <1>1, <2>3, <3>1
      <3>3. old \in Candidate
        BY <1>1, <1>2, <3>1
      <3> HIDE DEF old
      <3>4. ASSUME NEW i \in DOMAIN r PROVE Outranks(r[i], old)
        <4>1. CASE r[i] = c
          <5>1. PICK j \in DOMAIN list : Outranks(c, list[j])
            BY <1>5, <3>2, <4>1 DEF Lists
          <5> QED
            BY <1>3, <3>2, <3>3, <4>1, <5>1, OutranksOrder
        <4>2. CASE Lists(list, r[i])
          BY <3>2, <4>2 DEF Lists
        <4> QED
          BY <1>5, <4>1, <4>2
      <3> QED
        BY <3>1, <3>2, <3>4 DEF old
    <2> QED
      BY <2>1, <2>2, <2>3
  <1> QED
    BY <1>4, <1>5, <1>7, <1>11, <1>12 DEF BestOf, r, more

\* A better reading of one that the list holds already.
LEMMA EntryRises ==
  ASSUME NEW list, NEW top, BestOf(list, top), NEW c \in Candidate,
         NEW same \in 1..Len(list), list[same].bssid = c.bssid,
         c.rssi > list[same].rssi
  PROVE  BestOf(Inserted(RemoveAt(list, same), c), Better(top, c))
  <1> DEFINE rest == RemoveAt(list, same)
             r == Inserted(rest, c)
             more == Better(top, c)
             b == c.bssid
             n == Len(list)
  <1>1. /\ Ranked(list) /\ n <= RankCapacity
        /\ top \in [Bssid -> Rssi \union {NotHeard}]
        /\ \A i \in DOMAIN list : list[i].rssi = top[list[i].bssid]
        /\ \A a \in Bssid :
             top[a] # NotHeard /\ Unlisted(list, a)
             => n = RankCapacity
                /\ \A i \in DOMAIN list : Outranks(list[i], Reading(a, top[a]))
    BY DEF BestOf
  <1>2. /\ b \in Bssid /\ c.rssi \in Rssi /\ c = Reading(b, c.rssi)
        /\ \A a \in Bssid, s \in Rssi : Reading(a, s) \in Candidate
    BY Numbers DEF Candidate, Reading
  <1>3. /\ \A i \in DOMAIN list : list[i] \in Candidate
        /\ \A i \in DOMAIN list : list[i].bssid \in Bssid /\ list[i].rssi \in Rssi
        /\ \A i \in DOMAIN list : list[i] = Reading(list[i].bssid, list[i].rssi)
    BY <1>1, Members
  <1>4. /\ more \in [Bssid -> Rssi \union {NotHeard}]
        /\ \A a \in Bssid \ {b} : more[a] = top[a]
        /\ more[b] = IF top[b] = NotHeard \/ c.rssi > top[b] THEN c.rssi ELSE top[b]
    BY <1>1, BetterFacts
  <1>5. n \in Nat /\ RankCapacity \in Nat \ {0} /\ DOMAIN list = 1..n
    BY <1>1, Numbers DEF Ranked
  <1>6. /\ Ranked(rest) /\ Len(rest) = n - 1
        /\ \A i \in DOMAIN list : i # same => Lists(rest, list[i])
        /\ \A i \in DOMAIN rest : Lists(list, rest[i]) /\ rest[i].bssid # b
    BY <1>1, RemovedRanked
  <1>7. same \in DOMAIN list /\ same \in 1..n
    BY <1>5
  <1>8. /\ Ranked(r)
        /\ Len(r) = IF Len(rest) < RankCapacity THEN Len(rest) + 1 ELSE RankCapacity
        /\ \A i \in DOMAIN r : r[i] = c \/ Lists(rest, r[i])
        /\ \A d : d = c \/ Lists(rest, d) =>
             \/ Lists(r, d)
             \/ Len(rest) = RankCapacity /\ \A i \in DOMAIN r : Outranks(r[i], d)
    <2>1. Len(rest) <= RankCapacity
      <3> HIDE DEF n, rest
      <3> QED
        BY <1>1, <1>5, <1>6
    <2> QED
      BY <1>6, <2>1, InsertedFacts
  <1> HIDE DEF rest, r, more, n
  <1>9. Len(rest) < RankCapacity /\ Len(rest) # RankCapacity /\ Len(rest) + 1 = n
    BY <1>1, <1>5, <1>6
  <1>10. /\ Len(r) = n
         /\ \A d : d = c \/ Lists(rest, d) => Lists(r, d)
    BY <1>8, <1>9
  <1>11. more[b] = c.rssi
    <2>1. top[b] = list[same].rssi
      BY <1>1, <1>7
    <2> QED
      BY <1>4, <2>1
  <1>12. \A i \in DOMAIN r : r[i] = c \/ (Lists(list, r[i]) /\ r[i].bssid # b)
    BY <1>6, <1>8 DEF Lists
  <1>13. ASSUME NEW i \in DOMAIN r PROVE r[i].rssi = more[r[i].bssid]
    BY <1>1, <1>3, <1>4, <1>11, <1>12 DEF Lists
  <1>14. ASSUME NEW a \in Bssid, more[a] # NotHeard, Unlisted(r, a)
         PROVE  n = RankCapacity /\ \A i \in DOMAIN r : Outranks(r[i], Reading(a, more[a]))
    <2> DEFINE old == Reading(a, top[a])
    <2>1. a # b
      BY <1>10, <1>14 DEF Lists, Unlisted
    <2>2. Unlisted(list, a)
      <3> SUFFICES ASSUME NEW i \in DOMAIN list, list[i].bssid = a PROVE FALSE
        BY DEF Unlisted
      <3>1. i # same
        BY <2>1
      <3>2. Lists(r, list[i])
        BY <1>6, <1>10, <3>1
      <3> QED
        BY <1>14, <3>2 DEF Lists, Unlisted
    <2>3. more[a] = top[a] /\ top[a] # NotHeard
      BY <1>4, <1>14, <2>1
    <2>4. n = RankCapacity /\ \A i \in DOMAIN list : Outranks(list[i], old)
      BY <1>1, <2>2, <2>3
    <2>5. old \in Candidate
      BY <1>1, <1>2, <2>3
    <2> HIDE DEF old
    <2>6. Outranks(c, old)
      <3>1. Outranks(c, list[same])
        BY DEF Outranks
      <3>2. Outranks(list[same], old)
        BY <1>7, <2>4
      <3> QED
        BY <1>3, <1>7, <2>5, <3>1, <3>2, OutranksOrder
    <2>7. \A i \in DOMAIN r : Outranks(r[i], old)
      BY <1>12, <2>4, <2>6 DEF Lists
    <2> QED
      BY <2>3, <2>4, <2>7 DEF old
  <1> QED
    BY <1>1, <1>4, <1>8, <1>10, <1>13, <1>14 DEF BestOf, r, rest, more

\* A report, whichever it is.
LEMMA ConsiderKeeps ==
  ASSUME NEW list, NEW top, BestOf(list, top), NEW c \in Candidate
  PROVE  BestOf(consider(list, c), Better(top, c))
  <1> DEFINE same == SelectInSeq(list, LAMBDA d : d.bssid = c.bssid)
  <1>1. consider(list, c) = IF same = 0 THEN Inserted(list, c)
                            ELSE IF c.rssi <= list[same].rssi THEN list
                            ELSE Inserted(RemoveAt(list, same), c)
    BY DEF consider
  <1>2. /\ same = 0 => Unlisted(list, c.bssid)
        /\ same # 0 => same \in 1..Len(list) /\ list[same].bssid = c.bssid
    BY SameFacts DEF BestOf, Unlisted
  <1> HIDE DEF same
  <1>3. CASE same = 0
    BY <1>1, <1>2, <1>3, NewcomerKeeps
  <1>4. CASE same # 0 /\ c.rssi <= list[same].rssi
    <2>1. /\ top \in [Bssid -> Rssi \union {NotHeard}] /\ c.bssid \in Bssid
          /\ c.rssi \in Rssi /\ Ranked(list)
      BY Numbers DEF BestOf
    <2>2. same \in DOMAIN list /\ list[same].bssid = c.bssid
      BY <1>2, <1>4, <2>1 DEF Ranked
    <2>3. list[same].rssi \in Rssi /\ top[c.bssid] = list[same].rssi
      BY <2>1, <2>2, Members DEF BestOf
    <2>4. top[c.bssid] # NotHeard /\ ~(c.rssi > top[c.bssid])
      BY <1>4, <2>1, <2>3, Numbers
    <2>5. Better(top, c) = top
      BY <2>1, <2>4 DEF Better
    <2> QED
      BY <1>1, <1>4, <2>5
  <1>5. CASE same # 0 /\ ~(c.rssi <= list[same].rssi)
    <2>1. Ranked(list) /\ same \in 1..Len(list) /\ same \in DOMAIN list
      BY <1>2, <1>5 DEF BestOf, Ranked
    <2>2. c.rssi \in Int /\ list[same].rssi \in Int
      BY <2>1, Members, Numbers
    <2>3. c.rssi > list[same].rssi
      BY <1>5, <2>2
    <2> QED
      BY <1>1, <1>2, <1>5, <2>1, <2>3, EntryRises
  <1> QED
    BY <1>3, <1>4, <1>5

\* A report adds nobody but its own access point.
LEMMA ConsiderAdds ==
  ASSUME NEW list, Ranked(list), Len(list) <= RankCapacity, NEW c \in Candidate
  PROVE  \A i \in DOMAIN consider(list, c) :
           consider(list, c)[i] = c \/ Lists(list, consider(list, c)[i])
  <1> DEFINE same == SelectInSeq(list, LAMBDA d : d.bssid = c.bssid)
             rest == RemoveAt(list, same)
  <1>1. consider(list, c) = IF same = 0 THEN Inserted(list, c)
                            ELSE IF c.rssi <= list[same].rssi THEN list
                            ELSE Inserted(rest, c)
    BY DEF consider
  <1>2. /\ same = 0 => \A i \in DOMAIN list : list[i].bssid # c.bssid
        /\ same # 0 => same \in 1..Len(list) /\ list[same].bssid = c.bssid
    BY SameFacts
  <1> HIDE DEF same
  <1>3. CASE same = 0
    <2>1. \A i \in DOMAIN Inserted(list, c) :
            Inserted(list, c)[i] = c \/ Lists(list, Inserted(list, c)[i])
      BY <1>2, <1>3, InsertedFacts
    <2> QED
      BY <1>1, <1>3, <2>1
  <1>4. CASE same # 0
    <2>1. /\ Ranked(rest) /\ Len(rest) = Len(list) - 1
          /\ \A i \in DOMAIN rest : Lists(list, rest[i]) /\ rest[i].bssid # c.bssid
      BY <1>2, <1>4, RemovedRanked
    <2>2. Len(list) \in Nat /\ RankCapacity \in Nat
      BY Numbers DEF Ranked
    <2> HIDE DEF rest
    <2>3. Len(rest) <= RankCapacity
      BY <2>1, <2>2
    <2>4. \A i \in DOMAIN Inserted(rest, c) :
            Inserted(rest, c)[i] = c \/ Lists(rest, Inserted(rest, c)[i])
      BY <2>1, <2>3, InsertedFacts
    <2>5. \A d : Lists(rest, d) => Lists(list, d)
      BY <2>1 DEF Lists
    <2>6. \A i \in DOMAIN list : Lists(list, list[i])
      BY DEF Lists
    <2> QED
      BY <1>1, <1>4, <2>4, <2>5, <2>6
  <1> QED
    BY <1>3, <1>4

----------------------------------------------------------------------------
(* The list of a Wi-Fi window                                              *)

Untried == \A i \in DOMAIN candidates : i > next => candidates[i].bssid \notin failed

RankInv ==
  /\ BestOf(candidates, heard)
  /\ next \in Nat /\ (scanning => next = 0)
  /\ Untried

LEMMA NothingIsBest == BestOf(<<>>, Nothing)
  <1>1. /\ <<>> \in Seq(Candidate) /\ Len(<<>>) = 0 /\ DOMAIN <<>> = {}
    OBVIOUS
  <1>2. /\ Nothing \in [Bssid -> Rssi \union {NotHeard}]
        /\ \A b \in Bssid : Nothing[b] = NotHeard
    BY DEF Nothing
  <1>3. 0 <= RankCapacity
    BY Numbers
  <1> QED
    BY <1>1, <1>2, <1>3 DEF BestOf, Ranked

LEMMA ReportKeeps ==
  ASSUME RankInv, NEW b \in Bssid, NEW r \in Rssi, NEW usable \in BOOLEAN,
         ScanReports(b, r, usable)
  PROVE  RankInv'
  <1> DEFINE c == [bssid |-> b, rssi |-> r]
  <1>1. /\ scanning /\ next = 0 /\ UNCHANGED <<next, failed, scanning>>
        /\ BestOf(candidates, heard) /\ Untried
        /\ Ranked(candidates) /\ Len(candidates) <= RankCapacity
    BY DEF RankInv, ScanReports, BestOf
  <1>2. CASE usable /\ b \notin failed
    <2>1. /\ candidates' = consider(candidates, c)
          /\ heard' = Better(heard, c)
      BY <1>2 DEF ScanReports, Better
    <2>2. c \in Candidate /\ c.bssid = b
      BY DEF Candidate
    <2> HIDE DEF c
    <2>3. BestOf(candidates', heard')
      BY <1>1, <2>1, <2>2, ConsiderKeeps
    <2>4. \A i \in DOMAIN candidates' : candidates'[i] = c \/ Lists(candidates, candidates'[i])
      BY <1>1, <2>1, <2>2, ConsiderAdds
    <2>5. \A i \in DOMAIN candidates : candidates[i].bssid \notin failed
      <3>1. \A i \in DOMAIN candidates : i > 0
        BY <1>1 DEF Ranked
      <3> QED
        BY <1>1, <3>1 DEF Untried
    <2>6. Untried'
      BY <1>1, <1>2, <2>2, <2>4, <2>5 DEF Untried, Lists
    <2> QED
      BY <1>1, <2>3, <2>6 DEF RankInv
  <1>3. CASE ~(usable /\ b \notin failed)
    <2>1. UNCHANGED <<candidates, heard>>
      BY <1>3 DEF ScanReports
    <2> QED
      BY <1>1, <2>1 DEF RankInv, Untried, BestOf, Ranked, Unlisted, Outranks
  <1> QED
    BY <1>2, <1>3

LEMMA FailureKeeps ==
  ASSUME RankInv, CandidateFails
  PROVE  RankInv'
  <1>1. /\ ~scanning /\ next < Len(candidates) /\ next \in Nat /\ next' = next + 1
        /\ UNCHANGED <<candidates, scanning, heard>>
        /\ BestOf(candidates, heard) /\ Untried /\ Ranked(candidates)
        /\ failed' \subseteq failed \union {candidates[next'].bssid}
    BY DEF RankInv, CandidateFails, BestOf
  <1>2. next' \in Nat /\ next' \in DOMAIN candidates
    BY <1>1 DEF Ranked
  <1>3. Untried'
    <2> SUFFICES ASSUME NEW i \in DOMAIN candidates, i > next'
                 PROVE  candidates[i].bssid \notin failed'
      BY <1>1 DEF Untried
    <2>1. i \in Nat /\ i > next
      BY <1>1 DEF Ranked
    <2>2. candidates[i].bssid # candidates[next'].bssid
      BY <1>1, <1>2, <2>1 DEF Ranked
    <2> QED
      BY <1>1, <2>1, <2>2 DEF Untried
  <1>4. BestOf(candidates', heard')
    BY <1>1 DEF BestOf, Ranked, Unlisted, Outranks
  <1> QED
    BY <1>1, <1>2, <1>3, <1>4 DEF RankInv

LEMMA RankingKeeps ==
  ASSUME RankInv, [RankNext]_rankVars
  PROVE  RankInv'
  <1>1. ASSUME candidates' = <<>>, next' = 0, heard' = Nothing PROVE RankInv'
    <2>1. Nothing' = Nothing
      BY DEF Nothing
    <2>2. BestOf(candidates', heard')
      BY <1>1, NothingIsBest
    <2>3. Untried'
      BY <1>1 DEF Untried
    <2> QED
      BY <1>1, <2>2, <2>3 DEF RankInv
  <1>2. CASE startScan
    BY <1>1, <1>2 DEF startScan
  <1>3. CASE Restart
    BY <1>1, <1>3 DEF Restart
  <1>4. ASSUME UNCHANGED <<candidates, next, failed, heard>>, scanning' => scanning
        PROVE  RankInv'
    BY <1>4 DEF RankInv, Untried, BestOf, Ranked, Unlisted, Outranks
  <1>5. CASE ScanEnds
    BY <1>4, <1>5 DEF ScanEnds
  <1>6. CASE CandidateFails
    BY <1>6, FailureKeeps
  <1>7. CASE \E b \in Bssid, r \in Rssi, usable \in BOOLEAN : ScanReports(b, r, usable)
    BY <1>7, ReportKeeps
  <1>8. CASE UNCHANGED rankVars
    BY <1>4, <1>8 DEF rankVars
  <1> QED
    BY <1>2, <1>3, <1>5, <1>6, <1>7, <1>8 DEF RankNext

\* WifiCandidateRanker holds the best access points a scan has heard, whatever the order of
\* the reports and for any capacity, and none that is still to be tried has failed before.
THEOREM RankingSound == Spec => []RankingIsBest
  <1>1. Init => RankInv
    BY NothingIsBest DEF Init, RankInit, RankInv, Untried
  <1>2. RankInv /\ [Next]_vars => RankInv'
    BY PartsStep, RankingKeeps
  <1>3. RankInv => RankingIsBest
    <2> SUFFICES ASSUME RankInv PROVE RankingIsBest
      OBVIOUS
    <2>1. /\ BestOf(candidates, heard) /\ Ranked(candidates) /\ Untried
          /\ Len(candidates) <= RankCapacity
      BY DEF RankInv, BestOf
    <2>2. Last(candidates) = candidates[Len(candidates)]
      BY DEF Last
    <2>3. Len(candidates) = RankCapacity => Len(candidates) \in DOMAIN candidates
      BY <2>1, Numbers DEF Ranked
    <2>4. \A b \in Bssid :
            heard[b] # NotHeard /\ (\A i \in DOMAIN candidates : candidates[i].bssid # b)
            => /\ Len(candidates) = RankCapacity
               /\ Outranks(Last(candidates), [bssid |-> b, rssi |-> heard[b]])
      BY <2>1, <2>2, <2>3 DEF BestOf, Unlisted, Reading
    <2> QED
      BY <2>1, <2>4 DEF RankingIsBest, BestOf, Ranked, Untried
  <1> QED
    BY <1>1, <1>2, <1>3, PTL DEF Spec

----------------------------------------------------------------------------
(* The cookie jar                                                          *)

Cookie == [host : Host, name : CookieName, length : 1..MaxPair]

Together(list) == FoldLeft(LAMBDA sum, e : sum + e.length, 0, list)

LEMMA SumPrefixes ==
  ASSUME NEW list \in Seq(Cookie)
  PROVE  \E P \in [0..Len(list) -> Int] :
           /\ P[0] = 0 /\ \A k \in 1..Len(list) : P[k] = P[k - 1] + list[k].length
           /\ Together(list) = P[Len(list)]
  <1> DEFINE n == Len(list)
             Right(iter) == iter = [s \in SUBSET (1..n) |->
                              IF s = {} THEN 0 ELSE iter[s \ {Max(s)}] + list[Max(s)].length]
             it == CHOOSE iter : Right(iter)
             step == [i \in 1..n |-> [sum \in Int |-> sum + list[i].length]]
             P == [k \in 0..n |-> it[1..k]]
  <1>1. n \in Nat /\ DOMAIN list = 1..n /\ \A i \in 1..n : list[i].length \in Int
    <2>1. n \in Nat /\ DOMAIN list = 1..n /\ \A i \in 1..n : list[i] \in Cookie
      OBVIOUS
    <2>2. \A c \in Cookie : c.length \in Int
      BY JarAssumption DEF Cookie
    <2> QED
      BY <2>1, <2>2
  <1>2. Together(list) = it[1..n]
    BY <1>1 DEF Together, FoldLeft, MapThenFoldSet
  <1> HIDE DEF n
  <1>3. \E iter : Right(iter)
    <2>1. step \in [1..n -> [Int -> Int]]
      BY <1>1
    <2> HIDE DEF step
    <2>2. PICK iter \in [SUBSET (1..n) -> Int] : Iterates(iter, n, 0, step)
      <3>1. n \in Nat /\ 0 \in Int
        BY <1>1
      <3> QED
        BY <2>1, <3>1, FoldExists
    <2>3. ASSUME NEW s \in SUBSET (1..n), s # {}
          PROVE  step[Max(s)][iter[s \ {Max(s)}]] = iter[s \ {Max(s)}] + list[Max(s)].length
      <3>1. Max(s) \in 1..n /\ s \ {Max(s)} \in SUBSET (1..n)
        BY <1>1, <2>3, MaxOfTop
      <3>2. iter[s \ {Max(s)}] \in Int
        BY <3>1
      <3> QED
        BY <3>1, <3>2 DEF step
    <2>4. Right(iter)
      BY <2>2, <2>3 DEF Iterates
    <2> QED
      BY <2>4
  <1>4. Right(it)
    BY <1>3
  <1> HIDE DEF it
  <1>5. it[{}] = 0 /\ 1..0 = {} /\ 0 \in 0..n /\ n \in 0..n
    BY <1>1, <1>4
  <1>6. ASSUME NEW k \in 1..n PROVE it[1..k] = it[1..k - 1] + list[k].length
    <2>1. /\ Max(1..k) = k /\ 1..k # {} /\ (1..k) \ {k} = 1..k - 1
          /\ 1..k \in SUBSET (1..n)
      BY <1>1, FirstPlaces
    <2> QED
      BY <1>4, <2>1
  <1> HIDE DEF Right
  <1>7. 0..n \subseteq {k \in 0..n : it[1..k] \in Int}
    <2> DEFINE T == {k \in 0..n : it[1..k] \in Int}
    <2>1. 0 \in T
      BY <1>5
    <2>2. ASSUME NEW k \in 1..n, k - 1 \in T PROVE k \in T
      BY <1>1, <1>6, <2>2
    <2> HIDE DEF T
    <2>3. 0..n \subseteq T
      BY <1>1, <2>1, <2>2, Upward
    <2> QED
      BY <2>3 DEF T
  <1>8. /\ P \in [0..n -> Int] /\ P[0] = 0 /\ Together(list) = P[n]
        /\ \A k \in 1..n : P[k] = P[k - 1] + list[k].length
    <2>1. \A k \in 1..n : k \in 0..n /\ k - 1 \in 0..n
      BY <1>1
    <2> QED
      BY <1>2, <1>5, <1>6, <1>7, <2>1
  <1> HIDE DEF P
  <1> QED
    BY <1>8 DEF n


\* P holds the running totals of the weights w.
Totals(P, w, n) ==
  /\ P \in [0..n -> Int] /\ w \in [1..n -> Nat]
  /\ P[0] = 0 /\ \A k \in 1..n : P[k] = P[k - 1] + w[k]

LEMMA TotalsStep ==
  ASSUME NEW n \in Nat, NEW P, NEW w, Totals(P, w, n), NEW k \in 1..n
  PROVE  /\ P[k] = P[k - 1] + w[k]
         /\ P[k] \in Int /\ P[k - 1] \in Int /\ w[k] \in Nat
  <1>1. k \in 0..n /\ k - 1 \in 0..n
    OBVIOUS
  <1> QED
    BY <1>1 DEF Totals

\* They are never negative ...
LEMMA TotalsNat ==
  ASSUME NEW n \in Nat, NEW P, NEW w, Totals(P, w, n)
  PROVE  \A k \in 0..n : P[k] \in Nat
  <1> DEFINE T == {k \in 0..n : P[k] \in Nat}
  <1>1. 0 \in T
    BY DEF Totals
  <1>2. ASSUME NEW k \in 1..n, k - 1 \in T PROVE k \in T
    <2>1. P[k - 1] \in Nat /\ w[k] \in Nat /\ P[k] = P[k - 1] + w[k]
      BY <1>2, TotalsStep
    <2> QED
      BY <2>1
  <1> HIDE DEF T
  <1>3. 0..n \subseteq T
    BY <1>1, <1>2, Upward
  <1> QED
    BY <1>3 DEF T

\* v differs from w at most in one weight.
Shifted(v, w, n, place, gain) == \A k \in 1..n : v[k] = IF k = place THEN w[k] + gain ELSE w[k]

\* ... and moved by what one weight gains, from there on.
LEMMA TotalsShift ==
  ASSUME NEW n \in Nat, NEW P, NEW w, Totals(P, w, n), NEW Q, NEW v, Totals(Q, v, n),
         NEW gain \in Int, NEW place \in Int, Shifted(v, w, n, place, gain)
  PROVE  Q[n] = P[n] + (IF place \in 1..n THEN gain ELSE 0)
  <1> DEFINE Shift(k) == IF place \in 1..k THEN gain ELSE 0
             T == {k \in 0..n : Q[k] = P[k] + Shift(k)}
  <1>1. 0 \in T
    BY DEF Totals
  <1>2. ASSUME NEW k \in 1..n, k - 1 \in T PROVE k \in T
    <2>1. Q[k - 1] = P[k - 1] + Shift(k - 1)
      BY <1>2
    <2>2. /\ P[k] = P[k - 1] + w[k] /\ P[k - 1] \in Int /\ w[k] \in Int
          /\ Q[k] = Q[k - 1] + v[k]
      BY TotalsStep
    <2>3. Shift(k - 1) + (v[k] - w[k]) = Shift(k) /\ v[k] \in Int /\ Shift(k - 1) \in Int
      <3>1. CASE k = place
        <4>1. v[k] = w[k] + gain
          BY <3>1 DEF Shifted
        <4>2. Shift(k - 1) = 0 /\ Shift(k) = gain
          BY <3>1
        <4> HIDE DEF Shift
        <4> QED
          BY <2>2, <4>1, <4>2
      <3>2. CASE k # place
        <4>1. v[k] = w[k]
          BY <3>2 DEF Shifted
        <4>2. Shift(k - 1) = Shift(k) /\ Shift(k - 1) \in Int
          BY <3>2
        <4> HIDE DEF Shift
        <4> QED
          BY <2>2, <4>1, <4>2
      <3> QED
        BY <3>1, <3>2
    <2> HIDE DEF Shift
    <2>4. Q[k] = P[k] + Shift(k)
      BY <2>1, <2>2, <2>3
    <2> QED
      BY <2>4
  <1> HIDE DEF T
  <1>3. 0..n \subseteq T
    BY <1>1, <1>2, Upward
  <1>4. n \in T
    BY <1>3
  <1> QED
    BY <1>4 DEF T

Lengths(list) == [k \in 1..Len(list) |-> list[k].length]

LEMMA SumFacts ==
  ASSUME NEW list \in Seq(Cookie)
  PROVE  /\ Len(list) \in Nat
         /\ \E P : Totals(P, Lengths(list), Len(list)) /\ Together(list) = P[Len(list)]
  <1>1. Len(list) \in Nat /\ \A k \in 1..Len(list) : list[k] \in Cookie
    OBVIOUS
  <1>2. \A c \in Cookie : c.length \in Nat
    BY JarAssumption DEF Cookie
  <1> QED
    BY <1>1, <1>2, SumPrefixes DEF Lengths, Totals

LEMMA SumOfEmpty == Together(<<>>) = 0
  <1>1. <<>> \in Seq(Cookie) /\ Len(<<>>) = 0
    OBVIOUS
  <1> QED
    BY <1>1, SumPrefixes

LEMMA SumIsNat ==
  ASSUME NEW list \in Seq(Cookie)
  PROVE  Together(list) \in Nat
  <1> DEFINE n == Len(list)
             w == Lengths(list)
  <1>1. n \in Nat
    BY SumFacts
  <1>2. PICK P : Totals(P, w, n) /\ Together(list) = P[n]
    BY SumFacts
  <1> HIDE DEF n, w
  <1>3. \A k \in 0..n : P[k] \in Nat
    BY <1>1, <1>2, TotalsNat
  <1> QED
    BY <1>1, <1>2, <1>3

LEMMA SumAppended ==
  ASSUME NEW list \in Seq(Cookie), NEW e \in Cookie
  PROVE  Together(Append(list, e)) = Together(list) + e.length
  <1> DEFINE n == Len(list)
             more == Append(list, e)
             w == Lengths(list)
             v == Lengths(more)
  <1>1. /\ n \in Nat /\ more \in Seq(Cookie) /\ Len(more) = n + 1 /\ more[n + 1] = e
        /\ \A k \in 1..n : more[k] = list[k]
    OBVIOUS
  <1>2. PICK P : Totals(P, w, n) /\ Together(list) = P[n]
    BY SumFacts
  <1> HIDE DEF more
  <1>3. PICK Q : Totals(Q, v, n + 1) /\ Together(more) = Q[n + 1]
    BY <1>1, SumFacts
  <1>4. v[n + 1] = e.length /\ \A k \in 1..n : v[k] = w[k]
    BY <1>1 DEF Lengths
  <1> HIDE DEF n, w, v
  <1> DEFINE q == [k \in 0..n |-> Q[k]]
             u == [k \in 1..n |-> v[k]]
  <1>5. /\ n \in 0..n /\ 0 \in 0..n /\ n + 1 \in Nat
        /\ \A k \in 1..n : k \in 0..n /\ k - 1 \in 0..n
        /\ \A k \in 0..n : k \in 0..n + 1
        /\ \A k \in 1..n : k \in 1..n + 1
        /\ n + 1 \in 1..n + 1 /\ (n + 1) - 1 = n /\ -1 \notin 1..n
    BY <1>1
  <1>6. Totals(q, u, n) /\ q[n] = Q[n]
    <2>1. q \in [0..n -> Int] /\ u \in [1..n -> Nat] /\ q[0] = 0
      BY <1>3, <1>5 DEF Totals
    <2>2. \A k \in 1..n : q[k] = q[k - 1] + u[k]
      BY <1>3, <1>5 DEF Totals
    <2> QED
      BY <1>5, <2>1, <2>2 DEF Totals
  <1>7. \A k \in 1..n : u[k] = w[k]
    BY <1>4
  <1> HIDE DEF q, u
  <1>8. q[n] = P[n]
    <2>1. Shifted(u, w, n, -1, 0)
      BY <1>5, <1>7 DEF Shifted
    <2>2. q[n] = P[n] + (IF -1 \in 1..n THEN 0 ELSE 0)
      BY <1>1, <1>2, <1>6, <2>1, TotalsShift
    <2>3. P[n] \in Int
      BY <1>2, <1>5 DEF Totals
    <2> QED
      BY <2>2, <2>3
  <1>9. Q[n + 1] = Q[n] + v[n + 1]
    BY <1>3, <1>5, TotalsStep
  <1> QED
    BY <1>2, <1>3, <1>4, <1>6, <1>8, <1>9 DEF more

LEMMA SumReplaced ==
  ASSUME NEW list \in Seq(Cookie), NEW place \in 1..Len(list), NEW length \in 1..MaxPair
  PROVE  /\ [list EXCEPT ![place].length = length] \in Seq(Cookie)
         /\ Together([list EXCEPT ![place].length = length])
              = Together(list) - list[place].length + length
  <1> DEFINE n == Len(list)
             more == [list EXCEPT ![place].length = length]
             changed == [list[place] EXCEPT !.length = length]
             gain == length - list[place].length
             w == Lengths(list)
             v == Lengths(more)
  <1>1. list[place] \in Cookie
    OBVIOUS
  <1>2. changed \in Cookie /\ changed.length = length /\ length \in Int
        /\ list[place].length \in Int
    BY <1>1, JarAssumption DEF Cookie
  <1>3. more = [list EXCEPT ![place] = changed]
    OBVIOUS
  <1> HIDE DEF changed, more
  <1>4. /\ n \in Nat /\ place \in 1..n /\ more \in Seq(Cookie) /\ Len(more) = n
        /\ more[place] = changed /\ \A k \in 1..n : k # place => more[k] = list[k]
    BY <1>2, <1>3
  <1>5. /\ \A k \in 1..n : k # place => v[k] = w[k]
        /\ v[place] = length /\ w[place] = list[place].length
    BY <1>2, <1>4 DEF Lengths
  <1>6. PICK P : Totals(P, w, n) /\ Together(list) = P[n]
    BY SumFacts
  <1>7. PICK Q : Totals(Q, v, n) /\ Together(more) = Q[n]
    BY <1>4, SumFacts
  <1>8. gain \in Int /\ length = list[place].length + gain
    BY <1>2
  <1> HIDE DEF n, w, v, gain
  <1>9. place \in Int /\ place \in 1..n /\ n \in 0..n
    BY <1>4
  <1>10. Shifted(v, w, n, place, gain)
    BY <1>5, <1>8 DEF Shifted
  <1>11. Q[n] = P[n] + gain
    <2>1. Q[n] = P[n] + (IF place \in 1..n THEN gain ELSE 0)
      <3>1. n \in Nat /\ Totals(P, w, n) /\ Totals(Q, v, n) /\ gain \in Int /\ place \in Int
        BY <1>4, <1>6, <1>7, <1>8, <1>9
      <3> QED
        BY <1>10, <3>1, TotalsShift
    <2> QED
      BY <1>9, <2>1
  <1>12. P[n] \in Int
    BY <1>6, <1>9 DEF Totals
  <1>13. Together(more) = Together(list) - list[place].length + length
    BY <1>2, <1>6, <1>7, <1>8, <1>11, <1>12
  <1> QED
    BY <1>4, <1>13 DEF more

\* headerFor writes the pairs of one host, and no more than one separator for each.
Written(host, list) ==
  FoldLeft(LAMBDA written, e :
             IF e.host # host THEN written
             ELSE written + (IF written = 0 THEN 0 ELSE 2) + e.length,
           0, list)

WithPair(written, own, length) ==
  IF own THEN written + (IF written = 0 THEN 0 ELSE 2) + length ELSE written

LEMMA HeaderPrefixes ==
  ASSUME NEW list \in Seq(Cookie), NEW host
  PROVE  \E H : /\ H[0] = 0 /\ Written(host, list) = H[Len(list)]
                /\ \A k \in 1..Len(list) :
                     H[k] = WithPair(H[k - 1], list[k].host = host, list[k].length)
  <1> DEFINE n == Len(list)
             Onto(written, i) == IF list[i].host # host THEN written
                                  ELSE written + (IF written = 0 THEN 0 ELSE 2)
                                               + list[i].length
             Right(iter) == iter = [s \in SUBSET (1..n) |->
                              IF s = {} THEN 0 ELSE Onto(iter[s \ {Max(s)}], Max(s))]
             it == CHOOSE iter : Right(iter)
             step == [i \in 1..n |-> [sum \in Int |-> Onto(sum, i)]]
             H == [k \in 0..n |-> it[1..k]]
  <1>1. n \in Nat /\ DOMAIN list = 1..n /\ \A i \in 1..n : list[i].length \in Int
    <2>1. n \in Nat /\ DOMAIN list = 1..n /\ \A i \in 1..n : list[i] \in Cookie
      OBVIOUS
    <2>2. \A c \in Cookie : c.length \in Int
      BY JarAssumption DEF Cookie
    <2> QED
      BY <2>1, <2>2
  <1>2. Written(host, list) = it[1..n]
    BY <1>1 DEF Written, FoldLeft, MapThenFoldSet
  <1> HIDE DEF n
  <1>3. \E iter : Right(iter)
    <2>1. step \in [1..n -> [Int -> Int]]
      <3>1. \A i \in 1..n, sum \in Int : Onto(sum, i) \in Int
        BY <1>1
      <3> HIDE DEF Onto
      <3> QED
        BY <3>1
    <2> HIDE DEF step, Onto
    <2>2. PICK iter \in [SUBSET (1..n) -> Int] : Iterates(iter, n, 0, step)
      <3>1. n \in Nat /\ 0 \in Int
        BY <1>1
      <3> QED
        BY <2>1, <3>1, FoldExists
    <2>3. ASSUME NEW s \in SUBSET (1..n), s # {}
          PROVE  step[Max(s)][iter[s \ {Max(s)}]] = Onto(iter[s \ {Max(s)}], Max(s))
      <3>1. Max(s) \in 1..n /\ s \ {Max(s)} \in SUBSET (1..n)
        BY <1>1, <2>3, MaxOfTop
      <3>2. iter[s \ {Max(s)}] \in Int
        BY <3>1
      <3> QED
        BY <3>1, <3>2 DEF step
    <2>4. Right(iter)
      BY <2>2, <2>3 DEF Iterates
    <2> QED
      BY <2>4
  <1> HIDE DEF Onto
  <1>4. Right(it)
    BY <1>3
  <1> HIDE DEF it
  <1>5. it[{}] = 0 /\ 1..0 = {} /\ 0 \in 0..n /\ n \in 0..n
    BY <1>1, <1>4
  <1>6. ASSUME NEW k \in 1..n PROVE it[1..k] = Onto(it[1..k - 1], k)
    <2>1. /\ Max(1..k) = k /\ 1..k # {} /\ (1..k) \ {k} = 1..k - 1
          /\ 1..k \in SUBSET (1..n)
      BY <1>1, FirstPlaces
    <2> QED
      BY <1>4, <2>1
  <1> HIDE DEF Right
  <1>7. H[0] = 0 /\ Written(host, list) = H[n] /\ \A k \in 1..n : H[k] = Onto(H[k - 1], k)
    <2>1. \A k \in 1..n : k \in 0..n /\ k - 1 \in 0..n
      BY <1>1
    <2> QED
      BY <1>2, <1>5, <1>6, <2>1
  <1> HIDE DEF H
  <1>8. \A k \in 1..n : H[k] = WithPair(H[k - 1], list[k].host = host, list[k].length)
    BY <1>7 DEF Onto, WithPair
  <1> QED
    BY <1>7, <1>8 DEF n

LEMMA HeaderFits ==
  ASSUME NEW list \in Seq(Cookie), NEW host
  PROVE  /\ Written(host, list) \in Nat
         /\ Written(host, list) <= Together(list) + 2 * (IF Len(list) = 0 THEN 0 ELSE Len(list) - 1)
  <1> DEFINE n == Len(list)
             w == Lengths(list)
             Own(k) == list[k].host = host
             Room(k) == IF k = 0 THEN 0 ELSE k - 1
  <1>1. n \in Nat
    BY SumFacts
  <1>2. PICK P : Totals(P, w, n) /\ Together(list) = P[n]
    BY SumFacts
  <1>3. PICK H : /\ H[0] = 0 /\ Written(host, list) = H[n]
                 /\ \A k \in 1..n : H[k] = WithPair(H[k - 1], Own(k), list[k].length)
    BY HeaderPrefixes
  <1>4. \A k \in 1..n : list[k].length = w[k]
    BY DEF Lengths
  <1> HIDE DEF n, w, Own
  <1>5. \A k \in 0..n : P[k] \in Nat
    BY <1>1, <1>2, TotalsNat
  <1> DEFINE T == {k \in 0..n : H[k] \in Nat /\ H[k] <= P[k] + 2 * Room(k)}
  <1>6. 0 \in T
    BY <1>1, <1>3, <1>5
  <1>7. ASSUME NEW k \in 1..n, k - 1 \in T PROVE k \in T
    <2> DEFINE h == H[k - 1]
               before == P[k - 1]
               l == w[k]
    <2>1. /\ P[k] = before + l /\ l \in Nat /\ H[k] = WithPair(h, Own(k), l)
      BY <1>1, <1>2, <1>3, <1>4, TotalsStep
    <2>2. before \in Nat /\ k - 1 \in Nat /\ k \in Nat /\ k \in 0..n
      BY <1>1, <1>5
    <2>3. h \in Nat /\ h <= before + 2 * Room(k - 1)
      BY <1>7
    <2> HIDE DEF h, before, l
    <2>4. WithPair(h, Own(k), l) \in Nat
          /\ WithPair(h, Own(k), l) <= (before + l) + 2 * Room(k)
      <3>1. CASE Own(k) /\ h # 0
        <4>1. h <= before + 2 * Room(k - 1) /\ WithPair(h, Own(k), l) = h + 2 + l
          BY <2>3, <3>1 DEF WithPair
        <4>2. CASE k = 1
          <5>1. k - 1 = 0
            BY <4>2
          <5>2. h = 0
            BY <1>3, <5>1 DEF h
          <5> QED
            BY <3>1, <5>2
        <4>3. CASE k # 1
          <5>1. Room(k - 1) = k - 2 /\ Room(k) = k - 1
            BY <2>2, <4>3
          <5> HIDE DEF Room
          <5> QED
            BY <2>1, <2>2, <2>3, <4>1, <5>1
        <4> QED
          BY <4>2, <4>3
      <3>2. CASE ~(Own(k) /\ h # 0)
        <4>1. WithPair(h, Own(k), l) \in {h, l}
          BY <2>1, <2>3, <3>2 DEF WithPair
        <4>2. Room(k - 1) <= Room(k) /\ Room(k) \in Nat /\ Room(k - 1) \in Nat
          BY <2>2
        <4> HIDE DEF Room
        <4>3. h \in Nat /\ h <= (before + l) + 2 * Room(k)
          BY <2>1, <2>2, <2>3, <4>2
        <4>4. l \in Nat /\ l <= (before + l) + 2 * Room(k)
          BY <2>1, <2>2, <4>2
        <4> QED
          BY <4>1, <4>3, <4>4
      <3> QED
        BY <3>1, <3>2
    <2> HIDE DEF Room
    <2> QED
      BY <2>1, <2>2, <2>4
  <1> HIDE DEF T
  <1>8. n \in T
    <2>1. 0..n \subseteq T
      BY <1>1, <1>6, <1>7, Upward
    <2> QED
      BY <1>1, <2>1
  <1> QED
    BY <1>2, <1>3, <1>8 DEF T, n

HoldsCookie(list, h, n) == \E i \in DOMAIN list : list[i].host = h /\ list[i].name = n

\* One entry for each accepted cookie, at its latest length.
Remembers(list, latest) ==
  /\ \A i, j \in DOMAIN list :
       list[i].host = list[j].host /\ list[i].name = list[j].name => i = j
  /\ \A i \in DOMAIN list : list[i].length = latest[<<list[i].host, list[i].name>>]
  /\ \A h \in Host, n \in CookieName : latest[<<h, n>>] # NoValue => HoldsCookie(list, h, n)

JarFits(list, sum, latest) ==
  /\ list \in Seq(Cookie) /\ Len(list) <= MaxCookies
  /\ sum = Together(list) /\ sum <= MaxCookieBytes
  /\ latest \in [Host \X CookieName -> 0..MaxPair]
  /\ Remembers(list, latest)

JarInv == JarFits(entries, bytes, accepted)

\* The place of a cookie, and 0 for one the jar does not hold.
LEMMA PlaceOfCookie ==
  ASSUME NEW list \in Seq(Cookie), NEW h, NEW n
  PROVE  LET place == SelectInSeq(list, LAMBDA e : e.host = h /\ e.name = n) IN
         \/ place \in 1..Len(list) /\ list[place].host = h /\ list[place].name = n
         \/ place = 0 /\ ~HoldsCookie(list, h, n)
  <1> DEFINE those == {i \in 1..Len(list) : list[i].host = h /\ list[i].name = n}
             place == SelectInSeq(list, LAMBDA e : e.host = h /\ e.name = n)
  <1>1. place = IF those # {} THEN Min(those) ELSE 0
    BY DEF SelectInSeq
  <1>2. Len(list) \in Nat /\ DOMAIN list = 1..Len(list)
    OBVIOUS
  <1>3. those \in SUBSET (0..Len(list))
    BY <1>2
  <1>4. those = {} => ~HoldsCookie(list, h, n)
    BY <1>2 DEF HoldsCookie
  <1> HIDE DEF place
  <1>5. ASSUME place \in those
        PROVE  place \in 1..Len(list) /\ list[place].host = h /\ list[place].name = n
    BY <1>5
  <1> HIDE DEF those
  <1>6. those # {} => place \in those
    BY <1>1, <1>2, <1>3, MinFacts
  <1> QED
    BY <1>1, <1>4, <1>5, <1>6 DEF place

\* What add does with a cookie: nothing, or a new length, or a new entry.
Latest(host, name, length) == [accepted EXCEPT ![<<host, name>>] = length]

Rises(host, name, length) ==
  /\ length \in 1..MaxPair
  /\ \E place \in 1..Len(entries) :
       /\ entries[place].host = host /\ entries[place].name = name
       /\ (bytes - entries[place].length) + length <= MaxCookieBytes
       /\ entries' = [entries EXCEPT ![place].length = length]
       /\ bytes' = (bytes - entries[place].length) + length
  /\ accepted' = Latest(host, name, length)

Grows(host, name, length) ==
  /\ length \in 1..MaxPair /\ ~HoldsCookie(entries, host, name)
  /\ Len(entries) < MaxCookies /\ bytes + length <= MaxCookieBytes
  /\ entries' = Append(entries, [host |-> host, name |-> name, length |-> length])
  /\ bytes' = bytes + length /\ accepted' = Latest(host, name, length)

LEMMA ThreeWays ==
  ASSUME NEW host \in Host, NEW name \in CookieName, NEW length \in 0..MaxPair + 1,
         NEW wellFormed \in BOOLEAN, add(host, name, length, wellFormed),
         entries \in Seq(Cookie), bytes \in Nat
  PROVE  \/ UNCHANGED <<entries, bytes, accepted>>
         \/ Rises(host, name, length)
         \/ Grows(host, name, length)
  <1> DEFINE place == SelectInSeq(entries, LAMBDA e : e.host = host /\ e.name = name)
             outcome == Added(host, name, length, wellFormed)
             stays == <<FALSE, entries, bytes>>
             bad == ~wellFormed \/ length = 0 \/ length > MaxPair
             sum == (bytes - entries[place].length) + length
             changed == <<TRUE, [entries EXCEPT ![place].length = length], sum>>
             more == Append(entries, [host |-> host, name |-> name, length |-> length])
             full == Len(entries) >= MaxCookies \/ bytes + length > MaxCookieBytes
             grown == <<TRUE, more, bytes + length>>
             now == Latest(host, name, length)
  <1>1. \/ place \in 1..Len(entries) /\ entries[place].host = host /\ entries[place].name = name
        \/ place = 0 /\ ~HoldsCookie(entries, host, name)
    BY PlaceOfCookie
  <1>2. /\ entries' = outcome[2] /\ bytes' = outcome[3]
        /\ accepted' = IF outcome[1] THEN now ELSE accepted
    BY DEF add, Latest
  <1>3. /\ outcome = IF bad THEN stays
                    ELSE IF place > 0 THEN Replaced(place, length)
                    ELSE Appended(host, name, length)
        /\ Replaced(place, length) = IF sum > MaxCookieBytes THEN stays ELSE changed
        /\ Appended(host, name, length) = IF full THEN stays ELSE grown
    BY DEF Added, Replaced, Appended
  <1>4. /\ length \in Nat /\ MaxPair \in Nat /\ MaxCookieBytes \in Nat /\ MaxCookies \in Nat
        /\ Len(entries) \in Nat /\ bytes + length \in Nat
    BY JarAssumption
  <1>5. place > 0 <=> place # 0
    BY <1>1
  <1>6. ~bad => length \in 1..MaxPair
    BY <1>4
  <1>7. ~full => Len(entries) < MaxCookies /\ bytes + length <= MaxCookieBytes
    BY <1>4
  <1>8. place # 0 /\ ~(sum > MaxCookieBytes) => sum <= MaxCookieBytes
    <2> SUFFICES ASSUME place # 0 PROVE sum \in Int
      BY <1>4
    <2>1. entries[place] \in Cookie
      BY <1>1
    <2>2. entries[place].length \in Int
      BY <2>1, JarAssumption DEF Cookie
    <2> QED
      BY <1>4, <2>2
  <1>9. /\ stays[1] = FALSE /\ stays[2] = entries /\ stays[3] = bytes
        /\ changed[1] = TRUE /\ changed[2] = [entries EXCEPT ![place].length = length]
        /\ changed[3] = sum
        /\ grown[1] = TRUE /\ grown[2] = more /\ grown[3] = bytes + length
    OBVIOUS
  <1> HIDE DEF place, outcome, stays, bad, changed, more, full, grown, now
  <1>10. CASE outcome = stays
    BY <1>2, <1>9, <1>10
  <1>11. CASE outcome # stays /\ place = 0
    <2>1. ~bad /\ ~full /\ outcome = grown
      BY <1>3, <1>5, <1>11
    <2>2. accepted' = now /\ entries' = more /\ bytes' = bytes + length
      BY <1>2, <1>9, <2>1
    <2>3. ~HoldsCookie(entries, host, name)
      BY <1>1, <1>11
    <2> QED
      BY <1>6, <1>7, <2>1, <2>2, <2>3 DEF more, now, Grows
  <1>12. CASE outcome # stays /\ place # 0
    <2>1. ~bad /\ ~(sum > MaxCookieBytes) /\ outcome = changed
      BY <1>3, <1>5, <1>12
    <2>2. /\ accepted' = now /\ bytes' = sum
          /\ entries' = [entries EXCEPT ![place].length = length]
      BY <1>2, <1>9, <2>1
    <2>3. /\ place \in 1..Len(entries) /\ entries[place].host = host /\ entries[place].name = name
          /\ length \in 1..MaxPair /\ sum <= MaxCookieBytes
      BY <1>1, <1>6, <1>8, <1>12, <2>1
    <2> QED
      BY <2>2, <2>3 DEF now, Rises
  <1> QED
    BY <1>10, <1>11, <1>12

LEMMA ReplacedRemembers ==
  ASSUME NEW list \in Seq(Cookie), NEW latest \in [Host \X CookieName -> 0..MaxPair],
         Remembers(list, latest), NEW place \in 1..Len(list), NEW length \in 1..MaxPair
  PROVE  Remembers([list EXCEPT ![place].length = length],
                   [latest EXCEPT ![<<list[place].host, list[place].name>>] = length])
  <1> DEFINE more == [list EXCEPT ![place].length = length]
             changed == [list[place] EXCEPT !.length = length]
             key == <<list[place].host, list[place].name>>
             now == [latest EXCEPT ![key] = length]
  <1>1. /\ Len(list) \in Nat /\ DOMAIN list = 1..Len(list)
        /\ \A i \in 1..Len(list) : list[i] \in Cookie
    OBVIOUS
  <1>2. \A c \in Cookie : c.host \in Host /\ c.name \in CookieName
    BY DEF Cookie
  <1>3. /\ changed.length = length /\ changed.host = list[place].host
        /\ changed.name = list[place].name
    BY <1>1 DEF Cookie
  <1>4. more = [list EXCEPT ![place] = changed]
    OBVIOUS
  <1> HIDE DEF changed, more
  <1>5. /\ DOMAIN more = DOMAIN list /\ more[place] = changed
        /\ \A i \in DOMAIN list : i # place => more[i] = list[i]
    BY <1>1, <1>4
  <1>6. key \in Host \X CookieName
    BY <1>1, <1>2
  <1>7. /\ now[key] = length
        /\ \A c \in Host \X CookieName : c # key => now[c] = latest[c]
    BY <1>6
  <1> HIDE DEF now, key
  <1>8. \A i \in DOMAIN list : more[i].host = list[i].host /\ more[i].name = list[i].name
    BY <1>3, <1>5
  <1>9. ASSUME NEW i \in DOMAIN more PROVE more[i].length = now[<<more[i].host, more[i].name>>]
    <2>1. CASE i = place
      BY <1>3, <1>5, <1>7, <2>1 DEF key
    <2>2. CASE i # place
      <3>1. <<list[i].host, list[i].name>> # key
        BY <1>1, <1>5, <1>9, <2>2 DEF Remembers, key
      <3>2. <<list[i].host, list[i].name>> \in Host \X CookieName
        BY <1>1, <1>2, <1>5, <1>9
      <3> QED
        BY <1>5, <1>7, <1>9, <2>2, <3>1, <3>2 DEF Remembers
    <2> QED
      BY <2>1, <2>2
  <1>10. ASSUME NEW h \in Host, NEW n \in CookieName, now[<<h, n>>] # NoValue
         PROVE  HoldsCookie(more, h, n)
    <2>1. CASE <<h, n>> = key
      BY <1>1, <1>3, <1>5, <2>1 DEF HoldsCookie, key
    <2>2. CASE <<h, n>> # key
      <3>1. <<h, n>> \in Host \X CookieName
        OBVIOUS
      <3>2. latest[<<h, n>>] # NoValue
        BY <1>7, <1>10, <2>2, <3>1
      <3>3. PICK i \in DOMAIN list : list[i].host = h /\ list[i].name = n
        BY <3>2 DEF HoldsCookie, Remembers
      <3> QED
        BY <1>5, <1>8, <3>3 DEF HoldsCookie
    <2> QED
      BY <2>1, <2>2
  <1>11. \A i, j \in DOMAIN more :
           more[i].host = more[j].host /\ more[i].name = more[j].name => i = j
    BY <1>5, <1>8 DEF Remembers
  <1>12. Remembers(more, now)
    BY <1>9, <1>10, <1>11 DEF Remembers
  <1> QED
    BY <1>12 DEF more, now, key

LEMMA AppendedRemembers ==
  ASSUME NEW list \in Seq(Cookie), NEW latest \in [Host \X CookieName -> 0..MaxPair],
         Remembers(list, latest), NEW e \in Cookie, ~HoldsCookie(list, e.host, e.name)
  PROVE  Remembers(Append(list, e), [latest EXCEPT ![<<e.host, e.name>>] = e.length])
  <1> DEFINE more == Append(list, e)
             key == <<e.host, e.name>>
             now == [latest EXCEPT ![key] = e.length]
             n == Len(list)
  <1>1. n \in Nat /\ DOMAIN list = 1..n /\ \A i \in 1..n : list[i] \in Cookie
    OBVIOUS
  <1>2. /\ DOMAIN more = 1..n + 1 /\ more[n + 1] = e
        /\ \A i \in 1..n : more[i] = list[i]
    BY <1>1
  <1> HIDE DEF more, n
  <1>3. \A c \in Cookie : c.host \in Host /\ c.name \in CookieName
    BY DEF Cookie
  <1>4. key \in Host \X CookieName
    BY <1>3
  <1>5. /\ now[key] = e.length
        /\ \A c \in Host \X CookieName : c # key => now[c] = latest[c]
    BY <1>4
  <1>6. \A i \in 1..n : <<list[i].host, list[i].name>> # key
    BY <1>1 DEF HoldsCookie
  <1>7. \A i \in 1..n : <<list[i].host, list[i].name>> \in Host \X CookieName
    BY <1>1, <1>3
  <1> HIDE DEF now
  <1>8. \A i \in 1..n + 1 : i \in 1..n \/ i = n + 1
    BY <1>1
  <1>9. \A i \in DOMAIN more : more[i].length = now[<<more[i].host, more[i].name>>]
    BY <1>1, <1>2, <1>5, <1>6, <1>7, <1>8 DEF Remembers
  <1>10. ASSUME NEW h \in Host, NEW m \in CookieName, now[<<h, m>>] # NoValue
         PROVE  HoldsCookie(more, h, m)
    <2>1. CASE <<h, m>> = key
      BY <1>1, <1>2, <2>1 DEF HoldsCookie
    <2>2. CASE <<h, m>> # key
      <3>1. PICK i \in 1..n : list[i].host = h /\ list[i].name = m
        BY <1>1, <1>5, <1>10, <2>2 DEF Remembers, HoldsCookie
      <3>2. i \in 1..n + 1
        BY <1>1
      <3> QED
        BY <1>2, <3>1, <3>2 DEF HoldsCookie
    <2> QED
      BY <2>1, <2>2
  <1>11. \A i, j \in DOMAIN more :
           more[i].host = more[j].host /\ more[i].name = more[j].name => i = j
    BY <1>1, <1>2, <1>6, <1>8 DEF Remembers
  <1>12. Remembers(more, now)
    BY <1>9, <1>10, <1>11 DEF Remembers
  <1> QED
    BY <1>12 DEF more, now

LEMMA EmptyJar == JarFits(<<>>, 0, [cookie \in Host \X CookieName |-> NoValue])
  <1> DEFINE none == [cookie \in Host \X CookieName |-> NoValue]
  <1>1. /\ <<>> \in Seq(Cookie) /\ Len(<<>>) = 0 /\ DOMAIN <<>> = {}
    OBVIOUS
  <1>2. /\ none \in [Host \X CookieName -> 0..MaxPair]
        /\ \A h \in Host, n \in CookieName : none[<<h, n>>] = NoValue
    <2>1. 0 \in 0..MaxPair
      BY JarAssumption
    <2> QED
      BY <2>1 DEF NoValue
  <1>3. 0 <= MaxCookies /\ 0 <= MaxCookieBytes
    BY JarAssumption
  <1> HIDE DEF none
  <1>4. JarFits(<<>>, 0, none)
    BY <1>1, <1>2, <1>3, SumOfEmpty DEF JarFits, Remembers
  <1> QED
    BY <1>4 DEF none

LEMMA JarStarts ==
  ASSUME JarInit
  PROVE  JarInv
  BY EmptyJar DEF JarInit, JarInv

LEMMA AddKeeps ==
  ASSUME JarInv, NEW host \in Host, NEW name \in CookieName, NEW length \in 0..MaxPair + 1,
         NEW wellFormed \in BOOLEAN, add(host, name, length, wellFormed)
  PROVE  JarInv'
  <1> DEFINE e == [host |-> host, name |-> name, length |-> length]
             now == Latest(host, name, length)
  <1>1. /\ entries \in Seq(Cookie) /\ Len(entries) <= MaxCookies
        /\ bytes = Together(entries) /\ bytes <= MaxCookieBytes
        /\ accepted \in [Host \X CookieName -> 0..MaxPair]
        /\ Remembers(entries, accepted)
    BY DEF JarInv, JarFits
  <1>2. bytes \in Nat
    BY <1>1, SumIsNat
  <1>3. CASE UNCHANGED <<entries, bytes, accepted>>
    BY <1>3 DEF JarInv
  <1>4. ASSUME length \in 1..MaxPair
        PROVE  now \in [Host \X CookieName -> 0..MaxPair]
    <2>1. length \in 0..MaxPair
      BY <1>4, JarAssumption
    <2> QED
      BY <1>1, <2>1 DEF Latest
  <1> HIDE DEF now
  <1>5. ASSUME NEW place \in 1..Len(entries), length \in 1..MaxPair,
               entries[place].host = host, entries[place].name = name,
               (bytes - entries[place].length) + length <= MaxCookieBytes,
               entries' = [entries EXCEPT ![place].length = length],
               bytes' = (bytes - entries[place].length) + length,
               accepted' = now
        PROVE  JarInv'
    <2>1. /\ entries' \in Seq(Cookie)
          /\ Together(entries') = Together(entries) - entries[place].length + length
      BY <1>1, <1>5, SumReplaced
    <2>2. Remembers(entries', accepted')
      BY <1>1, <1>5, ReplacedRemembers DEF now, Latest
    <2>3. Len(entries') = Len(entries)
      BY <1>1, <1>5
    <2> QED
      BY <1>1, <1>4, <1>5, <2>1, <2>2, <2>3 DEF JarInv, JarFits
  <1>6. ASSUME length \in 1..MaxPair, ~HoldsCookie(entries, host, name),
               Len(entries) < MaxCookies, bytes + length <= MaxCookieBytes,
               entries' = Append(entries, e), bytes' = bytes + length, accepted' = now
        PROVE  JarInv'
    <2>1. e \in Cookie /\ e.host = host /\ e.name = name /\ e.length = length
      BY <1>6 DEF Cookie
    <2> HIDE DEF e
    <2>2. Together(entries') = Together(entries) + length
      BY <1>1, <1>6, <2>1, SumAppended
    <2>3. Remembers(entries', accepted')
      BY <1>1, <1>6, <2>1, AppendedRemembers DEF now, Latest
    <2>4. /\ entries' \in Seq(Cookie) /\ Len(entries') = Len(entries) + 1
      BY <1>1, <1>6, <2>1
    <2>5. Len(entries') <= MaxCookies
      <3>1. Len(entries) \in Nat /\ MaxCookies \in Nat
        BY <1>1, JarAssumption
      <3> QED
        BY <1>6, <2>4, <3>1
    <2> QED
      BY <1>1, <1>4, <1>6, <2>2, <2>3, <2>4, <2>5 DEF JarInv, JarFits
  <1>7. CASE Rises(host, name, length)
    BY <1>5, <1>7 DEF Rises, now
  <1>8. CASE Grows(host, name, length)
    BY <1>6, <1>8 DEF Grows, now
  <1> QED
    BY <1>1, <1>2, <1>3, <1>7, <1>8, ThreeWays

LEMMA JarKeeps ==
  ASSUME JarInv, [JarNext]_jarVars
  PROVE  JarInv'
  <1>1. CASE NextJob
    <2>1. /\ entries' = <<>> /\ bytes' = 0
          /\ accepted' = [cookie \in Host \X CookieName |-> NoValue]
      BY <1>1 DEF NextJob
    <2> QED
      BY <2>1, EmptyJar DEF JarInv
  <1>2. CASE UNCHANGED jarVars
    BY <1>2 DEF jarVars, JarInv
  <1>3. ASSUME NEW host \in Host, NEW name \in CookieName, NEW length \in 0..MaxPair + 1,
               NEW wellFormed \in BOOLEAN, add(host, name, length, wellFormed)
        PROVE  JarInv'
    BY <1>3, AddKeeps
  <1> QED
    BY <1>1, <1>2, <1>3 DEF JarNext

LEMMA JarPromise ==
  ASSUME JarInv
  PROVE  JarIsSound
  <1>1. /\ entries \in Seq(Cookie) /\ Len(entries) <= MaxCookies
        /\ bytes = Together(entries) /\ bytes <= MaxCookieBytes
        /\ Remembers(entries, accepted)
    BY DEF JarInv, JarFits
  <1>2. ASSUME NEW h \in Host, NEW n \in CookieName
        PROVE  LET own == {i \in DOMAIN entries : entries[i].host = h /\ entries[i].name = n}
               IN  IF accepted[<<h, n>>] = NoValue THEN own = {}
                   ELSE \E i \in own : own = {i} /\ entries[i].length = accepted[<<h, n>>]
    <2> DEFINE own == {i \in DOMAIN entries : entries[i].host = h /\ entries[i].name = n}
    <2>1. CASE accepted[<<h, n>>] = NoValue
      <3>1. \A i \in DOMAIN entries : entries[i].length # NoValue
        <4>1. \A i \in DOMAIN entries : entries[i] \in Cookie
          BY <1>1
        <4>2. \A c \in Cookie : c.length # NoValue
          BY DEF Cookie, NoValue
        <4> QED
          BY <4>1, <4>2
      <3>2. own = {}
        BY <1>1, <2>1, <3>1 DEF Remembers
      <3> QED
        BY <2>1, <3>2
    <2>2. CASE accepted[<<h, n>>] # NoValue
      <3>1. PICK i \in DOMAIN entries : entries[i].host = h /\ entries[i].name = n
        BY <1>1, <2>2 DEF Remembers, HoldsCookie
      <3>2. own = {i}
        BY <1>1, <3>1 DEF Remembers
      <3>3. entries[i].length = accepted[<<h, n>>]
        BY <1>1, <3>1 DEF Remembers
      <3> QED
        BY <2>2, <3>2, <3>3
    <2> QED
      BY <2>1, <2>2
  <1>3. ASSUME NEW host \in Host, bytes + 2 * (MaxCookies - 1) <= MaxCookieBytes
        PROVE  headerFor(host)
    <2> DEFINE more == IF Len(entries) = 0 THEN 0 ELSE Len(entries) - 1
    <2>1. Written(host, entries) <= Together(entries) + 2 * more
      BY <1>1, HeaderFits
    <2>2. HeaderLength(host) = Written(host, entries)
      BY DEF HeaderLength, Written
    <2>3. Written(host, entries) \in Int
      BY <1>1, HeaderFits
    <2>4. more \in Nat /\ more <= MaxCookies - 1
      <3>1. Len(entries) \in Nat /\ MaxCookies \in Nat \ {0}
        BY <1>1, JarAssumption
      <3> QED
        BY <1>1, <3>1
    <2>5. Together(entries) \in Nat /\ MaxCookieBytes \in Nat /\ MaxCookies \in Nat
      BY <1>1, SumIsNat, JarAssumption
    <2> HIDE DEF more
    <2>6. Written(host, entries) <= MaxCookieBytes
      BY <1>1, <1>3, <2>1, <2>3, <2>4, <2>5
    <2> QED
      BY <2>2, <2>6 DEF headerFor
  <1>4. bytes = FoldLeft(LAMBDA sum, e : sum + e.length, 0, entries)
    BY <1>1 DEF Together
  <1> QED
    BY <1>1, <1>2, <1>3, <1>4 DEF JarIsSound

\* CookieJar counts its bytes right, holds one entry for each cookie at its latest value and
\* stays within its limits, whatever is added; and headerFor can send what the separators
\* leave room for.
THEOREM JarSound == Spec => []JarIsSound
  <1>1. Init => JarInv
    BY JarStarts DEF Init
  <1>2. JarInv /\ [Next]_vars => JarInv'
    BY PartsStep, JarKeeps
  <1>3. JarInv => JarIsSound
    BY JarPromise
  <1> QED
    BY <1>1, <1>2, <1>3, PTL DEF Spec

----------------------------------------------------------------------------
(* The choice of a form: what a control can be                             *)

Kind == {"refused", "inert", "hidden", "select", "textarea", "button", "text", "checkbox",
         "radio"}

\* What a control of a page can be, as far as the choice of a form depends on it.
ControlType ==
  [what : Kind, name : Name \union {NoName}, score : Int, rejected : BOOLEAN,
   meaning : {"known", "unknown", "terms", "opt-in"}, required : BOOLEAN, checked : BOOLEAN]

\* What holds of every control the model offers: only buttons have a score of their own, and a
\* control the clock may answer has a name.
Likely(c) ==
  /\ c \in ControlType
  /\ c.what # "button" => c.score = 0 /\ ~c.rejected
  /\ c.score < 0 => c.rejected
  /\ c.what \notin {"refused", "inert", "button"} => c.name \in Name
  /\ c.what \notin {"text", "checkbox", "radio"} => ~c.required
  /\ c.what = "checkbox" => c.meaning \in {"terms", "opt-in", "unknown"}
  /\ c.what = "text" => c.meaning \in {"known", "unknown"}
  /\ c.what = "radio" => c.meaning \in {"opt-in", "unknown"}

LEMMA PlainFacts ==
  ASSUME NEW what \in Kind, NEW name \in Name \union {NoName}
  PROVE  LET c == Plain(what, name) IN
         /\ c \in ControlType /\ c.what = what /\ c.name = name /\ c.score = 0
         /\ ~c.rejected /\ ~c.required /\ ~c.checked /\ c.meaning = "unknown"
  BY DEF Plain, ControlType

LEMMA LabelledFacts ==
  ASSUME NEW name \in Name \union {NoName}, NEW words \in ButtonWords
  PROVE  LET c == Labelled(name, words) IN
         /\ c \in ControlType /\ c.what = "button" /\ ~c.required
         /\ c.score < 0 => c.rejected
  <1> DEFINE plain == Plain("button", name)
             c == [plain EXCEPT !.score = words[1], !.rejected = words[2]]
  <1>1. /\ plain \in ControlType /\ plain.what = "button" /\ ~plain.required
    BY PlainFacts DEF Kind
  <1>2. words[1] \in Int /\ words[2] \in BOOLEAN /\ (words[1] < 0 => words[2])
    <2>1. CASE words = <<0, FALSE>>
      BY <2>1
    <2>2. CASE words = <<12, FALSE>>
      BY <2>2
    <2>3. CASE words = <<-30, TRUE>>
      BY <2>3
    <2>4. CASE words = <<6, TRUE>>
      BY <2>4
    <2> QED
      BY <2>1, <2>2, <2>3, <2>4 DEF ButtonWords
  <1> HIDE DEF plain
  <1>3. c \in ControlType
    BY <1>1, <1>2 DEF ControlType
  <1>4. c.what = "button" /\ ~c.required /\ c.score = words[1] /\ c.rejected = words[2]
    BY <1>1 DEF ControlType
  <1>5. c = Labelled(name, words)
    BY DEF Labelled, plain
  <1> HIDE DEF c
  <1> QED
    BY <1>2, <1>3, <1>4, <1>5

LEMMA AskingFacts ==
  ASSUME NEW what \in Kind, NEW name \in Name,
         NEW meaning \in {"known", "unknown", "terms", "opt-in"}, NEW required \in BOOLEAN
  PROVE  LET c == Asking(what, name, meaning, required) IN
         /\ c \in ControlType /\ c.what = what /\ c.name = name /\ c.score = 0
         /\ ~c.rejected /\ c.meaning = meaning
  <1> DEFINE plain == Plain(what, name)
             c == [plain EXCEPT !.meaning = meaning, !.required = required]
  <1>1. /\ plain \in ControlType /\ plain.what = what /\ plain.name = name
        /\ plain.score = 0 /\ ~plain.rejected
    BY PlainFacts
  <1> HIDE DEF plain
  <1>2. c \in ControlType
    BY <1>1 DEF ControlType
  <1>3. /\ c.what = what /\ c.name = name /\ c.score = 0 /\ ~c.rejected
        /\ c.meaning = meaning
    BY <1>1 DEF ControlType
  <1>4. c = Asking(what, name, meaning, required)
    BY DEF Asking, plain
  <1> HIDE DEF c
  <1> QED
    BY <1>2, <1>3, <1>4

LEMMA OneOfGroupFacts ==
  ASSUME NEW name \in Name, NEW meaning \in {"opt-in", "unknown"},
         NEW required \in BOOLEAN, NEW checked \in BOOLEAN
  PROVE  LET c == OneOfGroup(name, meaning, required, checked) IN
         /\ c \in ControlType /\ c.what = "radio" /\ c.name = name /\ c.score = 0
         /\ ~c.rejected /\ c.meaning = meaning
  <1> DEFINE old == Asking("radio", name, meaning, required)
             c == [old EXCEPT !.checked = checked]
  <1>1. /\ old \in ControlType /\ old.what = "radio" /\ old.name = name
        /\ old.score = 0 /\ ~old.rejected /\ old.meaning = meaning
    BY AskingFacts DEF Kind
  <1> HIDE DEF old
  <1>2. c \in ControlType
    BY <1>1 DEF ControlType
  <1>3. /\ c.what = "radio" /\ c.name = name /\ c.score = 0 /\ ~c.rejected
        /\ c.meaning = meaning
    BY <1>1 DEF ControlType
  <1>4. c = OneOfGroup(name, meaning, required, checked)
    BY DEF OneOfGroup, old
  <1> HIDE DEF c
  <1> QED
    BY <1>2, <1>3, <1>4

LEMMA ControlsAreLikely ==
  ASSUME NEW c \in Control
  PROVE  Likely(c)
  <1>1. CASE c \in {Plain("refused", NoName), Plain("inert", NoName)}
    <2>1. PICK what \in {"refused", "inert"} : c = Plain(what, NoName)
      BY <1>1
    <2>2. what \in Kind
      BY DEF Kind
    <2>3. /\ c \in ControlType /\ c.what = what /\ c.score = 0
          /\ ~c.rejected /\ ~c.required
      BY <2>1, <2>2, PlainFacts
    <2> QED
      BY <2>3 DEF Likely
  <1>2. CASE \E what \in {"hidden", "select", "textarea"}, name \in Name : c = Plain(what, name)
    <2>1. PICK what \in {"hidden", "select", "textarea"}, name \in Name : c = Plain(what, name)
      BY <1>2
    <2>2. what \in Kind
      BY DEF Kind
    <2>3. /\ c \in ControlType /\ c.what = what /\ c.score = 0 /\ c.name = name
          /\ ~c.rejected /\ ~c.required
      BY <2>1, <2>2, PlainFacts
    <2> QED
      BY <2>3 DEF Likely
  <1>3. CASE \E name \in Name \union {NoName}, words \in ButtonWords : c = Labelled(name, words)
    BY <1>3, LabelledFacts DEF Likely
  <1>4. CASE \E name \in Name, meaning \in {"known", "unknown"}, required \in BOOLEAN :
               c = Asking("text", name, meaning, required)
    <2>1. PICK name \in Name, meaning \in {"known", "unknown"}, required \in BOOLEAN :
            c = Asking("text", name, meaning, required)
      BY <1>4
    <2>2. "text" \in Kind
      BY DEF Kind
    <2>3. /\ c \in ControlType /\ c.what = "text" /\ c.name = name /\ c.score = 0
          /\ ~c.rejected /\ c.meaning = meaning
      BY <2>1, <2>2, AskingFacts
    <2> QED
      BY <2>3 DEF Likely
  <1>5. CASE \E name \in Name, meaning \in {"terms", "opt-in", "unknown"},
                required \in BOOLEAN :
               c = Asking("checkbox", name, meaning, required)
    <2>1. PICK name \in Name, meaning \in {"terms", "opt-in", "unknown"},
               required \in BOOLEAN :
            c = Asking("checkbox", name, meaning, required)
      BY <1>5
    <2>2. "checkbox" \in Kind
      BY DEF Kind
    <2>3. /\ c \in ControlType /\ c.what = "checkbox" /\ c.name = name /\ c.score = 0
          /\ ~c.rejected /\ c.meaning = meaning
      BY <2>1, <2>2, AskingFacts
    <2> QED
      BY <2>3 DEF Likely
  <1>6. CASE \E name \in Name, meaning \in {"opt-in", "unknown"}, required \in BOOLEAN,
                checked \in BOOLEAN : c = OneOfGroup(name, meaning, required, checked)
    <2>1. PICK name \in Name, meaning \in {"opt-in", "unknown"}, required \in BOOLEAN,
               checked \in BOOLEAN : c = OneOfGroup(name, meaning, required, checked)
      BY <1>6
    <2>2. /\ c \in ControlType /\ c.what = "radio" /\ c.name = name /\ c.score = 0
          /\ ~c.rejected /\ c.meaning = meaning
      BY <2>1, OneOfGroupFacts
    <2> QED
      BY <2>2 DEF Likely
  <1> QED
    BY <1>1, <1>2, <1>3, <1>4, <1>5, <1>6 DEF Control

----------------------------------------------------------------------------
(* The choice of a form: what its controls are worth                       *)

\* What the controls of a form are worth together, as Offer counts it.
Worths(cs) == FoldLeft(LAMBDA sum, c : sum + Worth(c), 1, cs)

LEMMA WorthFacts ==
  ASSUME NEW c \in Control
  PROVE  Worth(c) \in Int /\ (~Forbidden(c) => Worth(c) >= 0)
  <1>1. c.score \in Int /\ (c.score < 0 => c.rejected)
    BY ControlsAreLikely DEF Likely, ControlType
  <1>2. c.rejected => Forbidden(c)
    BY DEF Forbidden
  <1>3. Worth(c) \in {5, 3, c.score}
    BY DEF Worth
  <1> QED
    BY <1>1, <1>2, <1>3

\* The worth of all comes from that of the first k, control by control: the fold by hand.
LEMMA WorthPrefixes ==
  ASSUME NEW cs \in Seq(Control)
  PROVE  \E P \in [0..Len(cs) -> Int] :
           /\ P[0] = 1 /\ \A k \in 1..Len(cs) : P[k] = P[k - 1] + Worth(cs[k])
           /\ Worths(cs) = P[Len(cs)]
  <1> DEFINE n == Len(cs)
             Right(iter) == iter = [s \in SUBSET (1..n) |->
                              IF s = {} THEN 1 ELSE iter[s \ {Max(s)}] + Worth(cs[Max(s)])]
             it == CHOOSE iter : Right(iter)
             step == [i \in 1..n |-> [sum \in Int |-> sum + Worth(cs[i])]]
             P == [k \in 0..n |-> it[1..k]]
  <1>1. n \in Nat /\ DOMAIN cs = 1..n /\ \A i \in 1..n : Worth(cs[i]) \in Int
    <2>1. n \in Nat /\ DOMAIN cs = 1..n /\ \A i \in 1..n : cs[i] \in Control
      OBVIOUS
    <2> QED
      BY <2>1, WorthFacts
  <1>2. Worths(cs) = it[1..n]
    BY <1>1 DEF Worths, FoldLeft, MapThenFoldSet
  <1> HIDE DEF n
  <1>3. \E iter : Right(iter)
    <2>1. step \in [1..n -> [Int -> Int]]
      BY <1>1
    <2> HIDE DEF step
    <2>2. PICK iter \in [SUBSET (1..n) -> Int] : Iterates(iter, n, 1, step)
      <3>1. n \in Nat /\ 1 \in Int
        BY <1>1
      <3> QED
        BY <2>1, <3>1, FoldExists
    <2>3. ASSUME NEW s \in SUBSET (1..n), s # {}
          PROVE  step[Max(s)][iter[s \ {Max(s)}]] = iter[s \ {Max(s)}] + Worth(cs[Max(s)])
      <3>1. Max(s) \in 1..n /\ s \ {Max(s)} \in SUBSET (1..n)
        BY <1>1, <2>3, MaxOfTop
      <3>2. iter[s \ {Max(s)}] \in Int
        BY <3>1
      <3> QED
        BY <3>1, <3>2 DEF step
    <2>4. Right(iter)
      BY <2>2, <2>3 DEF Iterates
    <2> QED
      BY <2>4
  <1>4. Right(it)
    BY <1>3
  <1> HIDE DEF it
  <1>5. it[{}] = 1 /\ 1..0 = {} /\ 0 \in 0..n /\ n \in 0..n
    BY <1>1, <1>4
  <1>6. ASSUME NEW k \in 1..n PROVE it[1..k] = it[1..k - 1] + Worth(cs[k])
    <2>1. /\ Max(1..k) = k /\ 1..k # {} /\ (1..k) \ {k} = 1..k - 1
          /\ 1..k \in SUBSET (1..n)
      BY <1>1, FirstPlaces
    <2> QED
      BY <1>4, <2>1
  <1> HIDE DEF Right
  <1>7. 0..n \subseteq {k \in 0..n : it[1..k] \in Int}
    <2> DEFINE T == {k \in 0..n : it[1..k] \in Int}
    <2>1. 0 \in T
      BY <1>5
    <2>2. ASSUME NEW k \in 1..n, k - 1 \in T PROVE k \in T
      BY <1>1, <1>6, <2>2
    <2> HIDE DEF T
    <2>3. 0..n \subseteq T
      BY <1>1, <2>1, <2>2, Upward
    <2> QED
      BY <2>3 DEF T
  <1>8. /\ P \in [0..n -> Int] /\ P[0] = 1 /\ Worths(cs) = P[n]
        /\ \A k \in 1..n : P[k] = P[k - 1] + Worth(cs[k])
    <2>1. \A k \in 1..n : k \in 0..n /\ k - 1 \in 0..n
      BY <1>1
    <2> QED
      BY <1>2, <1>5, <1>6, <1>7, <2>1
  <1> HIDE DEF P
  <1> QED
    BY <1>8 DEF n

LEMMA WorthOfNone == Worths(<<>>) = 1
  <1>1. <<>> \in Seq(Control) /\ Len(<<>>) = 0
    OBVIOUS
  <1> QED
    BY <1>1, WorthPrefixes

\* One more control adds its worth.
LEMMA WorthAppended ==
  ASSUME NEW cs \in Seq(Control), NEW c \in Control
  PROVE  Worths(Append(cs, c)) = Worths(cs) + Worth(c)
  <1> DEFINE n == Len(cs)
             more == Append(cs, c)
  <1>1. /\ n \in Nat /\ more \in Seq(Control) /\ Len(more) = n + 1 /\ more[n + 1] = c
        /\ \A k \in 1..n : more[k] = cs[k]
    OBVIOUS
  <1>2. PICK P \in [0..n -> Int] :
          /\ P[0] = 1 /\ \A k \in 1..n : P[k] = P[k - 1] + Worth(cs[k])
          /\ Worths(cs) = P[n]
    BY WorthPrefixes
  <1> HIDE DEF more
  <1>3. PICK Q \in [0..n + 1 -> Int] :
          /\ Q[0] = 1 /\ \A k \in 1..n + 1 : Q[k] = Q[k - 1] + Worth(more[k])
          /\ Worths(more) = Q[n + 1]
    BY <1>1, WorthPrefixes
  <1> HIDE DEF n
  <1> DEFINE T == {k \in 0..n : Q[k] = P[k]}
  <1>4. 0 \in T
    BY <1>1, <1>2, <1>3
  <1>5. ASSUME NEW k \in 1..n, k - 1 \in T PROVE k \in T
    <2>1. k \in 0..n /\ k \in 1..n + 1 /\ more[k] = cs[k] /\ Q[k - 1] = P[k - 1]
      BY <1>1, <1>5
    <2> QED
      BY <1>2, <1>3, <2>1
  <1> HIDE DEF T
  <1>6. 0..n \subseteq T
    BY <1>1, <1>4, <1>5, Upward
  <1>7. n \in T
    BY <1>1, <1>6
  <1>8. Q[n] = P[n]
    BY <1>7 DEF T
  <1>9. n + 1 \in 1..n + 1 /\ (n + 1) - 1 = n
    BY <1>1
  <1>10. Q[n + 1] = Q[n] + Worth(c)
    BY <1>1, <1>3, <1>9
  <1> QED
    BY <1>2, <1>3, <1>8, <1>10 DEF more

LEMMA WorthOfAllowed ==
  ASSUME NEW cs \in Seq(Control), \A i \in 1..Len(cs) : ~Forbidden(cs[i])
  PROVE  Worths(cs) >= 1
  <1> DEFINE n == Len(cs)
  <1>1. n \in Nat /\ \A i \in 1..n : cs[i] \in Control
    OBVIOUS
  <1>2. \A i \in 1..n : Worth(cs[i]) \in Int /\ Worth(cs[i]) >= 0
    BY <1>1, WorthFacts
  <1>3. PICK P \in [0..n -> Int] :
          /\ P[0] = 1 /\ \A k \in 1..n : P[k] = P[k - 1] + Worth(cs[k])
          /\ Worths(cs) = P[n]
    BY WorthPrefixes
  <1> HIDE DEF n
  <1> DEFINE T == {k \in 0..n : P[k] >= 1}
  <1>4. 0 \in T
    BY <1>1, <1>3
  <1>5. ASSUME NEW k \in 1..n, k - 1 \in T PROVE k \in T
    <2>1. k \in 0..n /\ k - 1 \in 0..n /\ P[k - 1] >= 1
      BY <1>1, <1>5
    <2>2. P[k] = P[k - 1] + Worth(cs[k]) /\ P[k - 1] \in Int
      BY <1>3, <2>1
    <2> QED
      BY <1>2, <2>1, <2>2
  <1> HIDE DEF T
  <1>6. 0..n \subseteq T
    BY <1>1, <1>4, <1>5, Upward
  <1>7. n \in T
    BY <1>1, <1>6
  <1> QED
    BY <1>3, <1>7 DEF T

----------------------------------------------------------------------------
(* The choice of a form: its fields                                        *)

\* The fields of a form. Each is made or moved by one control.
Field == [name : Name, from : Nat]

\* A checked radio button that is not an opt-in.
Pressed(c) == c.what = "radio" /\ ~Opts(c) /\ c.checked

Absent(list, name) == \A i \in 1..Len(list) : list[i].name # name

FirstOf(list, name, i) ==
  i \in 1..Len(list) /\ list[i].name = name /\ \A j \in 1..i - 1 : list[j].name # name

Full(list) == Len(list) >= MaxControls

\* What a control does to the fields: nothing, one more, or the first of its name is its own.
Kept(list, more, c) ==
  /\ more = list
  /\ Pressed(c) => Absent(list, c.name) /\ Full(list)
  /\ Offers(c) /\ c.what # "button" => Len(list) > 0

Made(list, more, c, from) ==
  /\ more = Append(list, [name |-> c.name, from |-> from])
  /\ ~Full(list) /\ Offers(c) /\ c.score >= 0 /\ c.name \in Name
  /\ c.what = "radio" => Absent(list, c.name)

Moved(list, more, c, from) ==
  /\ Pressed(c)
  /\ \E i \in 1..Len(list) :
       FirstOf(list, c.name, i) /\ more = [list EXCEPT ![i].from = from]

\* The field comes from a control of the form that offers it.
Origin(cs, field) ==
  /\ field.from \in 1..Len(cs)
  /\ LET c == cs[field.from] IN Offers(c) /\ c.score >= 0 /\ field.name = c.name

\* No later button of the group is checked, and none at all unless the field's own is.
LastPressed(cs, field) ==
  \A j \in 1..Len(cs) :
    Pressed(cs[j]) /\ cs[j].name = field.name => j <= field.from /\ cs[field.from].checked

\* The fields of a form whose controls were cs.
Care(list, cs) ==
  /\ list \in Seq(Field) /\ cs \in Seq(Control)
  /\ \A i \in 1..Len(list) : Origin(cs, list[i])
  /\ \A i \in 1..Len(list) :
       cs[list[i].from].what = "radio" =>
         FirstOf(list, list[i].name, i) /\ LastPressed(cs, list[i])
  /\ \A j \in 1..Len(cs) : Pressed(cs[j]) => Full(list) \/ ~Absent(list, cs[j].name)

LEMMA OneMoreControl ==
  ASSUME NEW cs \in Seq(Control), NEW c \in Control
  PROVE  LET all == Append(cs, c) IN
         /\ Len(cs) \in Nat /\ all \in Seq(Control) /\ Len(all) = Len(cs) + 1
         /\ all[Len(cs) + 1] = c /\ \A i \in 1..Len(cs) : all[i] = cs[i]
         /\ \A i \in 1..Len(cs) : i \in 1..Len(cs) + 1
         /\ \A i \in 1..Len(cs) + 1 : i \in 1..Len(cs) \/ i = Len(cs) + 1
  OBVIOUS

\* A field keeps its origin, and the last of its buttons unless c is a later one.
LEMMA FieldStays ==
  ASSUME NEW cs \in Seq(Control), NEW c \in Control, NEW field \in Field, Origin(cs, field)
  PROVE  LET all == Append(cs, c) IN
         /\ Origin(all, field) /\ all[field.from] = cs[field.from]
         /\ LastPressed(cs, field) /\ (Pressed(c) => c.name # field.name)
            => LastPressed(all, field)
  <1> DEFINE all == Append(cs, c)
             n == Len(cs)
  <1>1. /\ Len(all) = n + 1 /\ all[n + 1] = c /\ \A i \in 1..n : all[i] = cs[i]
        /\ \A i \in 1..n : i \in 1..n + 1
        /\ \A i \in 1..n + 1 : i \in 1..n \/ i = n + 1
    BY OneMoreControl
  <1> HIDE DEF all, n
  <1>2. field.from \in 1..n
    BY DEF Origin, n
  <1>3. all[field.from] = cs[field.from] /\ field.from \in 1..Len(all)
    BY <1>1, <1>2
  <1>4. Origin(all, field)
    BY <1>3 DEF Origin
  <1>5. ASSUME LastPressed(cs, field), Pressed(c) => c.name # field.name
        PROVE  LastPressed(all, field)
    BY <1>1, <1>3, <1>5 DEF LastPressed, n
  <1> QED
    BY <1>3, <1>4, <1>5 DEF all

LEMMA KeptCares ==
  ASSUME NEW list, NEW cs, Care(list, cs), NEW c \in Control, NEW more, Kept(list, more, c)
  PROVE  Care(more, Append(cs, c))
  <1> DEFINE all == Append(cs, c)
             n == Len(cs)
  <1>1. /\ cs \in Seq(Control) /\ list \in Seq(Field) /\ more = list
        /\ \A i \in 1..Len(list) : list[i] \in Field
    BY DEF Care, Kept
  <1>2. /\ all \in Seq(Control) /\ Len(all) = n + 1 /\ all[n + 1] = c
        /\ \A i \in 1..n : all[i] = cs[i]
        /\ \A i \in 1..n + 1 : i \in 1..n \/ i = n + 1
    BY <1>1, OneMoreControl
  <1>3. ASSUME NEW i \in 1..Len(list)
        PROVE  /\ Origin(all, list[i]) /\ all[list[i].from] = cs[list[i].from]
               /\ LastPressed(cs, list[i]) => LastPressed(all, list[i])
    <2>1. Origin(cs, list[i])
      BY DEF Care
    <2>2. Pressed(c) => c.name # list[i].name
      BY DEF Kept, Absent
    <2> HIDE DEF all
    <2> QED
      BY <1>1, <2>1, <2>2, FieldStays DEF all
  <1> HIDE DEF all, n
  <1>4. ASSUME NEW i \in 1..Len(list), all[list[i].from].what = "radio"
        PROVE  FirstOf(list, list[i].name, i) /\ LastPressed(all, list[i])
    BY <1>3, <1>4 DEF Care
  <1>5. ASSUME NEW j \in 1..Len(all), Pressed(all[j])
        PROVE  Full(list) \/ ~Absent(list, all[j].name)
    BY <1>2, <1>5 DEF Care, Kept, n
  <1> QED
    BY <1>1, <1>2, <1>3, <1>4, <1>5 DEF Care, all

LEMMA MadeCares ==
  ASSUME NEW list, NEW cs, Care(list, cs), NEW c \in Control, NEW more,
         Made(list, more, c, Len(cs) + 1)
  PROVE  Care(more, Append(cs, c))
  <1> DEFINE all == Append(cs, c)
             n == Len(cs)
             new == [name |-> c.name, from |-> n + 1]
             l == Len(list)
  <1>1. /\ cs \in Seq(Control) /\ list \in Seq(Field) /\ more = Append(list, new)
        /\ \A i \in 1..l : list[i] \in Field
    BY DEF Care, Made
  <1>2. /\ all \in Seq(Control) /\ Len(all) = n + 1 /\ all[n + 1] = c
        /\ \A i \in 1..n : all[i] = cs[i]
        /\ \A i \in 1..n + 1 : i \in 1..n \/ i = n + 1
        /\ n \in Nat
    BY <1>1, OneMoreControl
  <1>3. new \in Field /\ new.name = c.name /\ new.from = n + 1
    BY <1>2 DEF Made, Field
  <1> HIDE DEF new
  <1>4. /\ l \in Nat /\ more \in Seq(Field) /\ Len(more) = l + 1 /\ more[l + 1] = new
        /\ \A i \in 1..l : more[i] = list[i]
    BY <1>1, <1>3
  <1>5. /\ \A i \in 1..l + 1 : i \in 1..l \/ i = l + 1
        /\ \A i \in 1..l : i \in 1..l + 1 /\ \A j \in 1..i - 1 : j \in 1..l
        /\ (l + 1) - 1 = l /\ l + 1 \in 1..l + 1 /\ n + 1 \in 1..n + 1
        /\ \A j \in 1..n + 1 : j <= n + 1
    BY <1>2, <1>4
  <1>6. Origin(all, new)
    BY <1>2, <1>3, <1>5 DEF Origin, Made
  <1>7. ASSUME NEW i \in 1..l
        PROVE  /\ Origin(all, list[i]) /\ all[list[i].from] = cs[list[i].from]
               /\ cs[list[i].from].what = "radio" => LastPressed(all, list[i])
    <2>1. Origin(cs, list[i]) /\ list[i] \in Field
      BY <1>1 DEF Care
    <2>2. Pressed(c) => c.name # list[i].name
      BY DEF Made, Absent, Pressed
    <2>3. cs[list[i].from].what = "radio" => LastPressed(cs, list[i])
      BY DEF Care
    <2> HIDE DEF all, l
    <2> QED
      BY <1>1, <2>1, <2>2, <2>3, FieldStays DEF all
  <1> HIDE DEF all, n, l
  <1>8. ASSUME NEW i \in 1..l + 1 PROVE Origin(all, more[i])
    BY <1>4, <1>5, <1>6, <1>7
  <1>9. ASSUME NEW i \in 1..l + 1, all[more[i].from].what = "radio"
        PROVE  FirstOf(more, more[i].name, i) /\ LastPressed(all, more[i])
    <2>1. CASE i \in 1..l
      <3>1. more[i] = list[i] /\ cs[list[i].from].what = "radio"
        BY <1>4, <1>7, <1>9, <2>1
      <3>2. FirstOf(list, list[i].name, i)
        BY <2>1, <3>1 DEF Care, l
      <3>3. FirstOf(more, more[i].name, i)
        BY <1>4, <1>5, <2>1, <3>1, <3>2 DEF FirstOf
      <3> QED
        BY <1>7, <2>1, <3>1, <3>3
    <2>2. CASE i = l + 1
      <3>1. c.what = "radio" /\ more[i] = new
        BY <1>2, <1>3, <1>4, <1>9, <2>2
      <3>2. Absent(list, c.name)
        BY <3>1 DEF Made
      <3>3. FirstOf(more, more[i].name, i)
        BY <1>3, <1>4, <1>5, <2>2, <3>1, <3>2 DEF FirstOf, Absent, l
      <3>4. ASSUME NEW j \in 1..n + 1, Pressed(all[j]), all[j].name = new.name
            PROVE  j <= n + 1 /\ all[n + 1].checked
        <4>1. CASE j = n + 1
          BY <1>2, <1>5, <3>4, <4>1 DEF Pressed
        <4>2. CASE j \in 1..n
          <5>1. Pressed(cs[j]) /\ cs[j].name = c.name
            BY <1>2, <1>3, <3>4, <4>2
          <5>2. Full(list) \/ ~Absent(list, cs[j].name)
            BY <4>2, <5>1 DEF Care, n
          <5> QED
            BY <3>2, <5>1, <5>2 DEF Made
        <4> QED
          BY <1>2, <4>1, <4>2
      <3> QED
        BY <1>2, <1>3, <3>1, <3>3, <3>4 DEF LastPressed
    <2> QED
      BY <1>5, <2>1, <2>2
  <1>10. ASSUME NEW j \in 1..n + 1, Pressed(all[j])
         PROVE  Full(more) \/ ~Absent(more, all[j].name)
    <2>1. CASE j = n + 1
      <3>1. more[l + 1].name = all[j].name
        BY <1>2, <1>3, <1>4, <2>1
      <3> QED
        BY <1>4, <1>5, <3>1 DEF Absent
    <2>2. CASE j \in 1..n
      <3>1. ~Absent(list, cs[j].name)
        BY <1>2, <1>10, <2>2 DEF Care, Made, n
      <3>2. ~Absent(more, cs[j].name)
        BY <1>4, <1>5, <3>1 DEF Absent, l
      <3> QED
        BY <1>2, <2>2, <3>2
    <2> QED
      BY <1>2, <2>1, <2>2
  <1> QED
    BY <1>2, <1>4, <1>8, <1>9, <1>10 DEF Care, all

LEMMA MovedCares ==
  ASSUME NEW list, NEW cs, Care(list, cs), NEW c \in Control, NEW more,
         Moved(list, more, c, Len(cs) + 1)
  PROVE  Care(more, Append(cs, c))
  <1> DEFINE all == Append(cs, c)
             n == Len(cs)
             l == Len(list)
  <1>1. PICK place \in 1..l :
          FirstOf(list, c.name, place) /\ more = [list EXCEPT ![place].from = n + 1]
    BY DEF Moved
  <1>2. /\ cs \in Seq(Control) /\ list \in Seq(Field) /\ l \in Nat
        /\ \A i \in 1..l : list[i] \in Field
    BY DEF Care
  <1>3. /\ all \in Seq(Control) /\ Len(all) = n + 1 /\ all[n + 1] = c
        /\ \A i \in 1..n : all[i] = cs[i]
        /\ \A i \in 1..n + 1 : i \in 1..n \/ i = n + 1
        /\ n \in Nat
    BY <1>2, OneMoreControl
  <1> DEFINE new == [list[place] EXCEPT !.from = n + 1]
  <1>4. new \in Field /\ new.name = list[place].name /\ new.from = n + 1
    BY <1>2, <1>3 DEF Field
  <1>5. more = [list EXCEPT ![place] = new]
    BY <1>1
  <1> HIDE DEF new
  <1>6. /\ more \in Seq(Field) /\ Len(more) = l /\ more[place] = new
        /\ \A i \in 1..l : i # place => more[i] = list[i]
    BY <1>2, <1>4, <1>5
  <1>7. c.score >= 0 /\ Offers(c) /\ c.what = "radio" /\ c.checked
    <2>1. Pressed(c)
      BY DEF Moved
    <2>2. c.what = "radio" /\ ~Opts(c) /\ c.checked
      BY <2>1 DEF Pressed
    <2>3. c.score = 0
      BY <2>2, ControlsAreLikely DEF Likely
    <2>4. Offers(c)
      BY <2>2 DEF Offers
    <2> QED
      BY <2>2, <2>3, <2>4
  <1>8. list[place].name = c.name /\ \A j \in 1..place - 1 : list[j].name # c.name
    BY <1>1 DEF FirstOf
  <1>9. n + 1 \in 1..n + 1 /\ \A j \in 1..n + 1 : j <= n + 1
    BY <1>3
  <1>10. Origin(all, new)
    BY <1>3, <1>4, <1>7, <1>8, <1>9 DEF Origin
  <1>11. ASSUME NEW i \in 1..l
         PROVE  /\ Origin(all, list[i]) /\ all[list[i].from] = cs[list[i].from]
                /\ LastPressed(cs, list[i]) /\ c.name # list[i].name
                   => LastPressed(all, list[i])
    <2>1. Origin(cs, list[i]) /\ list[i] \in Field
      BY <1>2 DEF Care
    <2> HIDE DEF all, l
    <2> QED
      BY <1>2, <2>1, FieldStays DEF all
  <1> HIDE DEF all, n, l
  <1>12. ASSUME NEW i \in 1..l PROVE Origin(all, more[i])
    BY <1>6, <1>10, <1>11
  <1>13. \A i \in 1..l : more[i].name = list[i].name
    BY <1>4, <1>6
  <1>14. ASSUME NEW i \in 1..l, FirstOf(list, list[i].name, i)
         PROVE  FirstOf(more, more[i].name, i)
    <2>1. \A j \in 1..i - 1 : j \in 1..l
      BY <1>2
    <2> QED
      BY <1>6, <1>13, <1>14, <2>1 DEF FirstOf, l
  <1>15. ASSUME NEW i \in 1..l, all[more[i].from].what = "radio"
         PROVE  FirstOf(more, more[i].name, i) /\ LastPressed(all, more[i])
    <2>1. CASE i = place
      <3>1. FirstOf(more, more[i].name, i)
        BY <1>1, <1>8, <1>14, <2>1
      <3>2. LastPressed(all, new)
        BY <1>3, <1>4, <1>7, <1>9 DEF LastPressed
      <3> QED
        BY <1>6, <2>1, <3>1, <3>2
    <2>2. CASE i # place
      <3>1. more[i] = list[i] /\ cs[list[i].from].what = "radio"
        BY <1>6, <1>11, <1>15, <2>2
      <3>2. FirstOf(list, list[i].name, i) /\ LastPressed(cs, list[i])
        BY <3>1 DEF Care, l
      <3>3. c.name # list[i].name
        <4>1. i \in 1..place - 1 \/ place \in 1..i - 1
          BY <1>2, <2>2
        <4> QED
          BY <1>8, <3>2, <4>1 DEF FirstOf
      <3> QED
        BY <1>11, <1>14, <3>1, <3>2, <3>3
    <2> QED
      BY <2>1, <2>2
  <1>16. \A name : Absent(more, name) => Absent(list, name)
    BY <1>6, <1>13 DEF Absent, l
  <1>17. ASSUME NEW j \in 1..n + 1, Pressed(all[j])
         PROVE  Full(more) \/ ~Absent(more, all[j].name)
    <2>1. CASE j = n + 1
      BY <1>3, <1>8, <1>16, <2>1 DEF Absent, l
    <2>2. CASE j \in 1..n
      <3>1. Full(list) \/ ~Absent(list, cs[j].name)
        BY <1>3, <1>17, <2>2 DEF Care, n
      <3> QED
        BY <1>3, <1>6, <1>16, <2>2, <3>1 DEF Full, l
    <2> QED
      BY <1>3, <2>1, <2>2
  <1> QED
    BY <1>3, <1>6, <1>12, <1>15, <1>17 DEF Care, all

----------------------------------------------------------------------------
(* The choice of a form: findField, addField and recordControl             *)

\* findField: the first of the name, or 0.
LEMMA FindFacts ==
  ASSUME NEW k, k.fields \in Seq(Field), NEW name
  PROVE  LET place == findField(k, name) IN
         \/ place = 0 /\ Absent(k.fields, name)
         \/ place > 0 /\ FirstOf(k.fields, name, place)
  <1> DEFINE list == k.fields
             n == Len(list)
             those == {i \in 1..n : list[i].name = name}
             place == findField(k, name)
  <1>1. n \in Nat /\ DOMAIN list = 1..n
    OBVIOUS
  <1>2. place = IF those # {} THEN Min(those) ELSE 0
    BY <1>1 DEF findField, SelectInSeq
  <1>3. those \in SUBSET (0..n)
    BY <1>1
  <1>4. those = {} => Absent(list, name)
    BY DEF Absent
  <1>5. ASSUME place \in those, \A i \in those : place <= i
        PROVE  place > 0 /\ FirstOf(list, name, place)
    <2> HIDE DEF place
    <2>1. place \in 1..n /\ list[place].name = name
      BY <1>5
    <2>2. ASSUME NEW i \in 1..place - 1 PROVE list[i].name # name
      <3>1. i \in 1..n /\ ~(place <= i)
        BY <1>1, <2>1
      <3> QED
        BY <1>5, <3>1
    <2>3. place > 0
      BY <2>1
    <2> HIDE DEF list, n
    <2> QED
      BY <2>1, <2>2, <2>3 DEF FirstOf, n
  <1> HIDE DEF place, those
  <1>6. those # {} => place \in those /\ \A i \in those : place <= i
    BY <1>1, <1>2, <1>3, MinFacts
  <1> HIDE DEF list
  <1> QED
    BY <1>2, <1>4, <1>5, <1>6 DEF place, list

\* The open form as finalizeCandidate finds it.
FormType ==
  [open : BOOLEAN, blocked : BOOLEAN, tainted : BOOLEAN, elsewhere : BOOLEAN,
   hasSubmit : BOOLEAN, controlCount : Nat, score : Int, fields : Seq(Field)]

\* What neither a control nor a field of it changes.
SameForm(k, m) ==
  /\ m \in FormType
  /\ (m.open <=> k.open) /\ (m.tainted <=> k.tainted) /\ (m.elsewhere <=> k.elsewhere)

SameCounts(k, m) ==
  (m.hasSubmit <=> k.hasSubmit) /\ m.controlCount = k.controlCount /\ m.score = k.score

WithField(k, name) ==
  [k EXCEPT !.fields = Append(@, [name |-> name, from |-> Len(seen.controls) + 1])]

Extends(k, m, name) ==
  /\ SameForm(k, m) /\ SameCounts(k, m) /\ (m.blocked <=> k.blocked)
  /\ m.fields = Append(k.fields, [name |-> name, from |-> Len(seen.controls) + 1])

WithLater(k, i) == [k EXCEPT !.fields[i].from = Len(seen.controls) + 1]

LEMMA BlockedFacts ==
  ASSUME NEW k \in FormType, NEW more \in BOOLEAN
  PROVE  LET m == [k EXCEPT !.blocked = @ \/ more] IN
         /\ SameForm(k, m) /\ SameCounts(k, m) /\ m.fields = k.fields
         /\ m.blocked <=> k.blocked \/ more
  <1> DEFINE m == [k EXCEPT !.blocked = @ \/ more]
  <1>1. k.blocked \/ more \in BOOLEAN
    BY DEF FormType
  <1>2. m \in FormType
    BY <1>1 DEF FormType
  <1>3. /\ m.open = k.open /\ m.tainted = k.tainted /\ m.elsewhere = k.elsewhere
        /\ m.hasSubmit = k.hasSubmit /\ m.controlCount = k.controlCount
        /\ m.score = k.score /\ m.fields = k.fields
        /\ m.blocked = (k.blocked \/ more)
    BY DEF FormType
  <1> HIDE DEF m
  <1> QED
    BY <1>2, <1>3 DEF SameForm, SameCounts, m

LEMMA BlockedForGood ==
  ASSUME NEW k \in FormType
  PROVE  LET m == [k EXCEPT !.blocked = TRUE] IN
         /\ SameForm(k, m) /\ SameCounts(k, m) /\ m.fields = k.fields /\ m.blocked
  <1> DEFINE m == [k EXCEPT !.blocked = TRUE]
  <1>1. m \in FormType
    BY DEF FormType
  <1>2. /\ m.open = k.open /\ m.tainted = k.tainted /\ m.elsewhere = k.elsewhere
        /\ m.hasSubmit = k.hasSubmit /\ m.controlCount = k.controlCount
        /\ m.score = k.score /\ m.fields = k.fields /\ m.blocked
    BY DEF FormType
  <1> HIDE DEF m
  <1> QED
    BY <1>1, <1>2 DEF SameForm, SameCounts, m

LEMMA AppendedFacts ==
  ASSUME NEW k \in FormType, NEW name \in Name, seen.controls \in Seq(Control)
  PROVE  Extends(k, WithField(k, name), name)
  <1> DEFINE new == [name |-> name, from |-> Len(seen.controls) + 1]
             more == Append(k.fields, new)
             m == [k EXCEPT !.fields = more]
  <1>1. Len(seen.controls) + 1 \in Nat
    OBVIOUS
  <1>2. new \in Field
    BY <1>1 DEF Field
  <1> HIDE DEF new
  <1>3. k.fields \in Seq(Field)
    BY DEF FormType
  <1>4. more \in Seq(Field)
    BY <1>2, <1>3
  <1> HIDE DEF more
  <1>5. m \in FormType
    BY <1>4 DEF FormType
  <1>6. /\ m.open = k.open /\ m.tainted = k.tainted /\ m.elsewhere = k.elsewhere
        /\ m.hasSubmit = k.hasSubmit /\ m.controlCount = k.controlCount
        /\ m.score = k.score /\ m.fields = more /\ m.blocked = k.blocked
    BY DEF FormType
  <1>7. WithField(k, name) = m
    BY DEF WithField, more, new
  <1> HIDE DEF m
  <1> QED
    BY <1>5, <1>6, <1>7 DEF Extends, SameForm, SameCounts, more, new

LEMMA ReplacedFacts ==
  ASSUME NEW k \in FormType, NEW i \in 1..Len(k.fields), seen.controls \in Seq(Control)
  PROVE  LET m == WithLater(k, i) IN
         /\ SameForm(k, m) /\ SameCounts(k, m) /\ (m.blocked <=> k.blocked)
         /\ m.fields = [k.fields EXCEPT ![i].from = Len(seen.controls) + 1]
  <1> DEFINE from == Len(seen.controls) + 1
             more == [k.fields EXCEPT ![i].from = from]
             m == [k EXCEPT !.fields = more]
  <1>1. from \in Nat
    OBVIOUS
  <1> HIDE DEF from
  <1>2. k.fields \in Seq(Field)
    BY DEF FormType
  <1>3. more \in Seq(Field)
    <2> DEFINE new == [k.fields[i] EXCEPT !.from = from]
    <2>1. k.fields[i] \in Field
      BY <1>2
    <2>2. new \in Field
      BY <1>1, <2>1 DEF Field
    <2>3. more = [k.fields EXCEPT ![i] = new]
      OBVIOUS
    <2> HIDE DEF new, more
    <2> QED
      BY <1>2, <2>2, <2>3
  <1>4. WithLater(k, i) = m
    BY DEF WithLater, from
  <1> HIDE DEF more
  <1>5. m \in FormType
    BY <1>3 DEF FormType
  <1>6. /\ m.open = k.open /\ m.tainted = k.tainted /\ m.elsewhere = k.elsewhere
        /\ m.hasSubmit = k.hasSubmit /\ m.controlCount = k.controlCount
        /\ m.score = k.score /\ m.fields = more /\ m.blocked = k.blocked
    BY DEF FormType
  <1> HIDE DEF m
  <1> QED
    BY <1>5, <1>6, <1>4 DEF SameForm, SameCounts, more, from

\* m is k with another score and nothing else.
ScoreFacts(k, m, gain) ==
  /\ SameForm(k, m) /\ (m.hasSubmit <=> k.hasSubmit) /\ m.controlCount = k.controlCount
  /\ m.score = k.score + gain /\ m.fields = k.fields /\ (m.blocked <=> k.blocked)

LEMMA ScoredFacts ==
  ASSUME NEW k \in FormType, NEW gain \in Int
  PROVE  ScoreFacts(k, [k EXCEPT !.score = @ + gain], gain)
  <1> DEFINE m == [k EXCEPT !.score = @ + gain]
  <1>1. k.score + gain \in Int
    BY DEF FormType
  <1>2. m \in FormType
    BY <1>1 DEF FormType
  <1>3. /\ m.open = k.open /\ m.tainted = k.tainted /\ m.elsewhere = k.elsewhere
        /\ m.hasSubmit = k.hasSubmit /\ m.controlCount = k.controlCount
        /\ m.fields = k.fields /\ m.blocked = k.blocked
    BY DEF FormType
  <1>4. m.score = k.score + gain
    BY DEF FormType
  <1> HIDE DEF m
  <1> QED
    BY <1>2, <1>3, <1>4 DEF ScoreFacts, SameForm, m

LEMMA RecordFacts ==
  ASSUME NEW k \in FormType
  PROVE  LET m == recordControl(k) IN
         /\ SameForm(k, m) /\ (m.hasSubmit <=> k.hasSubmit) /\ m.score = k.score
         /\ m.fields = k.fields
         /\ m.controlCount = IF k.controlCount >= MaxControls THEN k.controlCount
                             ELSE k.controlCount + 1
         /\ m.blocked <=> k.blocked \/ k.controlCount >= MaxControls
  <1>1. CASE k.controlCount >= MaxControls
    BY <1>1, BlockedForGood DEF recordControl, SameCounts
  <1>2. CASE ~(k.controlCount >= MaxControls)
    <2> DEFINE m == [k EXCEPT !.controlCount = @ + 1]
    <2>1. k.controlCount + 1 \in Nat
      BY DEF FormType
    <2>2. m \in FormType
      BY <2>1 DEF FormType
    <2>3. /\ m.open = k.open /\ m.tainted = k.tainted /\ m.elsewhere = k.elsewhere
          /\ m.hasSubmit = k.hasSubmit /\ m.score = k.score
          /\ m.fields = k.fields /\ m.blocked = k.blocked
      BY DEF FormType
    <2>4. m.controlCount = k.controlCount + 1
      BY DEF FormType
    <2>5. recordControl(k) = m
      BY <1>2 DEF recordControl
    <2> HIDE DEF m
    <2> QED
      BY <1>2, <2>2, <2>3, <2>4, <2>5 DEF SameForm
  <1> QED
    BY <1>1, <1>2

----------------------------------------------------------------------------
(* The choice of a form: the handling of a control                         *)

\* addField makes a field, or finds no room for it and blocks the form.
Grew(k, m, name) ==
  \/ Full(k.fields) /\ m.fields = k.fields /\ m.blocked
  \/ /\ ~Full(k.fields) /\ (m.blocked <=> k.blocked)
     /\ m.fields = Append(k.fields, [name |-> name, from |-> Len(seen.controls) + 1])

LEMMA FieldGrows ==
  ASSUME NEW k \in FormType, NEW name \in Name, seen.controls \in Seq(Control),
         NEW m, m = IF Len(k.fields) >= MaxControls THEN [k EXCEPT !.blocked = TRUE]
                    ELSE WithField(k, name)
  PROVE  SameForm(k, m) /\ SameCounts(k, m) /\ Grew(k, m, name)
  <1>1. CASE Full(k.fields)
    <2>1. m = [k EXCEPT !.blocked = TRUE]
      BY <1>1 DEF Full
    <2> QED
      BY <1>1, <2>1, BlockedForGood DEF Grew
  <1>2. CASE ~Full(k.fields)
    <2>1. m = WithField(k, name)
      BY <1>2 DEF Full
    <2>2. Extends(k, m, name)
      BY <2>1, AppendedFacts
    <2> QED
      BY <1>2, <2>2 DEF Grew, Extends
  <1> QED
    BY <1>1, <1>2

LEMMA FieldAdded ==
  ASSUME NEW k \in FormType, NEW name \in Name, seen.controls \in Seq(Control)
  PROVE  LET m == addField(k, name, FALSE) IN
         SameForm(k, m) /\ SameCounts(k, m) /\ Grew(k, m, name)
  <1> DEFINE m == addField(k, name, FALSE)
  <1>1. m = IF Len(k.fields) >= MaxControls THEN [k EXCEPT !.blocked = TRUE]
            ELSE WithField(k, name)
    BY DEF addField, WithField
  <1> HIDE DEF m
  <1> QED
    BY <1>1, FieldGrows DEF m

LEMMA FieldReplaced ==
  ASSUME NEW k \in FormType, NEW name \in Name, NEW replace \in BOOLEAN,
         seen.controls \in Seq(Control)
  PROVE  LET m == addField(k, name, replace) IN
         /\ SameForm(k, m) /\ SameCounts(k, m)
         /\ ~(replace /\ findField(k, name) > 0) => Grew(k, m, name)
         /\ replace /\ findField(k, name) > 0 =>
              /\ m.blocked <=> k.blocked
              /\ m.fields = [k.fields EXCEPT ![findField(k, name)].from
                               = Len(seen.controls) + 1]
  <1> DEFINE m == addField(k, name, replace)
             place == findField(k, name)
  <1>1. CASE replace /\ place > 0
    <2>1. m = WithLater(k, place)
      BY <1>1 DEF addField, WithLater
    <2>2. place \in 1..Len(k.fields)
      <3>1. k.fields \in Seq(Field)
        BY DEF FormType
      <3> HIDE DEF place
      <3> QED
        BY <1>1, <3>1, FindFacts DEF FirstOf, place
    <2> HIDE DEF m, place
    <2>3. /\ SameForm(k, m) /\ SameCounts(k, m) /\ (m.blocked <=> k.blocked)
          /\ m.fields = [k.fields EXCEPT ![place].from = Len(seen.controls) + 1]
      BY <2>1, <2>2, ReplacedFacts
    <2> QED
      BY <1>1, <2>3 DEF m, place
  <1>2. CASE ~(replace /\ place > 0)
    <2>1. m = IF Len(k.fields) >= MaxControls THEN [k EXCEPT !.blocked = TRUE]
              ELSE WithField(k, name)
      BY <1>2 DEF addField, WithField
    <2> HIDE DEF m
    <2> QED
      BY <1>2, <2>1, FieldGrows DEF m
  <1> QED
    BY <1>1, <1>2

FieldsMove(list, more, c) ==
  \/ Kept(list, more, c)
  \/ Made(list, more, c, Len(seen.controls) + 1)
  \/ Moved(list, more, c, Len(seen.controls) + 1)

\* What the handling of a control does to the form that has counted it.
Took(k, m, c) ==
  /\ SameForm(k, m) /\ m.controlCount = k.controlCount
  /\ m.hasSubmit <=> k.hasSubmit \/ c.what = "button"
  /\ m.score = k.score + Worth(c)
  /\ k.blocked \/ Forbidden(c) => m.blocked
  /\ m.blocked => k.blocked \/ Forbidden(c) \/ Full(k.fields)
  /\ FieldsMove(k.fields, m.fields, c)

LEMMA GrewMoves ==
  ASSUME NEW k \in FormType, NEW c \in Control, c.name \in Name, NEW m, Grew(k, m, c.name),
         Offers(c), c.score >= 0, c.what = "radio" => Absent(k.fields, c.name)
  PROVE  FieldsMove(k.fields, m.fields, c)
  <1>1. CASE Full(k.fields)
    <2>1. m.fields = k.fields
      BY <1>1 DEF Grew
    <2>2. Len(k.fields) > 0
      <3>1. Len(k.fields) \in Nat /\ MaxControls \in Nat \ {0}
        BY FormAssumption DEF FormType
      <3> QED
        BY <1>1, <3>1 DEF Full
    <2>3. Pressed(c) => c.what = "radio"
      BY DEF Pressed
    <2> QED
      BY <1>1, <2>1, <2>2, <2>3 DEF Kept, FieldsMove
  <1>2. CASE ~Full(k.fields)
    BY <1>2 DEF Grew, Made, FieldsMove
  <1> QED
    BY <1>1, <1>2

\* A control without a field: an opt-in, a box or text nobody can answer, a button.
LEMMA IdleMoves ==
  ASSUME NEW list, NEW c, ~Offers(c) \/ c.what = "button", ~Pressed(c)
  PROVE  FieldsMove(list, list, c)
  BY DEF FieldsMove, Kept

LEMMA TakenSimple ==
  ASSUME NEW k \in FormType, NEW c \in Control, seen.controls \in Seq(Control),
         c.what \in {"hidden", "select", "textarea"}
  PROVE  Took(k, Taken(k, c), c)
  <1> DEFINE m == addField(k, c.name, FALSE)
  <1>1. c.name \in Name /\ c.score = 0 /\ ~c.rejected /\ ~c.required
    BY ControlsAreLikely DEF Likely
  <1>2. Offers(c) /\ ~Forbidden(c) /\ Worth(c) = 0 /\ ~Pressed(c)
    BY <1>1 DEF Offers, Forbidden, Worth, Pressed, Opts
  <1>3. Taken(k, c) = m
    BY DEF Taken
  <1>4. SameForm(k, m) /\ SameCounts(k, m) /\ Grew(k, m, c.name)
    BY <1>1, FieldAdded
  <1> HIDE DEF m
  <1>5. FieldsMove(k.fields, m.fields, c)
    BY <1>1, <1>2, <1>4, GrewMoves
  <1>6. m.score = k.score + Worth(c)
    BY <1>2, <1>4 DEF SameCounts, FormType
  <1>7. c.what # "button"
    OBVIOUS
  <1>8. /\ k.blocked \/ Forbidden(c) => m.blocked
        /\ m.blocked => k.blocked \/ Forbidden(c) \/ Full(k.fields)
    BY <1>2, <1>4 DEF Grew
  <1> QED
    BY <1>3, <1>4, <1>5, <1>6, <1>7, <1>8 DEF Took, SameCounts

LEMMA TakenRefused ==
  ASSUME NEW k \in FormType, NEW c \in Control, c.what = "refused"
  PROVE  Took(k, Taken(k, c), c)
  <1> DEFINE m == [k EXCEPT !.blocked = TRUE]
  <1>1. c.score = 0
    BY ControlsAreLikely DEF Likely
  <1>2. ~Offers(c) /\ Forbidden(c) /\ Worth(c) = 0 /\ ~Pressed(c) /\ c.what # "button"
    BY <1>1 DEF Offers, Forbidden, Worth, Pressed, Opts
  <1>3. Taken(k, c) = m
    BY DEF Taken
  <1>4. SameForm(k, m) /\ SameCounts(k, m) /\ m.fields = k.fields /\ m.blocked
    BY BlockedForGood
  <1> HIDE DEF m
  <1>5. FieldsMove(k.fields, m.fields, c)
    BY <1>2, <1>4, IdleMoves
  <1>6. m.score = k.score + Worth(c)
    BY <1>2, <1>4 DEF SameCounts, FormType
  <1> QED
    BY <1>2, <1>3, <1>4, <1>5, <1>6 DEF Took, SameCounts

LEMMA TakenInert ==
  ASSUME NEW k \in FormType, NEW c \in Control, c.what = "inert"
  PROVE  Took(k, Taken(k, c), c)
  <1>1. c.score = 0 /\ ~c.rejected /\ ~c.required
    BY ControlsAreLikely DEF Likely
  <1>2. ~Offers(c) /\ ~Forbidden(c) /\ Worth(c) = 0 /\ ~Pressed(c) /\ c.what # "button"
    BY <1>1 DEF Offers, Forbidden, Worth, Pressed, Opts
  <1>3. Taken(k, c) = k
    BY DEF Taken
  <1>4. SameForm(k, k)
    BY DEF SameForm
  <1>5. FieldsMove(k.fields, k.fields, c)
    BY <1>2, IdleMoves
  <1>6. k.score = k.score + Worth(c)
    BY <1>2 DEF FormType
  <1> QED
    BY <1>2, <1>3, <1>4, <1>5, <1>6 DEF Took

LEMMA TakenText ==
  ASSUME NEW k \in FormType, NEW c \in Control, seen.controls \in Seq(Control),
         c.what = "text"
  PROVE  Took(k, Taken(k, c), c)
  <1>1. /\ c.name \in Name /\ c.score = 0 /\ ~c.rejected /\ c.what # "button"
        /\ ~Forbidden(c) /\ ~Pressed(c)
    <2>1. c.name \in Name /\ c.score = 0 /\ ~c.rejected
      BY ControlsAreLikely DEF Likely
    <2> QED
      BY <2>1 DEF Forbidden, Pressed, Opts
  <1>2. CASE c.meaning = "known" \/ c.required
    <2> DEFINE r == addField(k, c.name, FALSE)
               m == [r EXCEPT !.score = @ + 3]
    <2>1. Offers(c) /\ Worth(c) = 3
      BY <1>2 DEF Offers, Worth
    <2>2. Taken(k, c) = m
      BY <1>2 DEF Taken, TextField
    <2>3. SameForm(k, r) /\ SameCounts(k, r) /\ Grew(k, r, c.name)
      BY <1>1, FieldAdded
    <2> HIDE DEF r
    <2>4. ScoreFacts(r, m, 3)
      BY <2>3, ScoredFacts DEF SameForm
    <2> HIDE DEF m
    <2>5. FieldsMove(k.fields, r.fields, c)
      BY <1>1, <2>1, <2>3, GrewMoves
    <2>6. FieldsMove(k.fields, m.fields, c)
      BY <2>4, <2>5 DEF ScoreFacts
    <2>7. m.score = k.score + Worth(c)
      BY <2>1, <2>3, <2>4 DEF SameCounts, ScoreFacts
    <2>8. /\ k.blocked \/ Forbidden(c) => m.blocked
          /\ m.blocked => k.blocked \/ Forbidden(c) \/ Full(k.fields)
      BY <1>1, <2>3, <2>4 DEF Grew, ScoreFacts
    <2>9. SameForm(k, m)
      BY <2>3, <2>4 DEF SameForm, ScoreFacts
    <2>10. /\ m.hasSubmit <=> k.hasSubmit \/ c.what = "button"
           /\ m.controlCount = k.controlCount
      BY <1>1, <2>3, <2>4 DEF SameCounts, ScoreFacts
    <2> QED
      BY <2>2, <2>6, <2>7, <2>8, <2>9, <2>10 DEF Took
  <1>3. CASE ~(c.meaning = "known" \/ c.required)
    <2>1. ~Offers(c) /\ Worth(c) = 0
      BY <1>1, <1>3 DEF Offers, Worth
    <2>2. Taken(k, c) = k
      BY <1>3 DEF Taken, TextField
    <2>3. SameForm(k, k)
      BY DEF SameForm
    <2>4. FieldsMove(k.fields, k.fields, c)
      BY <1>1, <2>1, IdleMoves
    <2>5. k.score = k.score + Worth(c)
      BY <2>1 DEF FormType
    <2> QED
      BY <1>1, <2>2, <2>3, <2>4, <2>5 DEF Took
  <1> QED
    BY <1>2, <1>3

\* A choice the clock does not make, unless the portal demands it.
LEMMA TakenRefusal ==
  ASSUME NEW k \in FormType, NEW c \in Control, c.what \in {"checkbox", "radio"},
         ~Offers(c), NEW m, m = [k EXCEPT !.blocked = @ \/ c.required]
  PROVE  Took(k, m, c)
  <1>1. c.score = 0 /\ ~c.rejected /\ c.required \in BOOLEAN /\ c.what # "button"
    BY ControlsAreLikely DEF Likely, ControlType
  <1>2. Worth(c) = 0 /\ ~Pressed(c)
    BY <1>1 DEF Offers, Worth, Pressed, Opts
  <1>3. Forbidden(c) <=> c.required
    <2>1. CASE c.what = "checkbox"
      <3>1. c.meaning \in {"terms", "opt-in", "unknown"} /\ c.meaning # "terms"
        BY <2>1, ControlsAreLikely DEF Likely, Offers
      <3> QED
        BY <1>1, <2>1, <3>1 DEF Forbidden, Opts
    <2>2. CASE c.what = "radio"
      BY <1>1, <2>2 DEF Forbidden, Offers, Opts
    <2> QED
      BY <2>1, <2>2
  <1>4. /\ SameForm(k, m) /\ SameCounts(k, m) /\ m.fields = k.fields
        /\ m.blocked <=> k.blocked \/ c.required
    BY <1>1, BlockedFacts
  <1>5. FieldsMove(k.fields, m.fields, c)
    BY <1>2, <1>4, IdleMoves
  <1>6. m.score = k.score + Worth(c)
    BY <1>2, <1>4 DEF SameCounts, FormType
  <1> QED
    BY <1>1, <1>3, <1>4, <1>5, <1>6 DEF Took, SameCounts

LEMMA TakenCheckbox ==
  ASSUME NEW k \in FormType, NEW c \in Control, seen.controls \in Seq(Control),
         c.what = "checkbox"
  PROVE  Took(k, Taken(k, c), c)
  <1>1. c.name \in Name /\ c.score = 0 /\ ~c.rejected /\ c.what # "button"
    BY ControlsAreLikely DEF Likely
  <1>2. CASE c.meaning = "terms"
    <2> DEFINE r == addField(k, c.name, FALSE)
               m == [r EXCEPT !.score = @ + 5]
    <2>1. Offers(c) /\ Worth(c) = 5 /\ ~Forbidden(c) /\ ~Pressed(c)
      BY <1>1, <1>2 DEF Offers, Worth, Forbidden, Opts, Pressed
    <2>2. Taken(k, c) = m
      BY <1>2 DEF Taken, Checkbox
    <2>3. SameForm(k, r) /\ SameCounts(k, r) /\ Grew(k, r, c.name)
      BY <1>1, FieldAdded
    <2> HIDE DEF r
    <2>4. ScoreFacts(r, m, 5)
      BY <2>3, ScoredFacts DEF SameForm
    <2> HIDE DEF m
    <2>5. FieldsMove(k.fields, r.fields, c)
      BY <1>1, <2>1, <2>3, GrewMoves
    <2>6. FieldsMove(k.fields, m.fields, c)
      BY <2>4, <2>5 DEF ScoreFacts
    <2>7. m.score = k.score + Worth(c)
      BY <2>1, <2>3, <2>4 DEF SameCounts, ScoreFacts
    <2>8. /\ k.blocked \/ Forbidden(c) => m.blocked
          /\ m.blocked => k.blocked \/ Forbidden(c) \/ Full(k.fields)
      BY <2>1, <2>3, <2>4 DEF Grew, ScoreFacts
    <2>9. SameForm(k, m)
      BY <2>3, <2>4 DEF SameForm, ScoreFacts
    <2>10. /\ m.hasSubmit <=> k.hasSubmit \/ c.what = "button"
           /\ m.controlCount = k.controlCount
      BY <1>1, <2>3, <2>4 DEF SameCounts, ScoreFacts
    <2> QED
      BY <2>2, <2>6, <2>7, <2>8, <2>9, <2>10 DEF Took
  <1>3. CASE c.meaning # "terms"
    <2>1. ~Offers(c)
      BY <1>3 DEF Offers
    <2>2. Taken(k, c) = [k EXCEPT !.blocked = @ \/ c.required]
      BY <1>3 DEF Taken, Checkbox
    <2> QED
      BY <2>1, <2>2, TakenRefusal
  <1> QED
    BY <1>2, <1>3

LEMMA TakenRadio ==
  ASSUME NEW k \in FormType, NEW c \in Control, seen.controls \in Seq(Control),
         c.what = "radio"
  PROVE  Took(k, Taken(k, c), c)
  <1>1. c.name \in Name /\ c.score = 0 /\ ~c.rejected /\ c.what # "button"
        /\ c.checked \in BOOLEAN
    BY ControlsAreLikely DEF Likely, ControlType
  <1>2. CASE c.meaning = "opt-in"
    <2>1. ~Offers(c)
      BY <1>2 DEF Offers, Opts
    <2>2. Taken(k, c) = [k EXCEPT !.blocked = @ \/ c.required]
      BY <1>2 DEF Taken, Radio
    <2> QED
      BY <2>1, <2>2, TakenRefusal
  <1>3. CASE c.meaning # "opt-in"
    <2> DEFINE place == findField(k, c.name)
               m == addField(k, c.name, c.checked)
    <2>1. /\ Offers(c) /\ Worth(c) = 0 /\ ~Forbidden(c)
          /\ Pressed(c) <=> c.checked
      BY <1>1, <1>3 DEF Offers, Worth, Forbidden, Opts, Pressed
    <2>2. Taken(k, c) = IF c.checked \/ place = 0 THEN m ELSE k
      BY <1>3 DEF Taken, Radio
    <2>3. /\ SameForm(k, m) /\ SameCounts(k, m)
          /\ ~(c.checked /\ place > 0) => Grew(k, m, c.name)
          /\ c.checked /\ place > 0 =>
               /\ m.blocked <=> k.blocked
               /\ m.fields = [k.fields EXCEPT ![place].from = Len(seen.controls) + 1]
      BY <1>1, FieldReplaced
    <2>4. \/ place = 0 /\ Absent(k.fields, c.name)
          \/ place > 0 /\ FirstOf(k.fields, c.name, place)
      BY FindFacts DEF FormType
    <2> HIDE DEF m, place
    <2>5. CASE place = 0
      <3>1. Grew(k, m, c.name) /\ Absent(k.fields, c.name)
        BY <2>3, <2>4, <2>5
      <3>2. FieldsMove(k.fields, m.fields, c)
        BY <1>1, <2>1, <3>1, GrewMoves
      <3>3. m.score = k.score + Worth(c)
        BY <2>1, <2>3 DEF SameCounts, FormType
      <3>4. /\ k.blocked \/ Forbidden(c) => m.blocked
            /\ m.blocked => k.blocked \/ Forbidden(c) \/ Full(k.fields)
        BY <2>1, <3>1 DEF Grew
      <3> QED
        BY <1>1, <2>2, <2>3, <2>5, <3>2, <3>3, <3>4 DEF Took, SameCounts
    <2>6. CASE place > 0 /\ c.checked
      <3>1. FirstOf(k.fields, c.name, place) /\ place \in 1..Len(k.fields)
        BY <2>4, <2>6 DEF FirstOf
      <3>2. Moved(k.fields, m.fields, c, Len(seen.controls) + 1)
        BY <2>1, <2>3, <2>6, <3>1 DEF Moved
      <3>3. FieldsMove(k.fields, m.fields, c)
        BY <3>2 DEF FieldsMove
      <3>4. m.score = k.score + Worth(c)
        BY <2>1, <2>3 DEF SameCounts, FormType
      <3>5. m.blocked <=> k.blocked
        BY <2>3, <2>6
      <3> QED
        BY <1>1, <2>1, <2>2, <2>3, <2>6, <3>3, <3>4, <3>5 DEF Took, SameCounts
    <2>7. CASE place > 0 /\ ~c.checked
      <3>1. Len(k.fields) > 0 /\ ~Pressed(c)
        <4>1. place \in 1..Len(k.fields) /\ Len(k.fields) \in Nat
          BY <2>4, <2>7 DEF FirstOf, FormType
        <4> QED
          BY <2>1, <2>7, <4>1
      <3>2. FieldsMove(k.fields, k.fields, c)
        BY <3>1 DEF FieldsMove, Kept
      <3>3. SameForm(k, k)
        BY DEF SameForm
      <3>4. k.score = k.score + Worth(c)
        BY <2>1 DEF FormType
      <3>5. Taken(k, c) = k
        BY <2>2, <2>7
      <3> QED
        BY <1>1, <2>1, <3>2, <3>3, <3>4, <3>5 DEF Took
    <2> QED
      BY <2>4, <2>5, <2>6, <2>7
  <1> QED
    BY <1>2, <1>3

LEMMA TakenButton ==
  ASSUME NEW k \in FormType, NEW c \in Control, seen.controls \in Seq(Control),
         c.what = "button"
  PROVE  Took(k, Taken(k, c), c)
  <1>1. /\ c.score \in Int /\ c.rejected \in BOOLEAN /\ ~c.required
        /\ c.name \in Name \union {NoName}
    BY ControlsAreLikely DEF Likely, ControlType
  <1>2. Offers(c) /\ Worth(c) = c.score /\ (Forbidden(c) <=> c.rejected) /\ ~Pressed(c)
    BY <1>1 DEF Offers, Worth, Forbidden, Pressed, Opts
  <1> DEFINE r == [k EXCEPT !.hasSubmit = TRUE, !.score = @ + c.score,
                            !.blocked = @ \/ c.rejected]
             m == addField(r, c.name, FALSE)
  <1>3. /\ SameForm(k, r) /\ r.controlCount = k.controlCount /\ r.fields = k.fields
        /\ r.hasSubmit /\ r.score = k.score + c.score
        /\ r.blocked <=> k.blocked \/ c.rejected
    <2>1. k.score + c.score \in Int /\ (k.blocked \/ c.rejected) \in BOOLEAN
      BY <1>1 DEF FormType
    <2>2. r \in FormType
      BY <2>1 DEF FormType
    <2>3. /\ r.open = k.open /\ r.tainted = k.tainted /\ r.elsewhere = k.elsewhere
          /\ r.controlCount = k.controlCount /\ r.fields = k.fields /\ r.hasSubmit
      BY DEF FormType
    <2>4. r.score = k.score + c.score
      BY DEF FormType
    <2>5. r.blocked = (k.blocked \/ c.rejected)
      BY DEF FormType
    <2> HIDE DEF r
    <2> QED
      BY <2>2, <2>3, <2>4, <2>5 DEF SameForm
  <1>4. CASE c.score >= 0 /\ c.name # NoName
    <2>1. Taken(k, c) = m
      BY <1>4 DEF Taken, Button
    <2>2. SameForm(r, m) /\ SameCounts(r, m) /\ Grew(r, m, c.name)
      <3>1. r \in FormType /\ c.name \in Name
        BY <1>1, <1>3, <1>4 DEF SameForm
      <3> HIDE DEF r
      <3> QED
        BY <3>1, FieldAdded
    <2> HIDE DEF r, m
    <2>3. FieldsMove(r.fields, m.fields, c)
      BY <1>1, <1>2, <1>3, <1>4, <2>2, GrewMoves DEF SameForm
    <2>4. /\ k.blocked \/ Forbidden(c) => m.blocked
          /\ m.blocked => k.blocked \/ Forbidden(c) \/ Full(k.fields)
      BY <1>2, <1>3, <2>2 DEF Grew
    <2>5. SameForm(k, m)
      BY <1>3, <2>2 DEF SameForm
    <2>6. m.score = k.score + Worth(c)
      BY <1>2, <1>3, <2>2 DEF SameCounts
    <2> QED
      BY <1>3, <2>1, <2>2, <2>3, <2>4, <2>5, <2>6 DEF Took, SameCounts
  <1>5. CASE ~(c.score >= 0 /\ c.name # NoName)
    <2>1. Taken(k, c) = r
      BY <1>5 DEF Taken, Button
    <2> HIDE DEF r
    <2>2. FieldsMove(k.fields, r.fields, c)
      BY <1>2, <1>3, IdleMoves
    <2>3. r.score = k.score + Worth(c)
      BY <1>2, <1>3
    <2> QED
      BY <1>2, <1>3, <2>1, <2>2, <2>3 DEF Took
  <1> QED
    BY <1>4, <1>5

LEMMA TakenTakes ==
  ASSUME NEW k \in FormType, NEW c \in Control, seen.controls \in Seq(Control)
  PROVE  Took(k, Taken(k, c), c)
  <1>1. c.what \in Kind
    BY ControlsAreLikely DEF Likely, ControlType
  <1> QED
    BY <1>1, TakenSimple, TakenRefused, TakenInert, TakenText, TakenCheckbox, TakenRadio,
       TakenButton DEF Kind

----------------------------------------------------------------------------
(* The choice of a form: the candidate and the page                        *)

\* The bookkeeping of a form says of it what the page does.
SeenType == [sound : BOOLEAN, controls : Seq(Control)]

Barred(k) == k.blocked \/ k.tainted \/ k.elsewhere

Sends(k) == Len(k.fields) > 0 \/ k.hasSubmit

Fits(k, s) ==
  /\ k \in FormType /\ s \in SeenType
  /\ Care(k.fields, s.controls)
  /\ k.controlCount = IF Len(s.controls) < MaxControls THEN Len(s.controls) ELSE MaxControls
  /\ Len(k.fields) <= k.controlCount
  /\ Barred(k) <=> \/ ~s.sound \/ Len(s.controls) > MaxControls
                \/ \E i \in 1..Len(s.controls) : Forbidden(s.controls[i])
  /\ Sends(k) <=> \E i \in 1..Len(s.controls) : Offers(s.controls[i])
  /\ k.score = Worths(s.controls)

LEMMA MoveCares ==
  ASSUME NEW list, seen \in SeenType, Care(list, seen.controls), NEW c \in Control, NEW more,
         FieldsMove(list, more, c)
  PROVE  Care(more, Append(seen.controls, c))
  BY KeptCares, MadeCares, MovedCares DEF FieldsMove

\* A move of the fields makes one at most, and only where there is room.
LEMMA MoveLengths ==
  ASSUME NEW list \in Seq(Field), NEW c, NEW more, FieldsMove(list, more, c)
  PROVE  /\ Len(more) = Len(list) \/ (Len(more) = Len(list) + 1 /\ ~Full(list))
         /\ Len(more) > Len(list) => Offers(c)
         /\ Offers(c) /\ c.what # "button" => Len(more) > 0
  <1>1. Len(list) \in Nat
    OBVIOUS
  <1>2. CASE Kept(list, more, c)
    BY <1>1, <1>2 DEF Kept
  <1>3. CASE Made(list, more, c, Len(seen.controls) + 1)
    <2>1. Len(more) = Len(list) + 1
      BY <1>3 DEF Made
    <2>2. Offers(c) /\ ~Full(list)
      BY <1>3 DEF Made
    <2> QED
      BY <1>1, <2>1, <2>2
  <1>4. CASE Moved(list, more, c, Len(seen.controls) + 1)
    <2>1. PICK i \in 1..Len(list) : more = [list EXCEPT ![i].from = Len(seen.controls) + 1]
      BY <1>4 DEF Moved
    <2>2. Len(more) = Len(list)
      BY <2>1
    <2>3. Len(list) > 0 /\ ~(Len(list) > Len(list))
      BY <1>1, <2>1
    <2> QED
      BY <2>2, <2>3
  <1> QED
    BY <1>2, <1>3, <1>4 DEF FieldsMove

\* One more control, however it is handled, keeps the bookkeeping and the page in step.
LEMMA ControlFits ==
  ASSUME NEW k, Fits(k, seen), NEW c \in Control
  PROVE  Fits(Taken(recordControl(k), c), [seen EXCEPT !.controls = Append(@, c)])
  <1> DEFINE r == recordControl(k)
             m == Taken(r, c)
             cs == seen.controls
             n == Len(cs)
             all == Append(cs, c)
             more == [seen EXCEPT !.controls = all]
  <1>1. /\ k \in FormType /\ seen \in SeenType /\ cs \in Seq(Control) /\ k.fields \in Seq(Field)
        /\ Len(k.fields) \in Nat
    BY DEF Fits, FormType, SeenType
  <1>2. /\ n \in Nat /\ all \in Seq(Control) /\ Len(all) = n + 1 /\ all[n + 1] = c
        /\ \A i \in 1..n : all[i] = cs[i]
        /\ \A i \in 1..n : i \in 1..n + 1
        /\ \A i \in 1..n + 1 : i \in 1..n \/ i = n + 1
        /\ n + 1 \in 1..n + 1
    <2>1. n \in Nat
      BY <1>1
    <2>2. n + 1 \in 1..n + 1
      BY <2>1
    <2> HIDE DEF n, all, cs
    <2> QED
      BY <1>1, <2>1, <2>2, OneMoreControl DEF n, all
  <1>3. more \in SeenType /\ more.controls = all /\ more.sound = seen.sound
    BY <1>1, <1>2 DEF SeenType
  <1> HIDE DEF all, more
  <1>4. /\ SameForm(k, r) /\ (r.hasSubmit <=> k.hasSubmit) /\ r.score = k.score
        /\ r.fields = k.fields
        /\ r.controlCount = IF k.controlCount >= MaxControls THEN k.controlCount
                            ELSE k.controlCount + 1
        /\ r.blocked <=> k.blocked \/ k.controlCount >= MaxControls
    BY <1>1, RecordFacts
  <1> HIDE DEF r
  <1>5. Took(r, m, c)
    BY <1>1, <1>4, TakenTakes DEF SameForm
  <1> HIDE DEF m
  <1>6. FieldsMove(k.fields, m.fields, c)
    BY <1>4, <1>5 DEF Took
  <1>7. Care(m.fields, all)
    BY <1>1, <1>6, MoveCares DEF Fits, all
  <1>8. /\ MaxControls \in Nat \ {0} /\ k.controlCount \in Nat
        /\ k.controlCount = IF n < MaxControls THEN n ELSE MaxControls
        /\ Len(k.fields) <= k.controlCount
    BY <1>1, FormAssumption DEF Fits, FormType
  <1>9. /\ Len(m.fields) = Len(k.fields) \/ (Len(m.fields) = Len(k.fields) + 1 /\ ~Full(k.fields))
        /\ Len(m.fields) > Len(k.fields) => Offers(c)
        /\ Offers(c) /\ c.what # "button" => Len(m.fields) > 0
    BY <1>1, <1>6, MoveLengths
  <1>10. /\ m.controlCount = r.controlCount /\ m.score = k.score + Worth(c)
         /\ m \in FormType
    BY <1>4, <1>5 DEF Took, SameForm
  <1> HIDE DEF n, cs
  <1>11. m.controlCount = IF n + 1 < MaxControls THEN n + 1 ELSE MaxControls
    BY <1>2, <1>4, <1>8, <1>10
  <1>12. Len(m.fields) <= m.controlCount
    BY <1>1, <1>2, <1>4, <1>8, <1>9, <1>10 DEF Full
  <1>13. m.blocked <=> k.blocked \/ n + 1 > MaxControls \/ Forbidden(c)
    <2>1. k.controlCount >= MaxControls <=> n + 1 > MaxControls
      BY <1>2, <1>8
    <2>2. Full(k.fields) => k.controlCount >= MaxControls
      BY <1>1, <1>8 DEF Full
    <2>3. /\ r.blocked \/ Forbidden(c) => m.blocked
          /\ m.blocked => r.blocked \/ Forbidden(c) \/ Full(k.fields)
      BY <1>4, <1>5 DEF Took
    <2> QED
      BY <1>4, <2>1, <2>2, <2>3
  <1>14. (\E i \in 1..n + 1 : Forbidden(all[i]))
            <=> Forbidden(c) \/ \E i \in 1..n : Forbidden(cs[i])
    BY <1>2
  <1>15. Barred(m) <=> \/ ~more.sound \/ Len(all) > MaxControls
                    \/ \E i \in 1..Len(all) : Forbidden(all[i])
    <2>1. Barred(k) <=> ~seen.sound \/ n > MaxControls \/ \E i \in 1..n : Forbidden(cs[i])
      BY DEF Fits, n, cs
    <2>2. Barred(m) <=> Barred(k) \/ n + 1 > MaxControls \/ Forbidden(c)
      BY <1>4, <1>5, <1>13 DEF Barred, Took, SameForm
    <2>3. n > MaxControls => n + 1 > MaxControls
      BY <1>2, <1>8
    <2> QED
      BY <1>2, <1>3, <1>14, <2>1, <2>2, <2>3
  <1>16. Sends(m) <=> \E i \in 1..Len(all) : Offers(all[i])
    <2>1. Sends(k) <=> \E i \in 1..n : Offers(cs[i])
      BY DEF Fits, n, cs
    <2>2. (\E i \in 1..n + 1 : Offers(all[i])) <=> Offers(c) \/ \E i \in 1..n : Offers(cs[i])
      BY <1>2
    <2>3. m.hasSubmit <=> k.hasSubmit \/ c.what = "button"
      BY <1>4, <1>5 DEF Took
    <2>4. c.what = "button" => Offers(c)
      BY DEF Offers
    <2>5. Len(m.fields) > 0 <=> Len(k.fields) > 0 \/ (Len(m.fields) > 0 /\ Offers(c))
      BY <1>1, <1>9
    <2>6. Offers(c) /\ c.what # "button" => Len(m.fields) > 0
      BY <1>9
    <2> QED
      BY <1>2, <2>1, <2>2, <2>3, <2>4, <2>5, <2>6 DEF Sends
  <1>17. m.score = Worths(all)
    BY <1>1, <1>10, WorthAppended DEF Fits, all, cs
  <1> QED
    BY <1>2, <1>3, <1>7, <1>10, <1>11, <1>12, <1>15, <1>16, <1>17 DEF Fits, all, more, cs, m, r

LEMMA NewFormFits ==
  ASSUME NEW k \in FormType, NEW s \in SeenType, k.fields = <<>>, s.controls = <<>>,
         k.controlCount = 0, k.score = 1, ~k.hasSubmit, Barred(k) <=> ~s.sound
  PROVE  Fits(k, s)
  <1>1. Len(<<>>) = 0 /\ <<>> \in Seq(Field) /\ <<>> \in Seq(Control) /\ 1..0 = {}
    OBVIOUS
  <1>2. Care(<<>>, <<>>)
    BY <1>1 DEF Care
  <1>3. ~Sends(k)
    BY <1>1 DEF Sends
  <1>4. 0 < MaxControls /\ 0 <= 0 /\ ~(0 > MaxControls)
    BY FormAssumption
  <1> QED
    BY <1>1, <1>2, <1>3, <1>4, WorthOfNone DEF Fits

LEMMA NoFormFits == Fits(NoCandidate, NotSeen)
  <1>1. NoCandidate \in FormType /\ NotSeen \in SeenType
    BY DEF NoCandidate, FormType, NotSeen, SeenType
  <1>2. /\ NoCandidate.fields = <<>> /\ NoCandidate.controlCount = 0
        /\ NoCandidate.score = 1 /\ ~NoCandidate.hasSubmit /\ ~Barred(NoCandidate)
    BY DEF NoCandidate, Barred
  <1>3. NotSeen.controls = <<>> /\ NotSeen.sound
    BY DEF NotSeen
  <1> QED
    BY <1>1, <1>2, <1>3, NewFormFits

LEMMA OpenedFits ==
  ASSUME NEW blocked \in BOOLEAN, NEW elsewhere \in BOOLEAN
  PROVE  Fits([NoCandidate EXCEPT !.open = TRUE, !.blocked = blocked, !.elsewhere = elsewhere],
              [NotSeen EXCEPT !.sound = ~blocked /\ ~elsewhere])
  <1> DEFINE k == [NoCandidate EXCEPT !.open = TRUE, !.blocked = blocked,
                                      !.elsewhere = elsewhere]
             s == [NotSeen EXCEPT !.sound = ~blocked /\ ~elsewhere]
  <1>1. /\ NoCandidate \in FormType /\ NotSeen \in SeenType
        /\ NoCandidate.fields = <<>> /\ NoCandidate.controlCount = 0
        /\ NoCandidate.score = 1 /\ ~NoCandidate.hasSubmit /\ ~NoCandidate.tainted
        /\ NotSeen.controls = <<>>
    BY DEF NoCandidate, FormType, NotSeen, SeenType
  <1>2. k \in FormType /\ s \in SeenType
    BY <1>1 DEF FormType, SeenType
  <1>3. /\ k.fields = <<>> /\ k.controlCount = 0 /\ k.score = 1 /\ ~k.hasSubmit
        /\ ~k.tainted /\ k.blocked = blocked /\ k.elsewhere = elsewhere
    BY <1>1 DEF FormType
  <1>4. s.controls = <<>> /\ s.sound = (~blocked /\ ~elsewhere)
    BY <1>1 DEF SeenType
  <1> HIDE DEF k, s
  <1>5. Barred(k) <=> ~s.sound
    BY <1>3, <1>4 DEF Barred
  <1>6. Fits(k, s)
    BY <1>2, <1>3, <1>4, <1>5, NewFormFits
  <1> QED
    BY <1>6 DEF k, s

LEMMA TaintedFits ==
  ASSUME NEW k, NEW s, Fits(k, s)
  PROVE  Fits([k EXCEPT !.tainted = TRUE], [s EXCEPT !.sound = FALSE])
  <1> DEFINE m == [k EXCEPT !.tainted = TRUE]
             t == [s EXCEPT !.sound = FALSE]
  <1>1. k \in FormType /\ s \in SeenType
    BY DEF Fits
  <1>2. m \in FormType /\ t \in SeenType
    BY <1>1 DEF FormType, SeenType
  <1>3. /\ m.fields = k.fields /\ m.controlCount = k.controlCount /\ m.score = k.score
        /\ m.hasSubmit = k.hasSubmit /\ m.tainted
    BY <1>1 DEF FormType
  <1>4. t.controls = s.controls /\ ~t.sound
    BY <1>1 DEF SeenType
  <1> HIDE DEF m, t
  <1>5. Barred(m) /\ (Sends(m) <=> Sends(k))
    BY <1>3 DEF Barred, Sends
  <1>6. Fits(m, t)
    BY <1>2, <1>3, <1>4, <1>5 DEF Fits
  <1> QED
    BY <1>6 DEF m, t

----------------------------------------------------------------------------
(* The choice of a form: the best so far                                   *)

\* The best form so far.
OfferType == [allowed : BOOLEAN, score : Int]

\* i is ahead of j: a higher score, or the same and earlier on the page.
Beats(list, i, j) ==
  list[i].score > list[j].score \/ (list[i].score = list[j].score /\ i <= j)

\* The form i is the first of the best that may be sent, and worth something.
FirstBest(list, i) ==
  /\ i \in 1..Len(list) /\ list[i].allowed /\ list[i].score >= 1
  /\ \A j \in 1..Len(list) : list[j].allowed => Beats(list, i, j)

\* The best form remembered is the best of those offered, or there is none to remember.
BestKnown(b, list) ==
  \/ b = NoBest /\ \A i \in 1..Len(list) : ~list[i].allowed
  \/ \E i \in 1..Len(list) : FirstBest(list, i) /\ b = [form |-> i, score |-> list[i].score]

\* What the page shows of a form, Offer, is what finalizeCandidate knows of it.
LEMMA OfferFacts ==
  ASSUME Fits(candidate, seen)
  PROVE  /\ Offer \in OfferType /\ Offer.score = candidate.score
         /\ Offer.allowed <=> ~Barred(candidate) /\ Sends(candidate)
         /\ Offer.allowed => Offer.score >= 1
  <1> DEFINE cs == seen.controls
             n == Len(cs)
             all == ToSet(cs)
             may == /\ seen.sound /\ n <= MaxControls
                    /\ \A c \in all : ~Forbidden(c)
                    /\ \E c \in all : Offers(c)
             worth == Worths(cs)
  <1>1. /\ candidate \in FormType /\ cs \in Seq(Control) /\ n \in Nat /\ DOMAIN cs = 1..n
        /\ seen.sound \in BOOLEAN
    BY DEF Fits, SeenType
  <1>2. all = {cs[i] : i \in 1..n}
    BY <1>1 DEF ToSet
  <1>3. Offer = [allowed |-> may, score |-> worth]
    BY DEF Offer, Worths
  <1>4. worth = candidate.score
    BY DEF Fits
  <1>5. MaxControls \in Nat
    BY FormAssumption
  <1> HIDE DEF worth
  <1>6. /\ (\A c \in all : ~Forbidden(c)) <=> \A i \in 1..n : ~Forbidden(cs[i])
        /\ (\E c \in all : Offers(c)) <=> \E i \in 1..n : Offers(cs[i])
    BY <1>2
  <1> HIDE DEF all
  <1>7. may <=> ~Barred(candidate) /\ Sends(candidate)
    <2>1. n <= MaxControls <=> ~(n > MaxControls)
      BY <1>1, <1>5
    <2> QED
      BY <1>6, <2>1 DEF Fits
  <1>8. may => worth >= 1
    <2>1. may => \A i \in 1..n : ~Forbidden(cs[i])
      BY <1>6
    <2> QED
      BY <1>1, <2>1, WorthOfAllowed DEF worth
  <1>9. may \in BOOLEAN /\ worth \in Int
    BY <1>1, <1>4 DEF FormType
  <1> HIDE DEF may
  <1>10. Offer \in OfferType /\ (Offer.allowed <=> may) /\ Offer.score = worth
    BY <1>3, <1>9 DEF OfferType
  <1> QED
    BY <1>4, <1>7, <1>8, <1>10

LEMMA BestStays ==
  ASSUME NEW list \in Seq(OfferType), NEW o \in OfferType, NEW b, BestKnown(b, list),
         ~o.allowed \/ ~(o.score > b.score), o.allowed => o.score >= 1
  PROVE  BestKnown(b, Append(list, o))
  <1> DEFINE more == Append(list, o)
             n == Len(list)
  <1>1. /\ n \in Nat /\ Len(more) = n + 1 /\ more[n + 1] = o
        /\ \A i \in 1..n : more[i] = list[i] /\ list[i] \in OfferType
    OBVIOUS
  <1>2. /\ \A i \in 1..n : i \in 1..n + 1 /\ i <= n + 1
        /\ \A i \in 1..n + 1 : i \in 1..n \/ i = n + 1
    BY <1>1
  <1> HIDE DEF more
  <1>3. CASE b = NoBest /\ \A i \in 1..n : ~list[i].allowed
    <2>1. ~o.allowed
      <3>1. b.score = -32768
        BY <1>3 DEF NoBest
      <3>2. o.score \in Int
        BY DEF OfferType
      <3> QED
        BY <3>1, <3>2
    <2>2. \A i \in 1..n + 1 : ~more[i].allowed
      BY <1>1, <1>2, <1>3, <2>1
    <2> QED
      BY <1>1, <1>3, <2>2 DEF BestKnown, more
  <1>4. CASE \E i \in 1..n : FirstBest(list, i) /\ b = [form |-> i, score |-> list[i].score]
    <2>1. PICK i \in 1..n : FirstBest(list, i) /\ b = [form |-> i, score |-> list[i].score]
      BY <1>4
    <2>2. /\ more[i] = list[i] /\ list[i].score \in Int /\ o.score \in Int
          /\ b.score = list[i].score
      BY <1>1, <2>1 DEF OfferType
    <2>3. o.allowed => Beats(more, i, n + 1)
      <3>1. o.allowed => ~(o.score > list[i].score)
        BY <2>2
      <3>2. o.allowed => list[i].score > o.score \/ list[i].score = o.score
        BY <2>2, <3>1
      <3> QED
        BY <1>1, <1>2, <2>2, <3>2 DEF Beats
    <2>4. \A j \in 1..n : more[j].allowed => Beats(more, i, j)
      BY <1>1, <2>1, <2>2 DEF FirstBest, Beats
    <2>5. \A j \in 1..n + 1 : more[j].allowed => Beats(more, i, j)
      BY <1>1, <1>2, <2>3, <2>4
    <2>6. FirstBest(more, i)
      BY <1>1, <1>2, <2>1, <2>2, <2>5 DEF FirstBest
    <2> QED
      BY <1>1, <1>2, <2>1, <2>2, <2>6 DEF BestKnown, more
  <1> QED
    BY <1>3, <1>4 DEF BestKnown

LEMMA BestChanges ==
  ASSUME NEW list \in Seq(OfferType), NEW o \in OfferType, NEW b, BestKnown(b, list),
         o.allowed, o.score > b.score, o.score >= 1
  PROVE  BestKnown([form |-> Len(list) + 1, score |-> o.score], Append(list, o))
  <1> DEFINE more == Append(list, o)
             n == Len(list)
  <1>1. /\ n \in Nat /\ Len(more) = n + 1 /\ more[n + 1] = o
        /\ \A i \in 1..n : more[i] = list[i] /\ list[i] \in OfferType
    OBVIOUS
  <1>2. /\ n + 1 \in 1..n + 1 /\ n + 1 <= n + 1
        /\ \A i \in 1..n + 1 : i \in 1..n \/ i = n + 1
    BY <1>1
  <1> HIDE DEF more
  <1>3. ASSUME NEW j \in 1..n, list[j].allowed PROVE o.score > list[j].score
    <2>1. PICK i \in 1..n : FirstBest(list, i) /\ b = [form |-> i, score |-> list[i].score]
      BY <1>3 DEF BestKnown
    <2>2. /\ list[i].score \in Int /\ list[j].score \in Int /\ o.score \in Int
          /\ b.score = list[i].score
      BY <1>1, <2>1 DEF OfferType
    <2>3. list[i].score > list[j].score \/ list[i].score = list[j].score
      BY <1>3, <2>1 DEF FirstBest, Beats
    <2> QED
      BY <2>2, <2>3
  <1>4. \A j \in 1..n + 1 : more[j].allowed => Beats(more, n + 1, j)
    BY <1>1, <1>2, <1>3 DEF Beats
  <1>5. FirstBest(more, n + 1)
    BY <1>1, <1>2, <1>4 DEF FirstBest
  <1> QED
    BY <1>1, <1>2, <1>5 DEF BestKnown, more

\* The inductive invariant: the open form fits the page, and the best of the closed is known.
FormInv ==
  /\ Fits(candidate, seen)
  /\ offers \in Seq(OfferType)
  /\ formCount = Len(offers) + (IF candidate.open THEN 1 ELSE 0)
  /\ BestKnown(best, offers)
  /\ result = "found" => best # NoBest

\* finalizeCandidate, and nothing for a form that is not open.
LEMMA Finalized ==
  ASSUME FormInv, finalizeCandidate
  PROVE  /\ offers' \in Seq(OfferType) /\ BestKnown(best', offers')
         /\ formCount = Len(offers')
  <1>1. CASE candidate.open
    <2> DEFINE o == Offer
    <2>1. /\ o \in OfferType /\ o.score = candidate.score
          /\ o.allowed <=> ~Barred(candidate) /\ Sends(candidate)
          /\ o.allowed => o.score >= 1
      BY OfferFacts DEF FormInv
    <2>2. offers \in Seq(OfferType) /\ Len(offers) \in Nat /\ formCount = Len(offers) + 1
      BY <1>1 DEF FormInv
    <2>3. candidate.fields # <<>> <=> Len(candidate.fields) > 0
      <3>1. candidate.fields \in Seq(Field)
        BY DEF FormInv, Fits, FormType
      <3> QED
        BY <3>1
    <2>4. /\ offers' = Append(offers, o)
          /\ best' = IF o.allowed /\ o.score > best.score
                     THEN [form |-> formCount, score |-> o.score] ELSE best
      BY <1>1, <2>1, <2>3 DEF finalizeCandidate, Barred, Sends
    <2> HIDE DEF o
    <2>5. offers' \in Seq(OfferType) /\ Len(offers') = Len(offers) + 1
      BY <2>1, <2>2, <2>4
    <2>6. CASE o.allowed /\ o.score > best.score
      <3>1. best' = [form |-> Len(offers) + 1, score |-> o.score]
        BY <2>2, <2>4, <2>6
      <3>2. BestKnown(best', offers')
        BY <2>1, <2>2, <2>4, <2>6, <3>1, BestChanges DEF FormInv
      <3> QED
        BY <2>2, <2>5, <3>2
    <2>7. CASE ~(o.allowed /\ o.score > best.score)
      <3>1. best' = best
        BY <2>4, <2>7
      <3>2. BestKnown(best', offers')
        BY <2>1, <2>2, <2>4, <2>7, <3>1, BestStays DEF FormInv
      <3> QED
        BY <2>2, <2>5, <3>2
    <2> QED
      BY <2>6, <2>7
  <1>2. CASE ~candidate.open
    <2>1. best' = best /\ offers' = offers
      BY <1>2 DEF finalizeCandidate
    <2>2. Len(offers) \in Nat
      BY DEF FormInv
    <2> QED
      BY <1>2, <2>1, <2>2 DEF FormInv
  <1> QED
    BY <1>1, <1>2

LEMMA MaybeFinalized ==
  ASSUME FormInv, IF candidate.open THEN finalizeCandidate ELSE UNCHANGED <<best, offers>>
  PROVE  /\ offers' \in Seq(OfferType) /\ BestKnown(best', offers')
         /\ formCount = Len(offers')
  <1>1. CASE candidate.open
    BY <1>1, Finalized
  <1>2. CASE ~candidate.open
    <2>1. Len(offers) \in Nat
      BY DEF FormInv
    <2> QED
      BY <1>2, <2>1 DEF FormInv
  <1> QED
    BY <1>1, <1>2

LEMMA FormStarts == FormInit => FormInv
  <1> SUFFICES ASSUME FormInit PROVE FormInv
    OBVIOUS
  <1>1. offers \in Seq(OfferType) /\ Len(offers) = 0
    BY DEF FormInit
  <1>2. BestKnown(best, offers)
    BY <1>1 DEF FormInit, BestKnown
  <1>3. ~candidate.open /\ formCount = 0 + 0 /\ result = "scanning"
    BY DEF FormInit, NoCandidate
  <1>4. formCount = Len(offers) + (IF candidate.open THEN 1 ELSE 0)
    BY <1>1, <1>3
  <1> QED
    BY <1>1, <1>2, <1>3, <1>4, NoFormFits DEF FormInit, FormInv

LEMMA FormOpensKeeps ==
  ASSUME FormInv, result = "scanning", NEW blocked \in BOOLEAN, NEW elsewhere \in BOOLEAN,
         FormOpens(blocked, elsewhere)
  PROVE  FormInv'
  <1>1. /\ offers' \in Seq(OfferType) /\ BestKnown(best', offers')
        /\ formCount = Len(offers')
    BY MaybeFinalized DEF FormOpens
  <1>2. Fits(candidate', seen')
    BY OpenedFits DEF FormOpens
  <1>3. candidate'.open
    BY DEF FormOpens, NoCandidate
  <1>4. result' # "found" /\ formCount' = formCount + 1
    BY DEF FormOpens
  <1>5. formCount' = Len(offers') + 1
    BY <1>1, <1>4
  <1> QED
    BY <1>1, <1>2, <1>3, <1>4, <1>5 DEF FormInv

LEMMA FormClosesKeeps ==
  ASSUME FormInv, result = "scanning", FormCloses
  PROVE  FormInv'
  <1>1. /\ offers' \in Seq(OfferType) /\ BestKnown(best', offers')
        /\ formCount = Len(offers')
    BY Finalized DEF FormCloses
  <1>2. Fits(candidate', seen')
    BY NoFormFits DEF FormCloses
  <1>3. ~candidate'.open /\ result' # "found" /\ formCount' = formCount
    BY DEF FormCloses, NoCandidate
  <1>4. formCount' = Len(offers') + 0
    BY <1>1, <1>3
  <1> QED
    BY <1>1, <1>2, <1>3, <1>4 DEF FormInv

LEMMA ControlShownKeeps ==
  ASSUME FormInv, result = "scanning", NEW c \in Control, ControlShown(c)
  PROVE  FormInv'
  <1>1. Fits(candidate', seen')
    BY ControlFits DEF ControlShown, FormInv
  <1>2. candidate'.open <=> candidate.open
    <2>1. candidate \in FormType /\ seen.controls \in Seq(Control)
      BY DEF FormInv, Fits, SeenType
    <2>2. SameForm(candidate, recordControl(candidate))
      BY <2>1, RecordFacts
    <2>3. SameForm(recordControl(candidate), candidate')
      <3>1. Took(recordControl(candidate), candidate', c)
        BY <2>1, <2>2, TakenTakes DEF ControlShown, SameForm
      <3> QED
        BY <3>1 DEF Took
    <2> QED
      BY <2>2, <2>3 DEF SameForm
  <1> QED
    BY <1>1, <1>2 DEF ControlShown, FormInv

LEMMA BlockedTextKeeps ==
  ASSUME FormInv, result = "scanning", BlockedText
  PROVE  FormInv'
  <1>1. Fits(candidate', seen')
    BY TaintedFits DEF BlockedText, FormInv
  <1>2. candidate'.open <=> candidate.open
    BY DEF BlockedText, FormInv, Fits, FormType
  <1> QED
    BY <1>1, <1>2 DEF BlockedText, FormInv

LEMMA PageEndsKeeps ==
  ASSUME FormInv, result = "scanning", PageEnds
  PROVE  FormInv'
  <1>1. /\ offers' \in Seq(OfferType) /\ BestKnown(best', offers')
        /\ formCount = Len(offers')
    BY MaybeFinalized DEF PageEnds
  <1>2. Fits(candidate', seen')
    BY NoFormFits DEF PageEnds
  <1>3. ~candidate'.open /\ formCount' = formCount
    BY DEF PageEnds, NoCandidate
  <1>4. formCount' = Len(offers') + 0
    BY <1>1, <1>3
  <1>5. result' = "found" => best' # NoBest
    BY DEF PageEnds, NoBest
  <1> QED
    BY <1>1, <1>2, <1>3, <1>4, <1>5 DEF FormInv

LEMMA FormKeeps ==
  ASSUME FormInv, [FormNext]_formVars
  PROVE  FormInv'
  <1>1. ASSUME result = "scanning", PageBreaks PROVE FormInv'
    BY <1>1 DEF PageBreaks, FormInv
  <1>2. ASSUME NextPage PROVE FormInv'
    <2>1. FormInit'
      BY <1>2 DEF NextPage, FormInit
    <2> QED
      BY <2>1, FormStarts, PTL
  <1>3. CASE UNCHANGED formVars
    BY <1>3 DEF formVars, FormInv
  <1> QED
    BY <1>1, <1>2, <1>3, FormOpensKeeps, FormClosesKeeps, ControlShownKeeps,
       BlockedTextKeeps, PageEndsKeeps DEF FormNext

\* Each form is judged as the page shows it, and the best is chosen of those allowed.
LEMMA BestIsAllowed ==
  ASSUME FormInv
  PROVE  SubmissionIsBestAllowed
  <1> DEFINE allowed == {i \in DOMAIN offers : offers[i].allowed}
             beats(i, j) == offers[i].score > offers[j].score
                            \/ (offers[i].score = offers[j].score /\ i <= j)
  <1>1. offers \in Seq(OfferType) /\ DOMAIN offers = 1..Len(offers) /\ Len(offers) \in Nat
    BY DEF FormInv
  <1>2. allowed = {} => best = NoBest
    BY <1>1 DEF FormInv, BestKnown, FirstBest
  <1>3. ASSUME NEW i \in allowed, \A j \in allowed : beats(i, j)
        PROVE  best = [form |-> i, score |-> offers[i].score]
    <2>1. PICK b \in 1..Len(offers) :
            FirstBest(offers, b) /\ best = [form |-> b, score |-> offers[b].score]
      BY <1>1 DEF FormInv, BestKnown
    <2>2. b \in allowed /\ Beats(offers, b, i)
      BY <1>1, <2>1 DEF FirstBest
    <2>3. beats(i, b)
      BY <1>3, <2>2
    <2>4. i \in 1..Len(offers) /\ b \in 1..Len(offers)
      BY <1>1, <2>1
    <2>5. offers[i] \in OfferType /\ offers[b] \in OfferType
      BY <1>1, <2>4
    <2>6. offers[i].score \in Int /\ offers[b].score \in Int
      BY <2>5 DEF OfferType
    <2>7. i \in Nat /\ b \in Nat
      BY <1>1, <2>4
    <2> HIDE DEF allowed
    <2>8. i = b
      BY <2>2, <2>3, <2>6, <2>7 DEF Beats
    <2> QED
      BY <2>1, <2>8
  <1>4. result = "found" => allowed # {}
    BY <1>2 DEF FormInv
  <1>5. Len(candidate.fields) <= MaxControls
    <2>1. /\ Len(candidate.fields) \in Nat /\ Len(seen.controls) \in Nat
          /\ MaxControls \in Nat
      BY FormAssumption DEF FormInv, Fits, FormType, SeenType
    <2>2. /\ Len(candidate.fields) <= candidate.controlCount
          /\ candidate.controlCount = IF Len(seen.controls) < MaxControls
                                      THEN Len(seen.controls) ELSE MaxControls
      BY DEF FormInv, Fits
    <2> QED
      BY <2>1, <2>2
  <1> QED
    BY <1>2, <1>3, <1>4, <1>5 DEF SubmissionIsBestAllowed

LEMMA FieldsAreCared ==
  ASSUME FormInv
  PROVE  FieldsAreChosenWithCare
  <1> DEFINE list == candidate.fields
             cs == seen.controls
             control(field) == cs[field.from]
             radios == {i \in DOMAIN list : control(list[i]).what = "radio"}
             group(field) == {j \in DOMAIN cs :
                                /\ cs[j].what = "radio" /\ ~Opts(cs[j])
                                /\ cs[j].name = field.name}
  <1>1. Care(list, cs)
    BY DEF FormInv, Fits
  <1> HIDE DEF list, cs
  <1>2. /\ DOMAIN list = 1..Len(list) /\ DOMAIN cs = 1..Len(cs)
        /\ Len(list) \in Nat /\ Len(cs) \in Nat
    BY <1>1 DEF Care
  <1>3. ASSUME NEW field \in ToSet(list)
        PROVE  /\ Offers(control(field)) /\ control(field).score >= 0
               /\ field.name = control(field).name
    <2>1. PICK i \in 1..Len(list) : field = list[i]
      BY <1>2 DEF ToSet
    <2> QED
      BY <1>1, <2>1 DEF Care, Origin
  <1>4. ASSUME NEW i \in radios
        PROVE  /\ \A j \in group(list[i]) : j > list[i].from => ~cs[j].checked
               /\ ~control(list[i]).checked => \A j \in group(list[i]) : ~cs[j].checked
               /\ \A j \in radios : list[j].name = list[i].name => i = j
    <2>1. i \in 1..Len(list) /\ cs[list[i].from].what = "radio"
      BY <1>2
    <2>2. FirstOf(list, list[i].name, i) /\ LastPressed(cs, list[i])
      BY <1>1, <2>1 DEF Care
    <2>3. list[i].from \in 1..Len(cs)
      BY <1>1, <2>1 DEF Care, Origin
    <2>4. ASSUME NEW j \in group(list[i]), cs[j].checked
          PROVE  ~(j > list[i].from) /\ cs[list[i].from].checked
      <3>1. j \in 1..Len(cs) /\ Pressed(cs[j]) /\ cs[j].name = list[i].name
        BY <1>2, <2>4 DEF Pressed
      <3>2. j <= list[i].from /\ cs[list[i].from].checked
        BY <2>2, <3>1 DEF LastPressed
      <3>3. j \in Nat /\ list[i].from \in Nat
        BY <1>2, <2>3, <3>1
      <3> QED
        BY <3>2, <3>3
    <2>5. ASSUME NEW j \in radios, list[j].name = list[i].name PROVE i = j
      <3>1. j \in 1..Len(list) /\ cs[list[j].from].what = "radio"
        BY <1>2
      <3>2. FirstOf(list, list[j].name, j)
        BY <1>1, <3>1 DEF Care
      <3>3. i = j \/ i \in 1..j - 1 \/ j \in 1..i - 1
        BY <1>2, <2>1, <3>1
      <3> QED
        BY <2>2, <2>5, <3>2, <3>3 DEF FirstOf
    <2> HIDE DEF radios, group
    <2> QED
      BY <2>4, <2>5
  <1> QED
    BY <1>3, <1>4 DEF FieldsAreChosenWithCare, list, cs

\* buildSubmission submits the first of the best forms that hold nothing Forbidden, a required
\* radio group of unknown meaning not being so, for any limits of forms and controls,
\* however the forms of the page nest, repeat or break off.
THEOREM SubmissionSound == Spec => []SubmissionIsBestAllowed
  <1>1. Init => FormInv
    BY FormStarts DEF Init
  <1>2. FormInv /\ [Next]_vars => FormInv'
    BY PartsStep, FormKeeps
  <1> QED
    BY <1>1, <1>2, BestIsAllowed, PTL DEF Spec

\* It submits no opt-in, no box that is not about terms and no button that says no, and of a
\* group of radio buttons one, the last that is checked, in whatever order the page has them.
THEOREM FieldsSound == Spec => []FieldsAreChosenWithCare
  <1>1. Init => FormInv
    BY FormStarts DEF Init
  <1>2. FormInv /\ [Next]_vars => FormInv'
    BY PartsStep, FormKeeps
  <1> QED
    BY <1>1, <1>2, FieldsAreCared, PTL DEF Spec

=============================================================================
