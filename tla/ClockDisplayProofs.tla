------------------------- MODULE ClockDisplayProofs --------------------------
(***************************************************************************)
(* Proofs about ClockDisplay for every number of positions and slots, every *)
(* set of patterns and of brightness values: a turn is lit for as long as  *)
(* the brightness in use says, a lit position shows one pattern, and the   *)
(* positions are driven in turn.                                           *)
(***************************************************************************)
EXTENDS ClockDisplay, TLAPS

-----------------------------------------------------------------------------
(* Least and greatest of finite sets of integers, as far as they are used. *)

LEMMA LeastOf ==
  ASSUME NEW S, NEW x \in S, \A y \in S : x <= y, S \subseteq Int
  PROVE  Min(S) = x
<1>1. \A z \in S : (\A y \in S : z <= y) => z = x
  OBVIOUS
<1> QED BY <1>1 DEF Min

LEMMA GreatestOf ==
  ASSUME NEW S, NEW x \in S, \A y \in S : x >= y, S \subseteq Int
  PROVE  Max(S) = x
<1>1. \A z \in S : (\A y \in S : z >= y) => z = x
  OBVIOUS
<1> QED BY <1>1 DEF Max

LEMMA MinOfTwo == ASSUME NEW a \in Int, NEW b \in Int PROVE Min({a, b}) = IF a <= b THEN a ELSE b
BY LeastOf

LEMMA MaxOfTwo == ASSUME NEW a \in Int, NEW b \in Int PROVE Max({a, b}) = IF a >= b THEN a ELSE b
BY GreatestOf

LEMMA ClampIs ==
  ASSUME NEW b \in Int
  PROVE  Clamp(b) = IF b <= 0 THEN 0 ELSE IF b <= Slots THEN b ELSE Slots
<1>1. Slots \in Nat \ {0}
  BY DisplayAssumption DEF Slots
<1>2. Min({b, Slots}) = IF b <= Slots THEN b ELSE Slots
  BY <1>1, MinOfTwo
<1>3. Clamp(b) = IF 0 >= Min({b, Slots}) THEN 0 ELSE Min({b, Slots})
  BY <1>1, <1>2, MaxOfTwo DEF Clamp
<1> QED BY <1>1, <1>2, <1>3

-----------------------------------------------------------------------------
(* The inductive invariant.                                                *)

Typed ==
  /\ clock_display_brightness \in Int
  /\ filament_clock \in 0..FilamentDivider /\ filament_stat \in BOOLEAN
  /\ pwm_slot \in 0..Slots /\ m \in Position
  /\ latched \in [Position -> Patterns]
  /\ low \in Int /\ high \in Int /\ low <= high
  /\ litSlots \in Nat

\* A turn is lit from its start until some brightness in use says otherwise.
TurnSoFar ==
  /\ lit \in {m, Dark}
  /\ lit = m => litSlots = pwm_slot
  /\ lit = Dark /\ pwm_slot > 0 => low <= litSlots
  /\ litSlots = 0 \/ litSlots <= high
  /\ litSlots <= pwm_slot
  /\ pwm_slot = 0 => lit = Dark /\ m = 0

IInv == Typed /\ TurnSoFar

LEMMA InitInv == DisplayInit => IInv
<1> SUFFICES ASSUME DisplayInit PROVE IInv
  OBVIOUS
<1>1. PICK x \in Patterns : PwmInit(x)
  BY DEF DisplayInit
<1>2. /\ FirstBrightness \in Int /\ 0 \in Position /\ 0 \in 0..Slots
      /\ 0 \in 0..FilamentDivider /\ 0 \in Nat
  BY DisplayAssumption DEF Position, Slots
<1>3. Typed
  <2>1. latched \in [Position -> Patterns]
    BY <1>1 DEF PwmInit
  <2>2. filament_stat \in BOOLEAN
    BY <1>1 DEF PwmInit
  <2> QED BY <1>1, <1>2, <2>1, <2>2 DEF PwmInit, Typed
<1>4. TurnSoFar
  BY <1>1, DisplayAssumption DEF PwmInit, TurnSoFar, Dark
<1> QED BY <1>3, <1>4 DEF IInv

\* The bounds on the brightness in use, after one more slot.
LEMMA Bounds ==
  ASSUME IInv, NEW p, NEW slot \in Nat, Slot(p, slot)
  PROVE  /\ low' \in Int /\ high' \in Int
         /\ low' <= clock_display_brightness /\ clock_display_brightness <= high'
         /\ slot # 0 => low' <= low /\ high' >= high
<1>1. clock_display_brightness \in Int /\ low \in Int /\ high \in Int /\ low <= high
  BY DEF IInv, Typed
<1>2. CASE slot = 0
  <2>1. low' = Min({clock_display_brightness}) /\ high' = Max({clock_display_brightness})
    <3>1. {clock_display_brightness} \cup {} = {clock_display_brightness}
      OBVIOUS
    <3> QED BY <1>2, <3>1 DEF Slot
  <2>2. Min({clock_display_brightness}) = clock_display_brightness
    BY <1>1, LeastOf
  <2>3. Max({clock_display_brightness}) = clock_display_brightness
    BY <1>1, GreatestOf
  <2> QED BY <1>1, <1>2, <2>1, <2>2, <2>3
<1>3. CASE slot # 0
  <2> DEFINE S == {clock_display_brightness} \cup {low, high}
  <2>1. low' = Min(S) /\ high' = Max(S)
    BY <1>3 DEF Slot
  <2>2. CASE clock_display_brightness < low
    <3>1. Min(S) = clock_display_brightness
      BY <1>1, <2>2, LeastOf
    <3>2. Max(S) = high
      BY <1>1, <2>2, GreatestOf
    <3> QED BY <1>1, <2>1, <2>2, <3>1, <3>2
  <2>3. CASE clock_display_brightness \in low..high
    <3>1. S \subseteq Int /\ low \in S /\ high \in S /\ \A y \in S : low <= y /\ y <= high
      BY <1>1, <2>3
    <3> HIDE DEF S
    <3>2. Min(S) = low
      BY <3>1, LeastOf
    <3>3. Max(S) = high
      BY <3>1, GreatestOf
    <3> QED BY <1>1, <2>1, <2>3, <3>2, <3>3
  <2>4. CASE clock_display_brightness > high
    <3>1. Min(S) = low
      BY <1>1, <2>4, LeastOf
    <3>2. Max(S) = clock_display_brightness
      BY <1>1, <2>4, GreatestOf
    <3> QED BY <1>1, <2>1, <2>4, <3>1, <3>2
  <2> QED BY <1>1, <2>2, <2>3, <2>4
<1> QED BY <1>2, <1>3

\* One slot of a turn: its first, or the next of a turn that is not over.
LEMMA SlotInv ==
  ASSUME IInv, NEW p \in Position, NEW slot \in 0..Slots-1, Slot(p, slot),
         slot # 0 => slot = pwm_slot /\ p = m,
         clock_display_digit \in [Position -> Patterns]
  PROVE  /\ TurnSoFar' /\ m' \in Position /\ pwm_slot' \in 0..Slots
         /\ latched' \in [Position -> Patterns]
         /\ litSlots' \in Nat /\ low' \in Int /\ high' \in Int /\ low' <= high'
<1>1. Slots \in Nat \ {0} /\ Dark = Positions /\ Dark \notin Position
  BY DisplayAssumption DEF Slots, Dark, Position
<1>2. m' = p /\ pwm_slot' = slot + 1
  BY DEF Slot
<1>3. latched' \in [Position -> Patterns]
  BY DEF Slot, IInv, Typed, Transmits
<1>4. /\ low' \in Int /\ high' \in Int
      /\ low' <= clock_display_brightness /\ clock_display_brightness <= high'
      /\ slot # 0 => low' <= low /\ high' >= high
  BY Bounds
<1>5. litSlots' = (IF slot = 0 THEN 0 ELSE litSlots) + (IF lit' = Dark THEN 0 ELSE 1)
  BY DEF Slot
<1>6. litSlots \in Nat /\ low \in Int /\ high \in Int /\ clock_display_brightness \in Int
  BY DEF IInv, Typed
<1>7. /\ lit \in {m, Dark} /\ (lit = m => litSlots = pwm_slot)
      /\ lit = Dark /\ pwm_slot > 0 => low <= litSlots
      /\ litSlots = 0 \/ litSlots <= high
      /\ litSlots <= pwm_slot /\ pwm_slot \in Nat
  BY DEF IInv, Typed, TurnSoFar
<1>8. litSlots' \in Nat
  BY <1>5, <1>6
<1>9. TurnSoFar'
  <2>1. SUFFICES /\ lit' \in {p, Dark}
                 /\ lit' = p => litSlots' = slot + 1
                 /\ lit' = Dark => low' <= litSlots'
                 /\ litSlots' = 0 \/ litSlots' <= high'
                 /\ litSlots' <= slot + 1
    BY <1>2 DEF TurnSoFar, Dark
  <2>2. CASE slot >= clock_display_brightness
    <3>1. lit' = Dark /\ lit' # p
      BY <1>1, <2>2 DEF Slot, Darkens
    <3>2. CASE slot = 0
      BY <1>4, <1>5, <1>6, <2>2, <3>1, <3>2
    <3>3. CASE slot # 0
      <4>1. litSlots' = litSlots /\ low' <= low /\ high <= high' /\ slot = pwm_slot
        BY <1>4, <1>5, <1>6, <3>1, <3>3
      <4>2. CASE lit = Dark
        BY <1>4, <1>6, <1>7, <3>1, <3>3, <4>1, <4>2
      <4>3. CASE lit = m
        BY <1>4, <1>6, <1>7, <2>2, <3>1, <3>3, <4>1, <4>3
      <4> QED BY <1>7, <4>2, <4>3
    <3> QED BY <3>2, <3>3
  <2>3. CASE slot < clock_display_brightness
    <3>1. lit' = IF slot = 0 THEN p ELSE lit
      BY <1>6, <2>3 DEF Slot, Darkens, Transmits
    <3>2. CASE slot = 0
      BY <1>1, <1>4, <1>5, <1>6, <2>3, <3>1, <3>2
    <3>3. CASE slot # 0
      <4>1. lit' = lit /\ low' <= low /\ high <= high' /\ slot = pwm_slot /\ p = m
        BY <1>4, <3>1, <3>3
      <4>2. CASE lit = Dark
        <5>1. litSlots' = litSlots /\ lit' # p
          BY <1>1, <1>5, <1>6, <3>3, <4>1, <4>2
        <5> QED BY <1>4, <1>6, <1>7, <3>3, <4>1, <4>2, <5>1
      <4>3. CASE lit = m
        <5>1. litSlots' = slot + 1 /\ lit' # Dark
          BY <1>1, <1>5, <1>6, <1>7, <3>3, <4>1, <4>3
        <5> QED BY <1>4, <1>6, <1>7, <2>3, <3>3, <4>1, <4>3, <5>1
      <4> QED BY <1>7, <4>2, <4>3
    <3> QED BY <3>2, <3>3
  <2> QED BY <1>6, <2>2, <2>3
<1>10. pwm_slot' \in 0..Slots /\ m' \in Position
  BY <1>1, <1>2
<1>11. low' <= high'
  BY <1>4, <1>6
<1> QED BY <1>3, <1>4, <1>8, <1>9, <1>10, <1>11

LEMMA CallbackInv ==
  ASSUME IInv, clock_display_digit \in [Position -> Patterns], clock_display_callback
  PROVE  IInv'
<1>1. Slots \in Nat \ {0} /\ pwm_slot \in 0..Slots /\ m \in Position
  BY DisplayAssumption DEF IInv, Typed, Slots
<1>2. /\ TurnSoFar' /\ m' \in Position /\ pwm_slot' \in 0..Slots
      /\ latched' \in [Position -> Patterns]
      /\ litSlots' \in Nat /\ low' \in Int /\ high' \in Int /\ low' <= high'
  <2>1. CASE TurnIsOver
    <3>1. NextPosition \in Position
      BY <1>1, DisplayAssumption DEF NextPosition, Position
    <3>2. Slot(NextPosition, 0) /\ 0 \in 0..Slots-1
      BY <1>1, <2>1 DEF clock_display_callback
    <3> HIDE DEF NextPosition
    <3> QED BY <3>1, <3>2, SlotInv
  <2>2. CASE ~TurnIsOver
    <3>1. Slot(m, pwm_slot) /\ pwm_slot \in 0..Slots-1
      BY <1>1, <2>2, DisplayAssumption DEF clock_display_callback, TurnIsOver, Slots
    <3> QED BY <1>1, <3>1, SlotInv
  <2> QED BY <2>1, <2>2
<1>3. filament_clock' \in 0..FilamentDivider /\ filament_stat' \in BOOLEAN
  <2>1. filament_clock \in 0..FilamentDivider /\ filament_stat \in BOOLEAN
    BY DEF IInv, Typed
  <2>2. CASE filament_clock + 1 > FilamentDivider
    BY <2>1, <2>2, DisplayAssumption DEF clock_display_callback, Filament
  <2>3. CASE filament_clock + 1 <= FilamentDivider
    BY <2>1, <2>3, DisplayAssumption DEF clock_display_callback, Filament
  <2> QED BY <2>1, <2>2, <2>3, DisplayAssumption
<1>4. clock_display_brightness' \in Int
  BY DEF clock_display_callback, IInv, Typed
<1> QED BY <1>2, <1>3, <1>4 DEF IInv, Typed, Slots, Position

DigitsTyped == clock_display_digit \in [Position -> Patterns]

LEMMA StepInv == DigitsTyped /\ IInv /\ [DisplayNext]_displayVars => DigitsTyped' /\ IInv'
<1> SUFFICES ASSUME DigitsTyped, IInv, [DisplayNext]_displayVars PROVE DigitsTyped' /\ IInv'
  OBVIOUS
<1>1. ASSUME clock_display_callback PROVE DigitsTyped' /\ IInv'
  <2>1. DigitsTyped'
    BY <1>1 DEF clock_display_callback, DigitsTyped
  <2> QED BY <1>1, <2>1, CallbackInv DEF DigitsTyped
<1>2. ASSUME NEW b \in Brightness, clock_display_set_brigthness(b) PROVE DigitsTyped' /\ IInv'
  BY <1>2, DisplayAssumption
     DEF clock_display_set_brigthness, DigitsTyped, IInv, Typed, TurnSoFar, pwmVars
<1>3. ASSUME NEW p \in Position, NEW x \in Patterns, Store(p, x) PROVE DigitsTyped' /\ IInv'
  BY <1>3 DEF Store, DigitsTyped, IInv, Typed, TurnSoFar, pwmVars
<1>4. CASE UNCHANGED displayVars
  BY <1>4 DEF displayVars, pwmVars, DigitsTyped, IInv, Typed, TurnSoFar
<1> QED BY <1>1, <1>2, <1>3, <1>4 DEF DisplayNext

LEMMA DisplayInvariant == DisplaySpec => [](DigitsTyped /\ IInv)
<1>1. DisplayInit => DigitsTyped
  BY DEF DisplayInit, DigitsTyped
<1> QED BY <1>1, InitInv, StepInv, PTL DEF DisplaySpec

-----------------------------------------------------------------------------
\* Dimming is exact: a turn that is over was lit for as many slots as a brightness
\* between the least and the greatest in use during the turn asks for.
THEOREM TurnsAreDimmed == DisplaySpec => []DutyCycle
<1>1. IInv => DutyCycle
  <2> SUFFICES ASSUME IInv, pwm_slot = Slots
               PROVE  Clamp(low) <= litSlots /\ litSlots <= Clamp(high)
    BY DEF DutyCycle
  <2>1. /\ Slots \in Nat \ {0} /\ low \in Int /\ high \in Int /\ litSlots \in Nat
        /\ litSlots <= Slots
    BY DisplayAssumption DEF IInv, Typed, TurnSoFar, Slots
  <2>2. litSlots = Slots \/ low <= litSlots
    BY <2>1 DEF IInv, TurnSoFar
  <2>3. litSlots = 0 \/ litSlots <= high
    BY DEF IInv, TurnSoFar
  <2>4. Clamp(low) <= litSlots
    BY <2>1, <2>2, ClampIs
  <2>5. litSlots <= Clamp(high)
    BY <2>1, <2>3, ClampIs
  <2> QED BY <2>4, <2>5
<1> QED BY <1>1, DisplayInvariant, PTL

\* A position that stays lit keeps the pattern it was sent, whatever is stored into
\* the digits meanwhile.
THEOREM OnePatternIsShown == DisplaySpec => OnePatternPerTurn
<1>1. IInv /\ [DisplayNext]_displayVars
        => [lit # Dark /\ lit' = lit => latched' = latched]_displayVars
  <2> SUFFICES ASSUME IInv, [DisplayNext]_displayVars, lit # Dark, lit' = lit
               PROVE  latched' = latched
    OBVIOUS
  <2>1. CASE clock_display_callback
    <3>1. lit = m /\ m \in Position /\ pwm_slot > 0 /\ pwm_slot \in 0..Slots
      BY DisplayAssumption DEF IInv, Typed, TurnSoFar, Slots
    <3>2. CASE ~TurnIsOver
      BY <2>1, <3>1, <3>2 DEF clock_display_callback, Slot, Transmits
    <3>3. CASE TurnIsOver
      <4>1. NextPosition # m /\ NextPosition \in Position
        BY <3>1, DisplayAssumption DEF NextPosition, Position
      <4>2. lit' \in {Dark, NextPosition}
        BY <2>1, <3>3 DEF clock_display_callback, Slot, Transmits
      <4> QED BY <3>1, <4>1, <4>2
    <3> QED BY <3>2, <3>3
  <2>2. CASE \E b \in Brightness : clock_display_set_brigthness(b)
    BY <2>2 DEF clock_display_set_brigthness, pwmVars
  <2>3. CASE \E p \in Position, x \in Patterns : Store(p, x)
    BY <2>3 DEF Store, pwmVars
  <2>4. CASE UNCHANGED displayVars
    BY <2>4 DEF displayVars, pwmVars
  <2> QED BY <2>1, <2>2, <2>3, <2>4 DEF DisplayNext
<1> QED BY <1>1, DisplayInvariant, PTL DEF DisplaySpec, OnePatternPerTurn

-----------------------------------------------------------------------------
(* The display drives its positions in turn (the safety part of Multiplex).*)

LEMMA ModUnique ==
  ASSUME NEW n \in Nat \ {0}, NEW q \in Nat, NEW r \in 0..n-1
  PROVE  (q * n + r) % n = r /\ (q * n + r) \div n = q
OBVIOUS

LEMMA Rounds ==
  ASSUME NEW n \in Nat \ {0}, NEW x \in 0..n-1
  PROVE  (x + 1) % n = IF x + 1 = n THEN 0 ELSE x + 1
<1>1. CASE x + 1 = n
  BY <1>1
<1>2. CASE x + 1 # n
  BY <1>2
<1> QED BY <1>1, <1>2

\* A slot of a position, counted through all of them, stays below the round.
LEMMA SlotBound ==
  ASSUME NEW D \in Nat \ {0}, NEW W \in Nat \ {0}, NEW p \in 0..D-1, NEW i \in 0..W-1
  PROVE  p * W \in Nat /\ p * W + i \in 0..D * W - 1
<1>1. p * W \in Nat /\ p * W <= (D - 1) * W
  OBVIOUS
<1>2. (D - 1) * W = D * W - W
  OBVIOUS
<1> QED BY <1>1, <1>2

Round == Positions * Slots

LEMMA RoundType == Round \in Nat \ {0} /\ Slots \in Nat \ {0} /\ Positions \in Nat \ {0}
<1>1. Slots \in Nat \ {0} /\ Positions \in Nat \ {0}
  BY DisplayAssumption DEF Slots
<1> QED BY <1>1 DEF Round

\* The interrupt goes from each slot to the next one of the round.
LEMMA SlotAdvances ==
  ASSUME IInv, clock_display_callback
  PROVE  \E p \in Position, slot \in 0..Slots-1 :
           /\ Slot(p, slot)
           /\ SlotShown' = p * Slots + slot
           /\ SlotShown' = (SlotShown + 1) % Round
<1> DEFINE D == Positions
<1>1. /\ Round = D * Slots /\ Round \in Nat \ {0} /\ Slots \in Nat \ {0} /\ D \in Nat \ {0}
      /\ Position = 0..D-1 /\ m \in Position /\ pwm_slot \in 0..Slots
      /\ pwm_slot = 0 => m = 0
  BY RoundType DEF Round, Position, IInv, Typed, TurnSoFar
<1>2. ASSUME NEW p \in Position, NEW slot \in 0..Slots-1, Slot(p, slot)
      PROVE  SlotShown' = p * Slots + slot /\ p * Slots + slot \in 0..Round-1
  <2>1. m' = p /\ pwm_slot' = slot + 1 /\ slot + 1 # 0
    BY <1>1, <1>2 DEF Slot
  <2>2. p * Slots \in Nat /\ p * Slots + slot \in 0..Round-1
    BY <1>1, SlotBound
  <2>3. SlotShown' = p * Slots + (slot + 1) - 1
    BY <2>1 DEF SlotShown, Slots
  <2> QED BY <1>1, <2>2, <2>3
<1>3. CASE TurnIsOver
  <2> DEFINE p == NextPosition
  <2>1. pwm_slot = Slots
    BY <1>1, <1>3, DisplayAssumption DEF TurnIsOver, Slots
  <2>2. p \in Position /\ 0 \in 0..Slots-1 /\ Slot(p, 0)
    BY <1>1, <1>3 DEF clock_display_callback, NextPosition
  <2>3. SlotShown = (m * Slots + Slots) - 1 /\ m * Slots + (Slots - 1) \in 0..Round-1
        /\ m * Slots \in Nat
    BY <1>1, <2>1, SlotBound DEF SlotShown
  <2>4. CASE m + 1 = D
    <3>1. p = 0
      BY <2>4 DEF NextPosition
    <3>2. m * Slots + Slots = Round
      BY <1>1, <2>4
    <3>3. SlotShown' = 0
      BY <1>1, <1>2, <2>2, <3>1
    <3>4. SlotShown \in 0..Round-1 /\ SlotShown + 1 = Round
      BY <1>1, <2>3, <3>2
    <3>5. (SlotShown + 1) % Round = 0
      BY <1>1, <3>4, Rounds
    <3> QED BY <1>1, <1>2, <2>2, <3>3, <3>5
  <2>5. CASE m + 1 # D
    <3>1. p = m + 1
      BY <2>5 DEF NextPosition
    <3>2. (m + 1) * Slots = m * Slots + Slots
      BY <1>1
    <3>3. SlotShown' = p * Slots + 0 /\ p * Slots + 0 \in 0..Round-1
      BY <1>2, <2>2
    <3>4. SlotShown' = SlotShown + 1 /\ SlotShown \in 0..Round-1 /\ SlotShown + 1 # Round
      BY <1>1, <2>3, <3>1, <3>2, <3>3
    <3>5. (SlotShown + 1) % Round = SlotShown + 1
      BY <1>1, <3>4, Rounds
    <3> QED BY <2>2, <3>3, <3>4, <3>5
  <2> QED BY <2>4, <2>5
<1>4. CASE ~TurnIsOver
  <2>1. pwm_slot \in 0..Slots-1 /\ Slot(m, pwm_slot)
    BY <1>1, <1>4, DisplayAssumption DEF TurnIsOver, Slots, clock_display_callback
  <2>2. SlotShown' = m * Slots + pwm_slot /\ m * Slots + pwm_slot \in 0..Round-1
    BY <1>1, <1>2, <2>1
  <2>3. CASE pwm_slot = 0
    <3>1. SlotShown = Round - 1 /\ SlotShown' = 0
      BY <1>1, <2>2, <2>3 DEF SlotShown
    <3>2. (SlotShown + 1) % Round = 0
      BY <1>1, <3>1, Rounds
    <3> QED BY <1>1, <2>1, <2>2, <3>1, <3>2
  <2>4. CASE pwm_slot # 0
    <3>1. SlotShown = (m * Slots + pwm_slot) - 1
      BY <1>1, <2>1, <2>4, SlotBound DEF SlotShown
    <3>2. m * Slots \in Nat
      BY <1>1, <2>1, SlotBound
    <3>3. SlotShown \in 0..Round-1 /\ SlotShown + 1 = SlotShown' /\ SlotShown + 1 # Round
      BY <1>1, <2>1, <2>2, <2>4, <3>1, <3>2
    <3>4. (SlotShown + 1) % Round = SlotShown'
      BY <1>1, <3>3, Rounds
    <3> QED BY <1>1, <2>1, <2>2, <3>4
  <2> QED BY <2>3, <2>4
<1> QED BY <1>3, <1>4

LEMMA FilamentAdvances ==
  ASSUME IInv, Filament
  PROVE  FilamentBeat' = (FilamentBeat + 1) % (2 * (FilamentDivider + 1))
<1>1. filament_clock \in 0..FilamentDivider /\ filament_stat \in BOOLEAN /\ FilamentDivider \in Nat
  BY DisplayAssumption DEF IInv, Typed
<1>2. FilamentBeat \in 0..2 * (FilamentDivider + 1) - 1
  BY <1>1 DEF FilamentBeat
<1>3. (FilamentBeat + 1) % (2 * (FilamentDivider + 1))
        = IF FilamentBeat + 1 = 2 * (FilamentDivider + 1) THEN 0 ELSE FilamentBeat + 1
  BY <1>1, <1>2, Rounds
<1>4. CASE filament_clock + 1 > FilamentDivider
  <2>1. filament_clock = FilamentDivider /\ filament_clock' = 0 /\ filament_stat' = ~filament_stat
    BY <1>1, <1>4 DEF Filament
  <2>2. CASE filament_stat
    <3>1. FilamentBeat = FilamentDivider + (FilamentDivider + 1) /\ filament_stat' = FALSE
      BY <2>1, <2>2 DEF FilamentBeat
    <3>2. FilamentBeat' = 0
      BY <2>1, <3>1 DEF FilamentBeat
    <3> QED BY <1>1, <1>3, <3>1, <3>2
  <2>3. CASE ~filament_stat
    <3>1. FilamentBeat = FilamentDivider + 0
      BY <2>1, <2>3 DEF FilamentBeat
    <3>2. filament_stat' = TRUE
      BY <2>1, <2>3
    <3>3. FilamentBeat' = 0 + (FilamentDivider + 1)
      BY <2>1, <3>2 DEF FilamentBeat
    <3> QED BY <1>1, <1>3, <3>1, <3>3
  <2> QED BY <2>2, <2>3
<1>5. CASE filament_clock + 1 <= FilamentDivider
  <2>1. filament_clock' = filament_clock + 1 /\ filament_stat' = filament_stat
    BY <1>1, <1>5 DEF Filament
  <2>2. CASE filament_stat
    BY <1>1, <1>3, <1>5, <2>1, <2>2 DEF FilamentBeat
  <2>3. CASE ~filament_stat
    BY <1>1, <1>3, <1>5, <2>1, <2>3 DEF FilamentBeat
  <2> QED BY <2>2, <2>3
<1> QED BY <1>1, <1>4, <1>5

LEMMA CallbackIsBeat == ASSUME IInv, clock_display_callback PROVE Promise!Beat
<1>1. PICK p \in Position, slot \in 0..Slots-1 :
        /\ Slot(p, slot)
        /\ SlotShown' = p * Slots + slot
        /\ SlotShown' = (SlotShown + 1) % Round
  BY SlotAdvances
<1>2. SlotShown' % Slots = slot /\ SlotShown' \div Slots = p
  <2>1. Slots \in Nat \ {0} /\ p \in Nat
    BY <1>1, RoundType DEF Position
  <2>2. (p * Slots + slot) % Slots = slot /\ (p * Slots + slot) \div Slots = p
    BY <2>1, ModUnique
  <2> QED BY <1>1, <2>2
<1>3. lit' \in {Dark, IF slot = 0 THEN p ELSE lit}
  BY <1>1 DEF Slot, Transmits
<1>4. FilamentBeat' = (FilamentBeat + 1) % (2 * (FilamentDivider + 1))
  BY FilamentAdvances DEF clock_display_callback
<1>5. lit' \in {Dark, IF SlotShown' % Slots = 0 THEN SlotShown' \div Slots ELSE lit}
  BY <1>2, <1>3
<1> QED BY <1>1, <1>4, <1>5 DEF Promise!Beat, Promise!Round, Promise!Dark, Promise!Turn, Dark, Round

\* Every step of clock_display.c is a beat of the promised display or leaves it as
\* it is: the positions are driven in turn and for equally long, and the filament
\* evenly, for every number of positions and slots.
THEOREM DisplayImplementsMultiplex == DisplaySpec => ImplementsMultiplex
<1>1. DisplayInit => Promise!MultiplexInit
  <2> SUFFICES ASSUME DisplayInit PROVE Promise!MultiplexInit
    OBVIOUS
  <2>1. PICK x \in Patterns : PwmInit(x)
    BY DEF DisplayInit
  <2>2. SlotShown = Positions * Slots - 1 /\ lit = Dark /\ FilamentBeat = 0
    BY <2>1 DEF PwmInit, SlotShown, FilamentBeat
  <2> QED BY <2>2 DEF Promise!MultiplexInit, Promise!Round, Promise!Dark, Dark
<1>2. IInv /\ [DisplayNext]_displayVars => [Promise!Beat]_(Promise!beatVars)
  <2> SUFFICES ASSUME IInv, [DisplayNext]_displayVars PROVE [Promise!Beat]_(Promise!beatVars)
    OBVIOUS
  <2>1. CASE clock_display_callback
    BY <2>1, CallbackIsBeat
  <2>2. CASE UNCHANGED pwmVars
    BY <2>2 DEF pwmVars, Promise!beatVars, SlotShown, FilamentBeat
  <2> QED BY <2>1, <2>2 DEF DisplayNext, clock_display_set_brigthness, Store, displayVars
<1> QED BY <1>1, <1>2, DisplayInvariant, PTL
     DEF DisplaySpec, ImplementsMultiplex, Promise!MultiplexSpec
=============================================================================
