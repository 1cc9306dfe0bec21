---------------------------- MODULE ClockProofs -----------------------------
(***************************************************************************)
(* Proofs about Clock for every day, number of PWM slots, period of the    *)
(* timer and length of the writing of a face that TimingAssumption allows: *)
(* the interrupt shows no garbage, shows every face, and tears one position*)
(* at most.  The argument counts, for each position, the interrupts until  *)
(* its byte is sent next.  Last, the load register of the hardware timer,  *)
(* which calls the interrupt, is exact for every word width, clock and set *)
(* of delays that HwTimerAssumption admits, the real 2^32 of hw_timer.c    *)
(* among them, which is beyond TLC's integers.                             *)
(***************************************************************************)
EXTENDS Clock, ClockTimerProofs, FiniteSetTheorems

-----------------------------------------------------------------------------
(* The display's round.                                                    *)

\* Any byte, with what stands for NULL and for nothing sent yet.
AnyByte == [glyph : 0..13, dot : BOOLEAN, inverted : BOOLEAN]

RoundTyped ==
  /\ m \in Digit /\ pwm_slot \in 0..Slots
  /\ pwm_slot = 0 => m = 0
  /\ latched \in [Digit -> AnyByte]

\* The slot last shown, counted through all positions.
Shown == IF pwm_slot = 0 THEN 4 * Slots - 1 ELSE m * Slots + pwm_slot - 1

\* The interrupts until position p is sent next.
Distance(p) ==
  IF p * Slots > Shown THEN p * Slots - Shown ELSE p * Slots - Shown + 4 * Slots

LEMMA SlotsType == Slots \in Nat \ {0} /\ Display!Slots = Slots /\ Slots = CLOCK_DISPLAY_PWM_MAX + 1
BY TimingAssumption DEF Slots, Display!Slots

LEMMA FourDigits == Digit = {0, 1, 2, 3}
BY DEF Digit, DISPLAY_DIGIT_MAX

LEMMA Multiples ==
  /\ 0 * Slots = 0 /\ 1 * Slots = Slots
  /\ 2 * Slots = Slots + Slots /\ 3 * Slots = Slots + Slots + Slots
BY SlotsType

LEMMA MultiplesApart ==
  ASSUME NEW p \in Digit, NEW q \in Digit
  PROVE  /\ p * Slots \in 0..3 * Slots
         /\ p < q => p * Slots + Slots <= q * Slots
<1>1. p * Slots \in {0, Slots, 2 * Slots, 3 * Slots}
  BY Multiples, FourDigits
<1>2. CASE p < q
  <2>1. CASE p = 0
    BY <1>2, <2>1, SlotsType, Multiples, FourDigits
  <2>2. CASE p = 1
    BY <1>2, <2>2, SlotsType, Multiples, FourDigits
  <2>3. CASE p = 2
    BY <1>2, <2>3, SlotsType, Multiples, FourDigits
  <2> QED BY <1>1, <1>2, <2>1, <2>2, <2>3, SlotsType, FourDigits
<1> QED BY <1>1, <1>2, SlotsType

LEMMA ShownType == ASSUME RoundTyped PROVE Shown \in 0..4 * Slots - 1
<1>1. CASE m = 0
  BY <1>1, SlotsType, Multiples DEF RoundTyped, Shown
<1>2. CASE m = 1
  BY <1>2, SlotsType, Multiples DEF RoundTyped, Shown
<1>3. CASE m = 2
  BY <1>3, SlotsType, Multiples DEF RoundTyped, Shown
<1>4. CASE m = 3
  BY <1>4, SlotsType, Multiples DEF RoundTyped, Shown
<1> QED BY <1>1, <1>2, <1>3, <1>4, FourDigits DEF RoundTyped

LEMMA DistanceType ==
  ASSUME RoundTyped, NEW p \in Digit
  PROVE  Distance(p) \in 1..4 * Slots
<1>1. p * Slots \in 0..3 * Slots
  BY SlotsType, Multiples, FourDigits
<1> QED BY <1>1, ShownType, SlotsType DEF Distance

\* One slot of position q, in a round of four.
LEMMA SlotSends ==
  ASSUME digits \in [Digit -> AnyByte], RoundTyped,
         NEW q \in Digit, NEW slot \in 0..Slots-1, Display!Slot(q, slot)
  PROVE  /\ RoundTyped'
         /\ Shown' = q * Slots + slot
         /\ \A p \in Digit :
              latched'[p] = IF p * Slots = q * Slots + slot THEN digits[p] ELSE latched[p]
<1>1. /\ m' = q /\ pwm_slot' = slot + 1
      /\ latched' = IF slot = 0 THEN [latched EXCEPT ![q] = digits[q]] ELSE latched
  BY DEF Display!Slot, Display!Transmits
<1>2. latched \in [Digit -> AnyByte] /\ digits[q] \in AnyByte
  BY DEF RoundTyped
<1>3. latched' \in [Digit -> AnyByte]
  BY <1>1, <1>2
<1>4. Slots' = Slots
  BY DEF Slots
<1>5. slot + 1 \in 1..Slots
  BY SlotsType
<1>6. RoundTyped'
  BY <1>1, <1>3, <1>4, <1>5 DEF RoundTyped
<1>7. Shown' = q * Slots + slot
  <2>1. Shown' = q * Slots + (slot + 1) - 1
    BY <1>1, <1>4, <1>5 DEF Shown
  <2>2. q * Slots \in Int
    BY SlotsType, FourDigits
  <2> QED BY <2>1, <2>2
<1>8. ASSUME NEW p \in Digit
      PROVE  (p * Slots = q * Slots + slot) <=> (p = q /\ slot = 0)
  <2>1. /\ p * Slots \in 0..3 * Slots /\ q * Slots \in 0..3 * Slots
        /\ p < q => p * Slots + Slots <= q * Slots
        /\ q < p => q * Slots + Slots <= p * Slots
    BY MultiplesApart
  <2>2. CASE p = q
    BY <2>1, <2>2, SlotsType
  <2>3. CASE p # q
    <3>1. p < q \/ q < p
      BY <2>3, FourDigits
    <3> QED BY <2>1, <2>3, <3>1, SlotsType
  <2> QED BY <2>2, <2>3
<1>9. ASSUME NEW p \in Digit
      PROVE  latched'[p] = IF p = q /\ slot = 0 THEN digits[p] ELSE latched[p]
  BY <1>1, <1>2
<1> QED BY <1>6, <1>7, <1>8, <1>9

LEMMA CallbackSends ==
  ASSUME digits \in [Digit -> AnyByte], RoundTyped, Display!clock_display_callback
  PROVE  /\ RoundTyped'
         /\ Shown' = IF Shown = 4 * Slots - 1 THEN 0 ELSE Shown + 1
         /\ \A p \in Digit : latched'[p] = IF p * Slots = Shown' THEN digits[p] ELSE latched[p]
<1>1. m \in Digit /\ pwm_slot \in 0..Slots /\ (pwm_slot = 0 => m = 0)
  BY DEF RoundTyped
<1>2. CASE Display!TurnIsOver
  <2>1. pwm_slot = Slots
    BY <1>1, <1>2, SlotsType, TimingAssumption DEF Display!TurnIsOver
  <2>2. Display!NextPosition = (IF m = 3 THEN 0 ELSE m + 1) /\ Display!NextPosition \in Digit
    BY <1>1, FourDigits DEF Display!NextPosition, DISPLAY_DIGIT_MAX
  <2>3. Display!Slot(Display!NextPosition, 0)
    BY <1>2 DEF Display!clock_display_callback
  <2>4. /\ RoundTyped' /\ Shown' = Display!NextPosition * Slots + 0
        /\ \A p \in Digit :
             latched'[p] = IF p * Slots = Display!NextPosition * Slots + 0
                           THEN digits[p] ELSE latched[p]
    BY <2>2, <2>3, SlotSends, SlotsType
  <2>5. Shown = m * Slots + Slots - 1
    BY <2>1, SlotsType DEF Shown
  <2>6. Shown' = IF Shown = 4 * Slots - 1 THEN 0 ELSE Shown + 1
    <3>1. CASE m = 0
      BY <2>2, <2>4, <2>5, <3>1, SlotsType, Multiples
    <3>2. CASE m = 1
      BY <2>2, <2>4, <2>5, <3>2, SlotsType, Multiples
    <3>3. CASE m = 2
      BY <2>2, <2>4, <2>5, <3>3, SlotsType, Multiples
    <3>4. CASE m = 3
      BY <2>2, <2>4, <2>5, <3>4, SlotsType, Multiples
    <3> QED BY <1>1, <3>1, <3>2, <3>3, <3>4, FourDigits
  <2> QED BY <2>4, <2>6
<1>3. CASE ~Display!TurnIsOver
  <2>1. pwm_slot \in 0..Slots-1
    BY <1>1, <1>3, SlotsType, TimingAssumption DEF Display!TurnIsOver
  <2>2. Display!Slot(m, pwm_slot)
    BY <1>3 DEF Display!clock_display_callback
  <2>3. /\ RoundTyped' /\ Shown' = m * Slots + pwm_slot
        /\ \A p \in Digit :
             latched'[p] = IF p * Slots = m * Slots + pwm_slot THEN digits[p] ELSE latched[p]
    BY <1>1, <2>1, <2>2, SlotSends
  <2>4. Shown' = IF Shown = 4 * Slots - 1 THEN 0 ELSE Shown + 1
    <3>1. CASE pwm_slot = 0
      BY <1>1, <2>3, <3>1, SlotsType, Multiples DEF Shown
    <3>2. CASE pwm_slot # 0 /\ m = 0
      BY <2>1, <2>3, <3>2, SlotsType, Multiples DEF Shown
    <3>3. CASE pwm_slot # 0 /\ m = 1
      BY <2>1, <2>3, <3>3, SlotsType, Multiples DEF Shown
    <3>4. CASE pwm_slot # 0 /\ m = 2
      BY <2>1, <2>3, <3>4, SlotsType, Multiples DEF Shown
    <3>5. CASE pwm_slot # 0 /\ m = 3
      BY <2>1, <2>3, <3>5, SlotsType, Multiples DEF Shown
    <3> QED BY <1>1, <3>1, <3>2, <3>3, <3>4, <3>5, FourDigits
  <2> QED BY <2>3, <2>4
<1> QED BY <1>2, <1>3

\* Each interrupt brings every position one nearer to being sent, or sends it.
LEMMA Countdown ==
  ASSUME digits \in [Digit -> AnyByte], RoundTyped, Display!clock_display_callback,
         NEW p \in Digit
  PROVE  /\ Distance(p) = 1 => latched'[p] = digits[p] /\ Distance(p)' = 4 * Slots
         /\ Distance(p) # 1 => latched'[p] = latched[p] /\ Distance(p)' = Distance(p) - 1
<1>1. /\ RoundTyped' /\ Shown \in 0..4 * Slots - 1
      /\ Shown' = IF Shown = 4 * Slots - 1 THEN 0 ELSE Shown + 1
      /\ latched'[p] = IF p * Slots = Shown' THEN digits[p] ELSE latched[p]
  BY CallbackSends, ShownType
<1>2. p * Slots \in 0..3 * Slots /\ Slots' = Slots
  BY SlotsType, Multiples, FourDigits DEF Slots
<1>3. Distance(p)' = IF p * Slots > Shown' THEN p * Slots - Shown' ELSE p * Slots - Shown' + 4 * Slots
  BY <1>2 DEF Distance
<1>4. Distance(p) = 1 <=> p * Slots = Shown'
  BY <1>1, <1>2, SlotsType DEF Distance
<1>5. Distance(p) = 1 => Distance(p)' = 4 * Slots
  BY <1>1, <1>2, <1>3, <1>4, SlotsType
<1>6. Distance(p) # 1 => Distance(p)' = Distance(p) - 1
  BY <1>1, <1>2, <1>3, <1>4, SlotsType DEF Distance
<1> QED BY <1>1, <1>4, <1>5, <1>6

\* When one position is sent the next is at least a turn away.
LEMMA TurnsApart ==
  ASSUME RoundTyped, NEW p \in Digit, NEW q \in Digit, p # q, Distance(q) = 1
  PROVE  Distance(p) > Slots
<1>1. Shown \in 0..4 * Slots - 1
  BY ShownType
<1>2. /\ p * Slots \in 0..3 * Slots /\ q * Slots \in 0..3 * Slots
      /\ p * Slots + Slots <= q * Slots \/ q * Slots + Slots <= p * Slots
  BY MultiplesApart, FourDigits
<1>3. (q * Slots = Shown + 1) \/ (q * Slots = 0 /\ Shown = 4 * Slots - 1)
  BY <1>1, <1>2, SlotsType DEF Distance
<1> QED BY <1>1, <1>2, <1>3, SlotsType DEF Distance

-----------------------------------------------------------------------------
(* Start-up and types.                                                     *)

Calls ==
  /\ started \in 0..6 /\ age \in 0..Period
  /\ IF started = 0
     THEN /\ next_store = Idle /\ tm = localtime(0) /\ dot_position = 0
          /\ clock_display_invert = FALSE /\ synced = FALSE /\ now = 0
          /\ digits = [p \in Digit |-> Null]
          /\ FRC1_CTRL.enable = FALSE
     ELSE TypeOK
  /\ RoundTyped
  /\ oldFace \in [Digit -> AnyByte]

LEMMA CallOrder ==
  ASSUME started \in 0..6
  PROVE  /\ Running <=> started = 6
         /\ OutputsEnabled <=> started = 6
         /\ Begins("os_malloc") => started = 0
         /\ Begins("hw_timer_init") => started = 1
         /\ Begins("hw_timer_set_func") => started = 2
         /\ Begins("hw_timer_arm") => started = 3
         /\ Begins("clock_timer_init") => started = 4
         /\ Begins("clock_display_enable") => started = 5
<1>1. /\ Len(sys_init_cb) = 6
      /\ sys_init_cb[1] = "os_malloc" /\ sys_init_cb[2] = "hw_timer_init"
      /\ sys_init_cb[3] = "hw_timer_set_func" /\ sys_init_cb[4] = "hw_timer_arm"
      /\ sys_init_cb[5] = "clock_timer_init" /\ sys_init_cb[6] = "clock_display_enable"
  BY DEF sys_init_cb
<1>2. Running <=> started = 6
  BY <1>1 DEF Running
<1>3. ASSUME ~Running
      PROVE  /\ sys_init_cb[started + 1] = "os_malloc" => started = 0
             /\ sys_init_cb[started + 1] = "hw_timer_init" => started = 1
             /\ sys_init_cb[started + 1] = "hw_timer_set_func" => started = 2
             /\ sys_init_cb[started + 1] = "hw_timer_arm" => started = 3
             /\ sys_init_cb[started + 1] = "clock_timer_init" => started = 4
             /\ sys_init_cb[started + 1] = "clock_display_enable" => started = 5
  <2>1. started \in {0, 1, 2, 3, 4, 5}
    BY <1>2, <1>3
  <2>2. started + 1 \in {1, 2, 3, 4, 5, 6} /\ started = (started + 1) - 1
    BY <2>1
  <2> QED BY <1>1, <2>1, <2>2
<1>4. OutputsEnabled <=> started = 6
  <2>1. ASSUME NEW i \in 1..started, sys_init_cb[i] = "clock_display_enable" PROVE started = 6
    <3>1. i \in {1, 2, 3, 4, 5, 6} /\ i <= started
      BY <2>1
    <3>2. i = 6
      BY <1>1, <2>1, <3>1
    <3> QED BY <3>1, <3>2
  <2>2. ASSUME started = 6 PROVE OutputsEnabled
    BY <1>1, <2>2 DEF OutputsEnabled
  <2> QED BY <2>1, <2>2 DEF OutputsEnabled
<1> QED BY <1>2, <1>3, <1>4 DEF Begins

LEMMA GarbageType == Garbage \in Byte /\ Null \in AnyByte /\ Nothing \in AnyByte /\ Byte \subseteq AnyByte
BY DEF Garbage, Null, Nothing, Pattern, Byte, AnyByte

LEMMA DigitsType == Calls => digits \in [Digit -> AnyByte]
<1>1. TypeOK => digits \in [Digit -> Byte]
  BY DEF TypeOK, Byte
<1> QED BY <1>1, GarbageType DEF Calls

LEMMA InitCalls == Init => Calls
<1> SUFFICES ASSUME Init PROVE Calls
  OBVIOUS
<1>1. /\ pwm_slot = 0 /\ m = 0 /\ latched = [p \in Display!Position |-> Nothing]
  BY DEF Init, Display!PwmInit
<1>2. Display!Position = Digit
  BY DEF Display!Position, Digit
<1>3. RoundTyped
  BY <1>1, <1>2, GarbageType, SlotsType, FourDigits DEF RoundTyped
<1>4. oldFace \in [Digit -> AnyByte]
  BY GarbageType DEF Init
<1>5. FRC1_CTRL.enable = FALSE
  BY DEF Init, HwInit
<1>6. age \in 0..Period /\ started \in 0..6 /\ started = 0
  BY TimingAssumption DEF Init
<1> QED BY <1>3, <1>4, <1>5, <1>6 DEF Init, Calls

\* What the steps other than the interrupt leave of the display's round.
LEMMA RoundKept ==
  ASSUME UNCHANGED <<m, pwm_slot, latched>>
  PROVE  /\ RoundTyped => RoundTyped'
         /\ \A p \in Digit : Distance(p)' = Distance(p) /\ latched'[p] = latched[p]
BY DEF RoundTyped, Distance, Shown, Slots

\* The steps of the clock timer within the clock.
LEMMA TimerSteps ==
  ASSUME Calls, StoreByte \/ TickTimer \/ SntpAnswers
  PROVE  /\ started # 0 /\ started' = started /\ TypeOK /\ TypeOK'
         /\ UNCHANGED <<m, pwm_slot, latched>>
<1>1. started # 0
  BY CallOrder DEF Calls, StoreByte, clock_timer_display, Writing, Idle, TickTimer, SntpAnswers
<1>2. TypeOK
  BY <1>1 DEF Calls
<1>3. TimerNext
  BY DEF StoreByte, TickTimer, SntpAnswers, TimerNext
<1>4. TypeOK'
  BY <1>2, <1>3, NextTyped
<1> QED BY <1>1, <1>2, <1>4 DEF StoreByte, TickTimer, SntpAnswers, displayVars

LEMMA StepCalls == Calls /\ [Next]_vars => Calls'
<1> SUFFICES ASSUME Calls, [Next]_vars PROVE Calls'
  OBVIOUS
<1>1. CASE AllocateDigits
  <2>1. started = 0 /\ started' = 1
    BY <1>1, CallOrder DEF AllocateDigits, Begins, Calls
  <2>2. RoundTyped'
    BY <1>1, RoundKept DEF AllocateDigits, displayVars, Calls
  <2>3. digits' \in [Digit -> Byte]
    BY <1>1, GarbageType DEF AllocateDigits
  <2>4. tm \in Time /\ 0 \in 0..4 * SecondsPerDay - 1
    <3>1. 0 \in 0..Day4-1
      BY Day DEF Day4, SPD
    <3>2. localtime(0) \in Time
      BY TimeAssumption, <3>1, LocaltimeInverts, Day DEF SPD, SecondsPerDay
    <3> QED BY <2>1, <3>1, <3>2 DEF Calls, Day4
  <2>5. /\ UNCHANGED <<clock_display_invert, tm, dot_position, synced, now, next_store>>
        /\ clock_display_invert = FALSE /\ dot_position = 0 /\ synced = FALSE /\ now = 0
        /\ next_store = 9
    BY <1>1, <2>1 DEF AllocateDigits, timeVars, Calls, Idle
  <2>6. TypeOK'
    <3>1. clock_display_invert' \in BOOLEAN /\ synced' \in BOOLEAN /\ tm' \in Time
      BY <2>4, <2>5
    <3>2. now' \in 0..4 * SecondsPerDay - 1 /\ next_store' \in 0..Idle /\ dot_position' \in Digit
      BY <2>4, <2>5, FourDigits DEF Idle
    <3> QED BY <2>3, <3>1, <3>2 DEF TypeOK, Byte
  <2> QED BY <1>1, <2>1, <2>2, <2>6 DEF AllocateDigits, Calls
<1>2. CASE StartInterrupt
  <2>1. started \in 1..3 /\ started' = started + 1
    <3>1. started \in 0..6
      BY DEF Calls
    <3>2. \/ Begins("hw_timer_init") \/ Begins("hw_timer_set_func") \/ Begins("hw_timer_arm")
      BY <1>2 DEF StartInterrupt
    <3>3. started \in 1..3
      BY <3>1, <3>2, CallOrder
    <3> QED BY <3>2, <3>3 DEF Begins
  <2>2. RoundTyped'
    BY <1>2, RoundKept DEF StartInterrupt, displayVars, Calls
  <2>3. TypeOK'
    BY <1>2, <2>1 DEF StartInterrupt, timerVars, timeVars, Calls, TypeOK
  <2> QED BY <1>2, <2>1, <2>2, <2>3 DEF StartInterrupt, Calls
<1>3. CASE clock_timer_init
  <2>1. started = 4 /\ started' = 5
    BY <1>3, CallOrder DEF clock_timer_init, Begins, Calls
  <2>2. RoundTyped' /\ oldFace' \in [Digit -> AnyByte] /\ age' \in 0..Period
    BY <1>3, RoundKept, DigitsType, TimingAssumption DEF clock_timer_init, displayVars, Calls
  <2>3. localtime(0) \in Time
    BY LocaltimeInverts, Day DEF SPD
  <2>4. TypeOK'
    BY <1>3, <2>1, <2>3, FourDigits DEF clock_timer_init, Calls, TypeOK, Idle
  <2> QED BY <2>1, <2>2, <2>4 DEF Calls
<1>4. CASE clock_display_enable
  <2>1. started = 5 /\ started' = 6
    BY <1>4, CallOrder DEF clock_display_enable, Begins, Calls
  <2>2. RoundTyped'
    BY <1>4, RoundKept DEF clock_display_enable, displayVars, Calls
  <2>3. TypeOK'
    BY <1>4, <2>1 DEF clock_display_enable, timerVars, timeVars, Calls, TypeOK
  <2> QED BY <1>4, <2>1, <2>2, <2>3 DEF clock_display_enable, Calls
<1>5. CASE Interrupt
  <2>1. RoundTyped'
    BY <1>5, CallbackSends, DigitsType DEF Interrupt, Calls
  <2>2. age' \in 0..Period
    BY <1>5, TimingAssumption DEF Interrupt, Calls
  <2>3. started # 0 /\ TypeOK'
    BY <1>5 DEF Interrupt, Dispatches, timerVars, timeVars, Calls, TypeOK
  <2> QED BY <1>5, <2>1, <2>2, <2>3 DEF Interrupt, Calls
<1>6. CASE StoreByte \/ TickTimer \/ SntpAnswers
  <2>1. RoundTyped'
    BY <1>6, TimerSteps, RoundKept DEF Calls
  <2>2. age' \in 0..Period /\ oldFace' \in [Digit -> AnyByte]
    BY <1>6, DigitsType, TimingAssumption DEF StoreByte, TickTimer, SntpAnswers, Calls
  <2> QED BY <1>6, <2>1, <2>2, TimerSteps DEF Calls
<1>7. CASE SetBrightness
  <2>1. UNCHANGED <<m, pwm_slot, latched, timerVars, hwVars, started, age, oldFace>>
    BY <1>7 DEF SetBrightness, Display!clock_display_set_brigthness, Display!pwmVars
  <2> QED BY <2>1, RoundKept DEF timerVars, timeVars, hwVars, Calls, TypeOK
<1>8. CASE UNCHANGED vars
  <2>1. UNCHANGED <<m, pwm_slot, latched, timerVars, hwVars, started, age, oldFace>>
    BY <1>8 DEF vars, displayVars
  <2> QED BY <2>1, RoundKept DEF timerVars, timeVars, hwVars, Calls, TypeOK
<1> QED BY <1>1, <1>2, <1>3, <1>4, <1>5, <1>6, <1>7, <1>8 DEF Next

LEMMA CallsInvariant == Spec => []Calls
BY InitCalls, StepCalls, PTL DEF Spec

-----------------------------------------------------------------------------
(* No garbage.                                                             *)

Glyphs ==
  /\ started >= 5 => \A p \in Digit : p < next_store => digits[p].glyph \in 0..10
  /\ started = 6 => \A p \in Digit : digits[p].glyph \in 0..10

LEMMA GlyphShown ==
  ASSUME NEW t \in Time, NEW p \in Digit
  PROVE  Glyph(t, p) \in 0..10
BY TimeAssumption DEF Glyph, Time, Digit, DISPLAY_DIGIT_MAX, Blank

LEMMA StoredGlyph ==
  ASSUME TypeOK, Writing, NEW p \in Digit
  PROVE  Stored(next_store)[p].glyph = IF p = next_store THEN Glyph(tm, p) ELSE digits[p].glyph
<1>1. /\ digits \in [Digit -> Byte] /\ next_store \in 0..8 /\ digits[p] \in Byte
      /\ dot_position \in Digit
  BY DEF TypeOK, Byte, Writing, Idle
<1>2. CASE next_store \in Digit
  <2>1. Stored(next_store) = [digits EXCEPT ![next_store] = Pattern(Glyph(tm, next_store), FALSE)]
    BY <1>2, FourDigits DEF Stored
  <2>2. Pattern(Glyph(tm, next_store), FALSE).glyph = Glyph(tm, next_store)
    BY DEF Pattern
  <2> QED BY <1>1, <1>2, <2>1, <2>2
<1>3. CASE next_store = 4
  <2>1. Stored(next_store) = [digits EXCEPT ![dot_position].dot = TRUE] /\ p # next_store
    BY <1>3, FourDigits DEF Stored
  <2>2. [digits[p] EXCEPT !.dot = TRUE].glyph = digits[p].glyph
    BY <1>1 DEF Byte
  <2> QED BY <1>1, <2>1, <2>2
<1>4. CASE next_store \in 5..8
  <2> DEFINE n == next_store - 5
  <2>1. /\ Stored(next_store) = [digits EXCEPT ![n].inverted = ~digits[n].inverted]
        /\ p # next_store /\ n \in Digit
    BY <1>4, FourDigits DEF Stored
  <2>2. [digits[p] EXCEPT !.inverted = ~digits[p].inverted].glyph = digits[p].glyph
    BY <1>1 DEF Byte
  <2> HIDE DEF n
  <2> QED BY <1>1, <2>1, <2>2
<1> QED BY <1>1, <1>2, <1>3, <1>4, FourDigits

LEMMA StepGlyphs == Calls /\ Calls' /\ Glyphs /\ [Next]_vars => Glyphs'
<1> SUFFICES ASSUME Calls, Calls', Glyphs, [Next]_vars PROVE Glyphs'
  OBVIOUS
<1>1. CASE AllocateDigits \/ StartInterrupt
  <2>1. \/ Begins("os_malloc") \/ Begins("hw_timer_init")
        \/ Begins("hw_timer_set_func") \/ Begins("hw_timer_arm")
    BY <1>1 DEF AllocateDigits, StartInterrupt
  <2>2. started' < 5
    BY <2>1, CallOrder DEF Begins, Calls
  <2> QED BY <2>2 DEF Glyphs, Calls
<1>2. CASE clock_timer_init
  <2>1. started' = 5 /\ next_store' = 0
    BY <1>2, CallOrder DEF clock_timer_init, Begins, Calls
  <2> QED BY <2>1, FourDigits DEF Glyphs
<1>3. CASE clock_display_enable
  <2>1. started = 5 /\ ~Writing /\ TypeOK /\ UNCHANGED <<digits, next_store>>
    BY <1>3, CallOrder DEF clock_display_enable, Begins, timerVars, Calls
  <2>2. \A p \in Digit : p < next_store
    BY <2>1, FourDigits DEF Writing, Idle, TypeOK
  <2> QED BY <2>1, <2>2 DEF Glyphs
<1>4. CASE StoreByte
  <2>1. /\ TypeOK /\ Writing /\ started' = started
        /\ digits' = Stored(next_store) /\ next_store \in 0..8
        /\ next_store' = IF next_store = 4 /\ ~clock_display_invert THEN 9 ELSE next_store + 1
    BY <1>4, TimerSteps DEF StoreByte, clock_timer_display, TypeOK, Writing, Idle
  <2>2. ASSUME NEW p \in Digit
        PROVE digits'[p].glyph = IF p = next_store THEN Glyph(tm, p) ELSE digits[p].glyph
    BY <2>1, StoredGlyph
  <2>3. \A p \in Digit : Glyph(tm, p) \in 0..10
    BY <2>1, GlyphShown DEF TypeOK
  <2>4. ASSUME NEW p \in Digit, p < next_store' PROVE p < next_store \/ p = next_store
    BY <2>1, <2>4, FourDigits
  <2>5. ASSUME started >= 5, NEW p \in Digit, p < next_store' PROVE digits'[p].glyph \in 0..10
    BY <2>2, <2>3, <2>4, <2>5 DEF Glyphs
  <2>6. ASSUME started = 6, NEW p \in Digit PROVE digits'[p].glyph \in 0..10
    BY <2>2, <2>3, <2>6 DEF Glyphs
  <2> QED BY <2>1, <2>5, <2>6 DEF Glyphs
<1>5. CASE TickTimer
  <2>1. started' = started /\ digits' = digits /\ next_store' = 0
    BY <1>5 DEF TickTimer, seconds_tick
  <2> QED BY <2>1, FourDigits DEF Glyphs
<1>6. CASE Interrupt \/ SntpAnswers \/ SetBrightness \/ UNCHANGED vars
  <2>1. UNCHANGED <<started, digits, next_store>>
    BY <1>6 DEF Interrupt, SntpAnswers, SetTime, SetBrightness, vars, timerVars
  <2> QED BY <2>1 DEF Glyphs
<1> QED BY <1>1, <1>2, <1>3, <1>4, <1>5, <1>6 DEF Next

\* Every other step leaves what the display has been sent.
LEMMA OnlyInterruptSends ==
  ASSUME [Next]_vars, ~Interrupt
  PROVE  UNCHANGED <<m, pwm_slot, latched>>
BY DEF Next, AllocateDigits, StartInterrupt, clock_timer_init, clock_display_enable, StoreByte,
       TickTimer, SntpAnswers, SetBrightness, Display!clock_display_set_brigthness,
       Display!pwmVars, displayVars, vars

LEMMA InterruptSends ==
  ASSUME Calls, Interrupt, NEW p \in Digit
  PROVE  /\ started # 0 /\ TypeOK /\ digits[p] \in Byte
         /\ latched'[p] = latched[p] \/ latched'[p] = digits[p]
<1>1. started # 0
  BY DEF Interrupt, Dispatches, Calls
<1>2. TypeOK
  BY <1>1 DEF Calls
<1>3. digits[p] \in Byte
  BY <1>2 DEF TypeOK, Byte
<1> QED BY <1>1, <1>2, <1>3, CallbackSends, DigitsType DEF Interrupt, Calls

\* From the first interrupt on clock_display_digit points to allocated memory, and
\* once the outputs are enabled every byte that is sent is a digit or a blank: for
\* whatever the calls of sys_init_cb and the interrupt interleave to.
THEOREM OutputsShowNoGarbage == Spec => NoGarbageShown
<1>1. Init => Glyphs
  BY DEF Init, Glyphs
<1>2. Calls /\ Glyphs /\ [Next]_vars
        => [\A p \in Digit : latched'[p] # latched[p] =>
              /\ latched'[p] # Null
              /\ OutputsEnabled => latched'[p] # Garbage]_vars
  <2> SUFFICES ASSUME Calls, Glyphs, [Next]_vars, NEW p \in Digit, latched'[p] # latched[p]
               PROVE  latched'[p] # Null /\ (OutputsEnabled => latched'[p] # Garbage)
    OBVIOUS
  <2>1. Interrupt
    BY OnlyInterruptSends
  <2>2. digits[p] \in Byte /\ latched'[p] = digits[p]
    BY <2>1, InterruptSends
  <2>3. Null.glyph = 12 /\ Garbage.glyph = 11
    BY DEF Null, Garbage, Pattern
  <2>4. digits[p].glyph \in 0..11
    BY <2>2 DEF Byte
  <2>5. OutputsEnabled => digits[p].glyph \in 0..10
    BY CallOrder DEF Calls, Glyphs
  <2> QED BY <2>2, <2>3, <2>4, <2>5
<1> QED BY <1>1, <1>2, StepGlyphs, CallsInvariant, PTL DEF Spec, NoGarbageShown

-----------------------------------------------------------------------------
(* Every face.                                                             *)

Reach == Burst + 4 * Slots

FaceReaches ==
  /\ Writing => started >= 5 /\ age <= Burst
  /\ started >= 5 /\ ~Writing =>
       \A p \in Digit : latched[p] = digits[p] \/ age + Distance(p) <= Reach

LEMMA ReachType == Reach \in Nat /\ Reach <= Period /\ Slots \in Nat \ {0} /\ Period \in Nat /\ Burst \in Nat
BY TimingAssumption, SlotsType DEF Reach, DISPLAY_DIGIT_MAX

\* When the next tick is due the last face is on the display.
LEMMA FaceIsDue ==
  ASSUME Calls, FaceReaches, Running, ~Writing, age = Period
  PROVE  latched = digits
<1>1. ASSUME NEW p \in Digit PROVE latched[p] = digits[p]
  <2>1. started >= 5
    BY CallOrder DEF Calls
  <2>2. latched[p] = digits[p] \/ age + Distance(p) <= Reach
    BY <2>1 DEF FaceReaches
  <2>3. Distance(p) \in 1..4 * Slots
    BY DistanceType DEF Calls
  <2> QED BY <2>2, <2>3, ReachType
<1>2. latched \in [Digit -> AnyByte] /\ digits \in [Digit -> AnyByte]
  BY DigitsType DEF Calls, RoundTyped
<1> QED BY <1>1, <1>2

LEMMA StepReaches == Calls /\ Calls' /\ FaceReaches /\ [Next]_vars => FaceReaches'
<1> SUFFICES ASSUME Calls, Calls', FaceReaches, [Next]_vars PROVE FaceReaches'
  OBVIOUS
<1>0. started \in 0..6 /\ age \in 0..Period /\ Reach' = Reach
  BY DEF Calls, Reach, Slots
<1>1. CASE AllocateDigits \/ StartInterrupt
  <2>1. \/ Begins("os_malloc") \/ Begins("hw_timer_init")
        \/ Begins("hw_timer_set_func") \/ Begins("hw_timer_arm")
    BY <1>1 DEF AllocateDigits, StartInterrupt
  <2>2. started' \in 1..4 /\ ~Writing
    BY <1>0, <2>1, CallOrder DEF Begins
  <2>3. next_store' = next_store
    BY <1>1 DEF AllocateDigits, StartInterrupt, timerVars
  <2> QED BY <2>2, <2>3 DEF FaceReaches, Writing
<1>2. CASE clock_timer_init
  <2>1. started' = 5 /\ next_store' = 0 /\ age' = 0
    BY <1>0, <1>2, CallOrder DEF clock_timer_init, Begins
  <2> QED BY <2>1, ReachType DEF FaceReaches, Writing, Idle
<1>3. CASE clock_display_enable
  <2>1. started = 5 /\ started' = 6 /\ UNCHANGED <<digits, next_store, age, m, pwm_slot, latched>>
    BY <1>0, <1>3, CallOrder DEF clock_display_enable, Begins, timerVars, displayVars
  <2> QED BY <1>0, <2>1, RoundKept DEF FaceReaches, Writing
<1>4. CASE StoreByte
  <2>1. Writing /\ started' = started /\ age' = age /\ UNCHANGED <<m, pwm_slot, latched>>
    BY <1>4 DEF StoreByte, clock_timer_display, displayVars
  <2>2. started >= 5 /\ age <= Burst
    BY <2>1 DEF FaceReaches
  <2>3. ASSUME NEW p \in Digit PROVE age' + Distance(p)' <= Reach'
    <3>1. Distance(p)' = Distance(p) /\ Distance(p) \in 1..4 * Slots
      BY <2>1, RoundKept, DistanceType DEF Calls
    <3> QED BY <1>0, <2>1, <2>2, <3>1, ReachType DEF Reach
  <2> QED BY <2>1, <2>2, <2>3 DEF FaceReaches
<1>5. CASE TickTimer
  <2>1. started' = started /\ started = 6 /\ next_store' = 0 /\ age' = 0
    BY <1>0, <1>5, CallOrder DEF TickTimer, seconds_tick
  <2> QED BY <2>1, ReachType DEF FaceReaches, Writing, Idle
<1>6. CASE SntpAnswers \/ SetBrightness \/ UNCHANGED vars
  <2>1. UNCHANGED <<started, digits, next_store, age, m, pwm_slot, latched>>
    BY <1>6, OnlyInterruptSends
    DEF SntpAnswers, SetTime, SetBrightness, Display!clock_display_set_brigthness,
        Display!pwmVars, displayVars, timerVars, vars
  <2> QED BY <1>0, <2>1, RoundKept DEF FaceReaches, Writing
<1>7. CASE Interrupt
  <2>1. /\ Display!clock_display_callback /\ UNCHANGED <<started, digits, next_store>>
        /\ Writing => age < Burst
        /\ age' = IF age < Period THEN age + 1 ELSE age
    BY <1>7 DEF Interrupt, timerVars
  <2>2. CASE Writing
    <3>1. age' <= Burst
      BY <1>0, <2>1, <2>2, ReachType
    <3> QED BY <2>1, <2>2, <3>1 DEF FaceReaches, Writing
  <2>3. ASSUME started >= 5, ~Writing, NEW p \in Digit
        PROVE  latched'[p] = digits'[p] \/ age' + Distance(p)' <= Reach'
    <3>1. Distance(p) \in 1..4 * Slots
      BY DistanceType DEF Calls
    <3>2. /\ Distance(p) = 1 => latched'[p] = digits[p]
          /\ Distance(p) # 1 => latched'[p] = latched[p] /\ Distance(p)' = Distance(p) - 1
      BY <2>1, Countdown, DigitsType DEF Calls
    <3>3. latched[p] = digits[p] \/ age + Distance(p) <= Reach
      BY <2>3 DEF FaceReaches
    <3>4. CASE Distance(p) = 1
      BY <2>1, <3>2, <3>4
    <3>5. CASE Distance(p) # 1 /\ latched[p] = digits[p]
      BY <2>1, <3>2, <3>5
    <3>6. CASE Distance(p) # 1 /\ age + Distance(p) <= Reach
      <4>1. age' + Distance(p)' <= age + Distance(p)
        BY <1>0, <2>1, <3>1, <3>2, <3>6, ReachType
      <4>2. age' \in Nat /\ Distance(p)' \in Nat
        BY <1>0, <2>1, <3>1, <3>2, <3>6, ReachType
      <4> QED BY <1>0, <3>1, <3>6, <4>1, <4>2, ReachType
    <3> QED BY <3>3, <3>4, <3>5, <3>6
  <2>4. CASE ~Writing
    BY <2>1, <2>3, <2>4 DEF FaceReaches, Writing
  <2> QED BY <2>2, <2>4
<1> QED BY <1>1, <1>2, <1>3, <1>4, <1>5, <1>6, <1>7 DEF Next

LEMMA ReachInvariant == Spec => [](Calls /\ FaceReaches)
<1>1. Init => FaceReaches
  BY DEF Init, FaceReaches, Writing, Idle
<1> QED BY <1>1, CallsInvariant, StepReaches, PTL DEF Spec

\* No face that seconds_tick writes is skipped or torn when the next one comes,
\* for any number of slots, period and burst that TimingAssumption allows.
THEOREM EveryFaceIsShown == Spec => EachFaceShown
<1>1. Calls /\ FaceReaches /\ [Next]_vars
        => [dot_position' # dot_position /\ Running => latched = digits]_vars
  <2> SUFFICES ASSUME Calls, FaceReaches, [Next]_vars, dot_position' # dot_position, Running
               PROVE  latched = digits
    OBVIOUS
  <2>1. TickTimer
    BY DEF Next, AllocateDigits, StartInterrupt, clock_timer_init, clock_display_enable, Begins,
           Interrupt, StoreByte, clock_timer_display, SntpAnswers, SetTime, SetBrightness,
           timerVars, timeVars, vars
  <2> QED BY <2>1, FaceIsDue DEF TickTimer, seconds_tick
<1> QED BY <1>1, ReachInvariant, PTL DEF Spec, EachFaceShown

-----------------------------------------------------------------------------
(* Torn positions.                                                         *)

Old(p) == latched[p] \in {Nothing, oldFace[p]}

\* While a face is written nothing but the old one has been sent, or one position
\* was and the next is not before the writing ends.
AtMostOneSent ==
  /\ started < 5 => ~Writing /\ \A p \in Digit : latched[p] \in {Nothing, digits[p]}
  /\ started = 0 => \A p \in Digit : latched[p] = Nothing
  /\ \/ \A p \in Digit : Old(p)
     \/ \A p \in Digit : Writing => age + Distance(p) > Slots
  /\ \E q \in Digit : \A p \in Digit :
       p # q => Old(p) \/ (~Writing /\ latched[p] = digits[p])

LEMMA FewTorn == AtMostOneSent => AtMostOneTorn
<1> SUFFICES ASSUME AtMostOneSent PROVE AtMostOneTorn
  OBVIOUS
<1>1. PICK q \in Digit : \A p \in Digit :
        p # q => Old(p) \/ (~Writing /\ latched[p] = digits[p])
  BY DEF AtMostOneSent
<1>2. Torn \subseteq {q}
  BY <1>1 DEF Torn, NewFace, Old, Digit
<1>3. IsFiniteSet({q}) /\ Cardinality({q}) = 1 /\ Torn \in SUBSET {q}
  BY <1>2, FS_Singleton
<1>4. Cardinality(Torn) <= 1
  BY <1>3, FS_Subset
<1> QED BY <1>4 DEF AtMostOneTorn

LEMMA StepTorn ==
  Calls /\ Calls' /\ FaceReaches /\ AtMostOneSent /\ [Next]_vars => AtMostOneSent'
<1> SUFFICES ASSUME Calls, Calls', FaceReaches, AtMostOneSent, [Next]_vars PROVE AtMostOneSent'
  OBVIOUS
<1>0. /\ started \in 0..6 /\ age \in 0..Period /\ Slots' = Slots
      /\ latched \in [Digit -> AnyByte] /\ 0 \in Digit
  BY FourDigits DEF Calls, Slots, RoundTyped
<1>1. CASE AllocateDigits
  <2>1. started = 0 /\ started' = 1 /\ next_store' = next_store /\ ~Writing
    BY <1>0, <1>1, CallOrder DEF AllocateDigits, Begins
  <2>2. \A p \in Digit : latched'[p] = Nothing
    BY <1>1, <2>1 DEF AllocateDigits, displayVars, AtMostOneSent
  <2> QED BY <1>0, <2>1, <2>2 DEF AtMostOneSent, Old, Writing
<1>2. CASE StartInterrupt
  <2>1. /\ \/ Begins("hw_timer_init") \/ Begins("hw_timer_set_func") \/ Begins("hw_timer_arm")
        /\ UNCHANGED <<digits, next_store, age, oldFace, m, pwm_slot, latched>>
    BY <1>2 DEF StartInterrupt, timerVars, displayVars
  <2>2. started' \in 2..4 /\ started \in 1..3
    BY <1>0, <2>1, CallOrder DEF Begins
  <2> QED BY <1>0, <2>1, <2>2, RoundKept DEF AtMostOneSent, Old, Writing
<1>3. CASE clock_timer_init
  <2>1. started = 4 /\ started' = 5 /\ oldFace' = digits /\ UNCHANGED latched
    BY <1>0, <1>3, CallOrder DEF clock_timer_init, Begins, displayVars
  <2>2. \A p \in Digit : Old(p)'
    BY <2>1 DEF AtMostOneSent, Old
  <2> QED BY <1>0, <2>1, <2>2 DEF AtMostOneSent
<1>4. CASE clock_display_enable
  <2>1. /\ started = 5 /\ started' = 6
        /\ UNCHANGED <<digits, next_store, age, oldFace, m, pwm_slot, latched>>
    BY <1>0, <1>4, CallOrder DEF clock_display_enable, Begins, timerVars, displayVars
  <2> QED BY <1>0, <2>1, RoundKept DEF AtMostOneSent, Old, Writing
<1>5. CASE StoreByte
  <2>1. /\ Writing /\ UNCHANGED <<started, age, oldFace, m, pwm_slot, latched>>
    BY <1>5 DEF StoreByte, clock_timer_display, displayVars
  <2>2. started >= 5
    BY <2>1 DEF FaceReaches
  <2>3. \A p \in Digit : Old(p)' = Old(p) /\ Distance(p)' = Distance(p)
    BY <2>1, RoundKept DEF Old
  <2>4. \/ \A p \in Digit : Old(p)'
        \/ \A p \in Digit : Writing' => age' + Distance(p)' > Slots'
    BY <1>0, <2>1, <2>3 DEF AtMostOneSent
  <2>5. PICK q \in Digit : \A p \in Digit : p # q => Old(p)
    BY <2>1 DEF AtMostOneSent
  <2> QED BY <1>0, <2>1, <2>2, <2>3, <2>4, <2>5 DEF AtMostOneSent
<1>6. CASE TickTimer
  <2>1. /\ started' = started /\ started = 6 /\ latched = digits
        /\ oldFace' = digits /\ UNCHANGED latched
    BY <1>0, <1>6, CallOrder, FaceIsDue DEF TickTimer, seconds_tick, displayVars
  <2>2. \A p \in Digit : Old(p)'
    BY <2>1 DEF Old
  <2> QED BY <1>0, <2>1, <2>2 DEF AtMostOneSent
<1>7. CASE SntpAnswers \/ SetBrightness \/ UNCHANGED vars
  <2>1. UNCHANGED <<started, digits, next_store, age, oldFace, m, pwm_slot, latched>>
    BY <1>7, OnlyInterruptSends
    DEF SntpAnswers, SetTime, SetBrightness, Display!clock_display_set_brigthness,
        Display!pwmVars, displayVars, timerVars, vars
  <2> QED BY <1>0, <2>1, RoundKept DEF AtMostOneSent, Old, Writing
<1>8. CASE Interrupt
  <2>1. /\ Display!clock_display_callback /\ UNCHANGED <<started, digits, next_store, oldFace>>
        /\ Writing => age < Burst
        /\ age' = IF age < Period THEN age + 1 ELSE age
    BY <1>8 DEF Interrupt, timerVars
  <2>2. ASSUME NEW p \in Digit
        PROVE  /\ Distance(p) = 1 => latched'[p] = digits[p] /\ Distance(p)' = 4 * Slots
               /\ Distance(p) # 1 => latched'[p] = latched[p] /\ Distance(p)' = Distance(p) - 1
               /\ Distance(p) \in 1..4 * Slots
               /\ latched'[p] = latched[p] \/ latched'[p] = digits[p]
    BY <2>1, Countdown, DigitsType, DistanceType DEF Calls
  <2>3. started # 0
    BY <1>8 DEF Interrupt, Dispatches, Calls
  <2>4. started < 5 => ~Writing /\ \A p \in Digit : latched'[p] \in {Nothing, digits[p]}
    BY <2>2 DEF AtMostOneSent
  <2>5. CASE ~Writing
    <3>1. PICK q \in Digit : \A p \in Digit : p # q => Old(p) \/ latched[p] = digits[p]
      BY DEF AtMostOneSent
    <3>2. \A p \in Digit : p # q => Old(p)' \/ latched'[p] = digits[p]
      BY <2>1, <2>2, <3>1 DEF Old
    <3> QED BY <2>1, <2>3, <2>4, <2>5, <3>2 DEF AtMostOneSent, Writing
  <2>6. CASE Writing
    <3>1. started >= 5 /\ age < Burst /\ age' = age + 1 /\ Writing' = Writing
      BY <1>0, <2>1, <2>6, ReachType DEF FaceReaches, Writing, Reach
    <3>2. CASE \A p \in Digit : Distance(p) # 1
      <4>1. ASSUME NEW p \in Digit
            PROVE  Old(p)' = Old(p) /\ age' + Distance(p)' = age + Distance(p)
        <5>1. latched'[p] = latched[p] /\ oldFace' = oldFace
          BY <2>1, <2>2, <3>2
        <5>2. age' + Distance(p)' = age + Distance(p)
          BY <1>0, <2>2, <3>1, <3>2, ReachType
        <5> QED BY <5>1, <5>2 DEF Old
      <4> QED BY <1>0, <2>1, <2>3, <2>4, <2>6, <3>1, <4>1 DEF AtMostOneSent
    <3>3. CASE \E q \in Digit : Distance(q) = 1
      <4>1. PICK q \in Digit : Distance(q) = 1
        BY <3>3
      <4>2. \A p \in Digit : Old(p)
        <5>1. Burst <= Slots
          BY TimingAssumption
        <5>2. ~(age + Distance(q) > Slots)
          BY <1>0, <3>1, <4>1, <5>1, ReachType
        <5> QED BY <2>6, <5>2 DEF AtMostOneSent
      <4>3. ASSUME NEW p \in Digit, p # q
            PROVE  Old(p)' /\ Distance(p)' >= Slots
        <5>1. Distance(p) > Slots
          BY <4>1, <4>3, TurnsApart DEF Calls
        <5>2. Distance(p) # 1
          BY <5>1, ReachType
        <5>3. latched'[p] = latched[p] /\ oldFace' = oldFace /\ Distance(p)' = Distance(p) - 1
          BY <2>1, <2>2, <5>2
        <5>4. Distance(p)' >= Slots
          BY <2>2, <5>1, <5>3, ReachType
        <5> QED BY <4>2, <5>3, <5>4 DEF Old
      <4>4. ASSUME NEW p \in Digit PROVE age' + Distance(p)' > Slots
        <5>1. CASE p = q
          BY <1>0, <2>2, <3>1, <4>1, <5>1, ReachType
        <5>2. CASE p # q
          <6>1. Distance(p)' >= Slots /\ Distance(p)' \in Int
            BY <2>2, <4>3, <5>2, ReachType
          <6> QED BY <1>0, <3>1, <6>1, ReachType
        <5> QED BY <5>1, <5>2
      <4> QED BY <1>0, <2>1, <2>3, <2>4, <3>1, <4>3, <4>4 DEF AtMostOneSent
    <3> QED BY <3>2, <3>3
  <2> QED BY <2>5, <2>6
<1> QED BY <1>1, <1>2, <1>3, <1>4, <1>5, <1>6, <1>7, <1>8 DEF Next

\* At most one position shows a byte that belongs to neither face, whenever the
\* interrupt falls into clock_timer_display: a face is written within one turn.
THEOREM FewPositionsTorn == Spec => []AtMostOneTorn
<1>1. Init => AtMostOneSent
  <2> SUFFICES ASSUME Init PROVE AtMostOneSent
    OBVIOUS
  <2>1. latched = [p \in Digit |-> Nothing] /\ ~Writing /\ 0 \in Digit
    BY FourDigits DEF Init, Display!PwmInit, Display!Position, Digit, Writing, Idle
  <2> QED BY <2>1 DEF AtMostOneSent, Old
<1> QED BY <1>1, ReachInvariant, StepTorn, FewTorn, PTL DEF Spec

-----------------------------------------------------------------------------
(* The hardware timer.                                                     *)

\* Ticks per microsecond.
PerMicro == Freq \div Million

LEMMA WholeTicks == PerMicro \in Nat /\ Freq = PerMicro * Million /\ Freq \div (Million \div 4) = 4 * PerMicro
<1> USE HwTimerAssumption
<1>1. PerMicro \in Nat /\ Freq = PerMicro * Million
  BY DEF PerMicro
<1>2. PICK q \in Nat \ {0} : Million = 4 * q
  <2>1. Million \div 4 \in Nat /\ Million = 4 * (Million \div 4)
    OBVIOUS
  <2> QED BY <2>1
<1>3. Million \div 4 = q
  BY <1>2
<1>4. Freq = (4 * PerMicro) * q
  BY <1>1, <1>2
<1>5. Freq \div q = 4 * PerMicro
  BY <1>1, <1>2, <1>4
<1> QED BY <1>1, <1>3, <1>5

\* A product divided by one of its factors, the step a product of two unknowns needs.
LEMMA TicksDivided == ASSUME NEW a \in Nat, NEW b \in Nat \ {0} PROVE (a * b) \div b = a
OBVIOUS

\* US_TO_RTC_TIMER_TICKS is the product, on either side of its switch.
LEMMA TicksExact ==
  ASSUME NEW t \in Delays
  PROVE  US_TO_RTC_TIMER_TICKS(t) = t * PerMicro
<1> USE HwTimerAssumption, WholeTicks
<1>1. t \in Nat /\ t * PerMicro \in Nat /\ t * PerMicro < Word
  BY DEF PerMicro
<1>2. CASE t > Threshold
  <2>1. PICK h \in Nat, r \in 0..3 : t = 4 * h + r /\ t \div 4 = h /\ t % 4 = r
    <3>1. t \div 4 \in Nat /\ t % 4 \in 0..3 /\ t = 4 * (t \div 4) + (t % 4)
      BY <1>1
    <3> QED BY <3>1
  <2>2. h * (4 * PerMicro) + r * PerMicro = (4 * h + r) * PerMicro
    BY <2>1
  <2>3. h * (4 * PerMicro) + r * PerMicro = t * PerMicro
    BY <2>1, <2>2
  <2>4. US_TO_RTC_TIMER_TICKS(t) = (h * (4 * PerMicro) + r * PerMicro) % Word
    BY <1>2, <2>1 DEF US_TO_RTC_TIMER_TICKS, PerMicro
  <2> QED BY <1>1, <2>3, <2>4
<1>3. CASE t <= Threshold
  <2>1. t * Freq \in Nat /\ t * Freq < Word
    <3>1. t * Freq <= Threshold * Freq
      BY <1>1, <1>3
    <3> QED BY <1>1, <3>1
  <2>2. t * Freq = (t * PerMicro) * Million
    BY <1>1
  <2>3. US_TO_RTC_TIMER_TICKS(t) = (t * Freq) \div Million
    <3>1. (t * Freq) % Word = t * Freq
      BY <2>1
    <3> QED BY <1>1, <1>3, <3>1 DEF US_TO_RTC_TIMER_TICKS
  <2> QED BY <1>1, <2>2, <2>3, TicksDivided
<1> QED BY <1>1, <1>2, <1>3

-----------------------------------------------------------------------------
\* hw_timer_arm never loads a rounded or truncated number of ticks.
THEOREM LoadIsExact == HwSpec => []LoadExact
<1>1. HwInit => LoadExact
  BY WholeTicks DEF HwInit, LoadExact, PerMicro
<1>2. LoadExact /\ [HwNext]_hwVars => LoadExact'
  <2> SUFFICES ASSUME LoadExact, [HwNext]_hwVars PROVE LoadExact'
    OBVIOUS
  <2>1. ASSUME NEW val \in Delays, hw_timer_arm(val) PROVE LoadExact'
    BY <2>1, TicksExact DEF hw_timer_arm, LoadExact, PerMicro
  <2>2. ASSUME NEW isSet \in BOOLEAN, hw_timer_set_func(isSet) PROVE LoadExact'
    BY <2>2 DEF hw_timer_set_func, LoadExact
  <2>3. ASSUME NEW source_type \in {"FRC1_SOURCE", "NMI_SOURCE"}, NEW req \in {0, 1},
               hw_timer_init(source_type, req)
        PROVE  LoadExact'
    BY <2>3 DEF hw_timer_init, LoadExact
  <2>4. CASE UNCHANGED hwVars
    BY <2>4 DEF hwVars, LoadExact
  <2> QED BY <2>1, <2>2, <2>3, <2>4 DEF HwNext
<1> QED BY <1>1, <1>2, PTL DEF HwSpec
=============================================================================
