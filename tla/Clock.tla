------------------------------- MODULE Clock --------------------------------
(***************************************************************************)
(* The clock itself: sys_init_cb (user_main.c) starts the display interrupt*)
(* (clock_display.c, hw_timer.c) and the clock timer (clock_timer.c), and  *)
(* from then on the interrupt reads the array of digits between any two of *)
(* the bytes the timer stores.                                             *)
(*                                                                         *)
(* Time is counted in display interrupts.  The os_timer of seconds_tick    *)
(* fires every 250 ms, the interrupt every 50 us, so at least Period of    *)
(* them (5000 on the real clock) lie between two ticks, and no more than   *)
(* Burst fall within one clock_timer_display, which takes microseconds.    *)
(***************************************************************************)
EXTENDS ClockTimer, HwTimer, FiniteSets, Sequences

CONSTANTS CLOCK_DISPLAY_PWM_MAX, FilamentDivider, Brightness, FirstBrightness,
          Period, Burst

Slots == CLOCK_DISPLAY_PWM_MAX + 1

\* A tick comes no sooner than the display has gone round once after the last
\* face was written, and writing a face takes no longer than one position's turn.
ASSUME TimingAssumption ==
  /\ CLOCK_DISPLAY_PWM_MAX \in Nat /\ Burst \in Nat /\ Period \in Nat
  /\ Burst <= Slots
  /\ Period >= Burst + DISPLAY_DIGIT_MAX * Slots

VARIABLES
  started,  \* how many steps of sys_init_cb are done
  age,      \* display interrupts since the last tick, at most Period
  oldFace,  \* history: the digits when the face in progress was begun
  clock_display_brightness,
  filament_clock, filament_stat, pwm_slot, m, lit, latched, litSlots, low, high

displayVars == <<clock_display_brightness, filament_clock, filament_stat,
                 pwm_slot, m, lit, latched, litSlots, low, high>>
vars == <<timerVars, hwVars, displayVars, started, age, oldFace>>

\* What clock_display_digit points to before os_malloc, and what has been sent
\* to the display before anything was.
Null == Pattern(12, FALSE)
Nothing == Pattern(13, FALSE)

Display == INSTANCE ClockDisplay WITH
  Positions <- DISPLAY_DIGIT_MAX,
  clock_display_digit <- digits,
  Patterns <- [glyph : 0..13, dot : BOOLEAN, inverted : BOOLEAN]

Init ==
  /\ clock_display_invert = FALSE
  /\ tm = localtime(0) /\ dot_position = 0
  /\ digits = [p \in Digit |-> Null] /\ oldFace = digits
  /\ next_store = Idle
  /\ synced = FALSE /\ now = 0
  /\ HwInit
  /\ Display!PwmInit(Nothing)
  /\ started = 0 /\ age = 0

\* Faulty variant of sys_init_cb: the outputs are enabled before the first face.
sys_init_cbEager == <<"os_malloc", "hw_timer_init", "hw_timer_set_func", "hw_timer_arm",
                      "clock_display_enable", "clock_timer_init">>

\* The calls of sys_init_cb and, within it, of init_clock_display, in order.
sys_init_cb == <<"os_malloc", "hw_timer_init", "hw_timer_set_func", "hw_timer_arm",
                 "clock_timer_init", "clock_display_enable">>

Running == started = Len(sys_init_cb)
OutputsEnabled ==
  \E i \in 1..started : sys_init_cb[i] = "clock_display_enable"

Begins(call) ==
  /\ ~Running /\ ~Writing
  /\ sys_init_cb[started + 1] = call
  /\ started' = started + 1

AllocateDigits ==
  /\ Begins("os_malloc")
  /\ digits' = [p \in Digit |-> Garbage]
  /\ UNCHANGED <<clock_display_invert, timeVars, next_store, hwVars, displayVars, age, oldFace>>

StartInterrupt ==
  /\ \/ Begins("hw_timer_init") /\ hw_timer_init("FRC1_SOURCE", 1)
     \/ Begins("hw_timer_set_func") /\ hw_timer_set_func(TRUE)
     \/ Begins("hw_timer_arm") /\ hw_timer_arm(50)
  /\ UNCHANGED <<timerVars, displayVars, age, oldFace>>

\* clock_timer_init reads the polarity pin and writes the first face.
clock_timer_init ==
  /\ Begins("clock_timer_init")
  /\ clock_display_invert' \in BOOLEAN
  /\ tm' = localtime(0) /\ dot_position' = 0
  /\ next_store' = 0
  /\ age' = 0 /\ oldFace' = digits
  /\ UNCHANGED <<digits, synced, now, hwVars, displayVars>>

clock_display_enable ==
  /\ Begins("clock_display_enable")
  /\ UNCHANGED <<timerVars, hwVars, displayVars, age, oldFace>>

\* The hardware timer runs out.
Interrupt ==
  /\ Dispatches
  /\ Writing => age < Burst
  /\ Display!clock_display_callback
  /\ age' = IF age < Period THEN age + 1 ELSE age
  /\ UNCHANGED <<timerVars, hwVars, started, oldFace>>

StoreByte ==
  /\ clock_timer_display
  /\ UNCHANGED <<hwVars, displayVars, started, age, oldFace>>

TickTimer ==
  /\ Running /\ age = Period
  /\ seconds_tick
  /\ age' = 0 /\ oldFace' = digits
  /\ UNCHANGED <<hwVars, displayVars, started>>

SntpAnswers ==
  /\ Running
  /\ \E t \in TrueTimes : SetTime(t)
  /\ UNCHANGED <<hwVars, displayVars, started, age, oldFace>>

\* light_sensor_tick and mqtt_data_cb, which like the ticks run one at a time
SetBrightness ==
  /\ Running /\ ~Writing
  /\ \E b \in Brightness : Display!clock_display_set_brigthness(b)
  /\ UNCHANGED <<timerVars, hwVars, started, age, oldFace>>

Next ==
  \/ AllocateDigits \/ StartInterrupt \/ clock_timer_init \/ clock_display_enable
  \/ Interrupt \/ StoreByte \/ TickTimer \/ SntpAnswers \/ SetBrightness

Spec == Init /\ [][Next]_vars
-----------------------------------------------------------------------------
\* The interrupt never reads through a NULL clock_display_digit, and once the
\* outputs are enabled no byte that os_malloc left is sent to the display
\* (hw_timer_isr_cb's test and the order of the calls in sys_init_cb).
NoGarbageShown ==
  [][\A p \in Digit : latched'[p] # latched[p] =>
       /\ latched'[p] # Null
       /\ OutputsEnabled => latched'[p] # Garbage]_vars

\* Every face is on the display, whole, before the next tick changes it: none of
\* the four seconds_tick writes is skipped or left torn by the interrupt.
EachFaceShown ==
  [][dot_position' # dot_position /\ Running => latched = digits]_vars

NewFace == IF Writing THEN Face(tm, dot_position) ELSE digits
Torn == {p \in Digit : latched[p] \notin {Nothing, oldFace[p], NewFace[p]}}

\* While a face is written and until the display has gone round, at most one of
\* the four positions shows a byte of neither the old nor the new face, one
\* without its dot or with the wrong polarity (clock_timer.c:55-67).
AtMostOneTorn == Cardinality(Torn) <= 1
=============================================================================
