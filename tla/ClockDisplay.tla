---------------------------- MODULE ClockDisplay ----------------------------
(***************************************************************************)
(* src/clock_display.c: the interrupt that drives one position of the      *)
(* display at a time and dims it by keeping it dark for the later slots of *)
(* its turn.  clock_display_digit is the array clock_timer.c writes, and   *)
(* the brightness is set by the light sensor and by messages; an interrupt *)
(* may fall between any two of their writes.                               *)
(***************************************************************************)
EXTENDS Integers, FiniteSetsExt

CONSTANTS Positions,        \* DISPLAY_DIGIT_MAX
          CLOCK_DISPLAY_PWM_MAX,
          FilamentDivider,  \* clock_display_filament_divider
          Patterns,         \* the bytes a digit may hold
          Brightness,       \* what clock_display_set_brigthness is called with
          FirstBrightness   \* the brightness before the first call

ASSUME DisplayAssumption ==
  /\ Positions \in Nat /\ Positions > 1
  /\ CLOCK_DISPLAY_PWM_MAX \in Nat
  /\ FilamentDivider \in Nat
  /\ Brightness \subseteq Int /\ FirstBrightness \in Brightness

VARIABLES
  clock_display_digit,
  clock_display_brightness,
  filament_clock, filament_stat,  \* filament_stat is also the pin's level
  pwm_slot, m,
  lit,        \* the position the shift registers drive, Dark if none
  latched,    \* what was last sent for each position
  litSlots,   \* history: slots of this turn in which the position was lit
  low, high   \* history: the brightness values used in this turn

pwmVars == <<filament_clock, filament_stat, pwm_slot, m, lit, latched, litSlots, low, high>>
displayVars == <<clock_display_digit, clock_display_brightness, pwmVars>>

Position == 0..Positions-1
Dark == Positions

\* filament_clock .. m start at zero; nothing has been sent yet.
PwmInit(nothing) ==
  /\ clock_display_brightness = FirstBrightness
  /\ filament_clock = 0 /\ filament_stat = FALSE
  /\ pwm_slot = 0 /\ m = 0
  /\ lit = Dark
  /\ latched = [p \in Position |-> nothing]
  /\ litSlots = 0 /\ low = FirstBrightness /\ high = FirstBrightness

DisplayInit ==
  /\ clock_display_digit \in [Position -> Patterns]
  /\ \E x \in Patterns : PwmInit(x)

Filament ==
  IF filament_clock + 1 > FilamentDivider
  THEN filament_clock' = 0 /\ filament_stat' = ~filament_stat
  ELSE filament_clock' = filament_clock + 1 /\ UNCHANGED filament_stat

\* Faulty variant of TurnIsOver: the turn ends one slot early.
TurnIsOverEarly == pwm_slot >= CLOCK_DISPLAY_PWM_MAX

TurnIsOver == pwm_slot > CLOCK_DISPLAY_PWM_MAX

\* Faulty variant of NextPosition: the last position is left out.
NextPositionShort == IF m + 2 >= Positions THEN 0 ELSE m + 1

NextPosition == IF m + 1 = Positions THEN 0 ELSE m + 1

\* Faulty variant of Transmits: the digit is sent again in every lit slot.
TransmitsAlways(slot) == slot < clock_display_brightness

Transmits(slot) == slot = 0

\* Faulty variant of Darkens: the position stays lit for one slot more.
DarkensLate(slot) == slot > clock_display_brightness

Darkens(slot) == slot >= clock_display_brightness

\* One slot of position p's turn: the last spi_txd of the two decides.
Slot(p, slot) ==
  /\ m' = p
  /\ latched' = IF Transmits(slot) THEN [latched EXCEPT ![p] = clock_display_digit[p]]
                                   ELSE latched
  /\ lit' = IF Darkens(slot) THEN Dark ELSE IF Transmits(slot) THEN p ELSE lit
  /\ pwm_slot' = slot + 1
  /\ litSlots' = (IF slot = 0 THEN 0 ELSE litSlots) + (IF lit' = Dark THEN 0 ELSE 1)
  /\ LET used == {clock_display_brightness} \cup IF slot = 0 THEN {} ELSE {low, high}
     IN low' = Min(used) /\ high' = Max(used)

clock_display_callback ==
  /\ Filament
  /\ IF TurnIsOver THEN Slot(NextPosition, 0) ELSE Slot(m, pwm_slot)
  /\ UNCHANGED <<clock_display_digit, clock_display_brightness>>

clock_display_set_brigthness(brightness) ==
  /\ clock_display_brightness' = brightness
  /\ UNCHANGED <<clock_display_digit, pwmVars>>

\* clock_timer.c stores one byte.
Store(p, x) ==
  /\ clock_display_digit' = [clock_display_digit EXCEPT ![p] = x]
  /\ UNCHANGED <<clock_display_brightness, pwmVars>>

DisplayNext ==
  \/ clock_display_callback
  \/ \E b \in Brightness : clock_display_set_brigthness(b)
  \/ \E p \in Position, x \in Patterns : Store(p, x)

DisplaySpec == DisplayInit /\ [][DisplayNext]_displayVars
-----------------------------------------------------------------------------
Slots == CLOCK_DISPLAY_PWM_MAX + 1
Clamp(b) == Max({0, Min({b, Slots})})

\* A turn that is over was lit for as many slots as the brightness says, however
\* often it changed meanwhile: not fewer than the least and not more than the
\* greatest value in use during the turn (clock_display_callback's two tests of
\* pwm_slot against a brightness that other code sets).
DutyCycle ==
  pwm_slot = Slots => Clamp(low) <= litSlots /\ litSlots <= Clamp(high)

\* While a position is lit it shows one pattern for its whole turn, the one its
\* byte held when the turn began: a store in the middle of a turn never shows
\* as two overlaid digits (the transmission in slot 0 only).
OnePatternPerTurn ==
  [][lit # Dark /\ lit' = lit => latched' = latched]_displayVars

\* The slot last shown, counted through all positions, and the filament's interrupt.
SlotShown == IF pwm_slot = 0 THEN Positions * Slots - 1 ELSE m * Slots + pwm_slot - 1
FilamentBeat == filament_clock + (IF filament_stat THEN FilamentDivider + 1 ELSE 0)

Promise == INSTANCE Multiplex WITH
  Digits <- Positions, Width <- Slots, Half <- FilamentDivider + 1,
  beat <- SlotShown, on <- lit, filament <- FilamentBeat

\* The interrupt handler drives the positions in turn and for equally long, and
\* the filament evenly, whatever is stored and whichever brightness is set.
ImplementsMultiplex == Promise!MultiplexSpec
=============================================================================
