------------------------------ MODULE HwTimer -------------------------------
(***************************************************************************)
(* src/hw_timer.c: the driver of the FRC1 timer that paces the display.    *)
(* A timer that is attached and enabled interrupts at any moment; its      *)
(* handler calls user_hw_timer_cb unless that is still NULL.               *)
(*                                                                         *)
(* TLC's integers end at 2^31, so its instance scales the machine's word   *)
(* and clock down by one factor; the proofs take them as they are.         *)
(***************************************************************************)
EXTENDS Integers

CONSTANTS Word,       \* 2^32: u32 arithmetic is modulo Word
          Freq,       \* APB_CLK_FREQ >> 4, ticks per Million microseconds
          Million,    \* 1000000
          Threshold,  \* 0x35A, where the macro changes its way to multiply
          Delays      \* the microseconds hw_timer_arm may be given

\* The timer counts a whole number of ticks per microsecond, the switch comes
\* before the product of the small delays overflows, and the ticks of every
\* delay fit a word.
ASSUME HwTimerAssumption ==
  /\ Word \in Nat \ {0} /\ Million \in Nat \ {0} /\ Million % 4 = 0
  /\ Freq \in Nat \ {0} /\ Freq % Million = 0
  /\ Threshold \in Nat /\ Threshold * Freq < Word
  /\ Delays \subseteq Nat
  /\ \A t \in Delays : t < Word /\ t * (Freq \div Million) < Word

VARIABLES FRC1_CTRL,         \* the control register: [enable, autoload]
          FRC1_LOAD,         \* the load register, in ticks
          handler,           \* who is attached: "none", "isr" or "nmi"
          user_hw_timer_cb,  \* TRUE once a callback is set, FALSE for NULL
          armed              \* history: the delay last asked for

hwVars == <<FRC1_CTRL, FRC1_LOAD, handler, user_hw_timer_cb, armed>>

HwInit ==
  /\ FRC1_CTRL = [enable |-> FALSE, autoload |-> FALSE]
  /\ FRC1_LOAD = 0 /\ armed = 0
  /\ handler = "none" /\ user_hw_timer_cb = FALSE

\* Faulty variant of US_TO_RTC_TIMER_TICKS: the switch comes one delay late.
US_TO_RTC_TIMER_TICKS_Late(t) ==
  IF t > Threshold + 1
  THEN ((t \div 4) * (Freq \div (Million \div 4))
        + (t % 4) * (Freq \div Million)) % Word
  ELSE ((t * Freq) % Word) \div Million

\* Both ways to multiply, in u32 arithmetic.
US_TO_RTC_TIMER_TICKS(t) ==
  IF t > Threshold
  THEN ((t \div 4) * (Freq \div (Million \div 4))
        + (t % 4) * (Freq \div Million)) % Word
  ELSE ((t * Freq) % Word) \div Million

hw_timer_arm(val) ==
  /\ FRC1_LOAD' = US_TO_RTC_TIMER_TICKS(val)
  /\ armed' = val
  /\ UNCHANGED <<FRC1_CTRL, handler, user_hw_timer_cb>>

hw_timer_set_func(isSet) ==
  /\ user_hw_timer_cb' = isSet
  /\ UNCHANGED <<FRC1_CTRL, FRC1_LOAD, handler, armed>>

hw_timer_init(source_type, req) ==
  /\ FRC1_CTRL' = [enable |-> TRUE, autoload |-> req = 1]
  /\ handler' = IF source_type = "NMI_SOURCE" THEN "nmi" ELSE "isr"
  /\ UNCHANGED <<FRC1_LOAD, user_hw_timer_cb, armed>>

\* hw_timer_isr_cb and hw_timer_nmi_cb call the user's function.
Dispatches == FRC1_CTRL.enable /\ handler # "none" /\ user_hw_timer_cb

HwNext ==
  \/ \E val \in Delays : hw_timer_arm(val)
  \/ \E isSet \in BOOLEAN : hw_timer_set_func(isSet)
  \/ \E source_type \in {"FRC1_SOURCE", "NMI_SOURCE"}, req \in {0, 1} :
       hw_timer_init(source_type, req)

HwSpec == HwInit /\ [][HwNext]_hwVars
-----------------------------------------------------------------------------
\* The load register holds exactly the ticks of the delay asked for: neither
\* the product of the small delays nor the split of the large ones loses a
\* tick to rounding or to the width of a word (US_TO_RTC_TIMER_TICKS).
LoadExact == FRC1_LOAD = armed * (Freq \div Million)
=============================================================================
