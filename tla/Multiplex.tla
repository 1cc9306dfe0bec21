----------------------------- MODULE Multiplex ------------------------------
(***************************************************************************)
(* What the display interrupt promises: the positions of the display are   *)
(* driven in turn, each for Width beats.  A position may be lit from the   *)
(* first beat of its turn on, only then, and once dark it stays dark for   *)
(* the rest of its turn.  Apart from that the filament's pin changes once  *)
(* in every Half beats.                                                    *)
(***************************************************************************)
EXTENDS Integers

CONSTANTS Digits, Width, Half

VARIABLES beat,     \* the beat now shown, counted within a round
          on,       \* the position that is lit, Dark if none
          filament  \* the beat within the filament's period

beatVars == <<beat, on, filament>>

Round == Digits * Width
Dark == Digits

MultiplexInit ==
  /\ beat = Round - 1
  /\ on = Dark
  /\ filament = 0

Turn(b) == b \div Width

Beat ==
  /\ beat' = (beat + 1) % Round
  /\ on' \in {Dark, IF beat' % Width = 0 THEN Turn(beat') ELSE on}
  /\ filament' = (filament + 1) % (2 * Half)

MultiplexSpec == MultiplexInit /\ [][Beat]_beatVars
=============================================================================
