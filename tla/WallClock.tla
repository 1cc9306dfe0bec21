----------------------------- MODULE WallClock ------------------------------
(***************************************************************************)
(* What the clock timer promises: a clock that counts quarter seconds      *)
(* through the day and can be set to the time of day.                      *)
(***************************************************************************)
EXTENDS Integers

CONSTANTS SecondsPerDay

VARIABLES quarters

WallInit == quarters = 0

Tick == quarters' = (quarters + 1) % (4 * SecondsPerDay)

\* Setting changes the second of the day and leaves the quarter of it alone.
Set == /\ quarters' \in 0..4 * SecondsPerDay - 1
       /\ quarters' % 4 = quarters % 4

WallSpec == WallInit /\ [][Tick \/ Set]_quarters
=============================================================================
