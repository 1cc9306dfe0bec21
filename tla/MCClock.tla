------------------------------ MODULE MCClock -------------------------------
(* A day of eleven hours of one minute, so that a face changes in several    *)
(* digits and its leading one is now blank, now a 1; a turn of two slots, a  *)
(* face that is written during up to two interrupts, and the shortest period *)
(* the display can follow.                                                   *)
EXTENDS Clock

MCFirstTimes == {3, 43}
MCDelays == {50}
MCBrightness == {0, 2}
=============================================================================
