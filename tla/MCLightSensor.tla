--------------------------- MODULE MCLightSensor ----------------------------
(* Sensor values in the first half, at the end of the scale and behind it,   *)
(* where pwm_level is read behind its end: two numbers may stand there.     *)
EXTENDS LightSensor

MCAdcValues == {201, 1023, 1024}
MCBehindTable == {-1, 11}
MCUserValues == {30}
=============================================================================
