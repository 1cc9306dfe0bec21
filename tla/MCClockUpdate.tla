--------------------------- MODULE MCClockUpdate ----------------------------
(* Memory for two struct espconn, so that one freed may or may not be the   *)
(* next one taken; every timeout 1; a queue of one or two packets.          *)
EXTENDS ClockUpdate
=============================================================================
