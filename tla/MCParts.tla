------------------------------ MODULE MCParts -------------------------------
(* The parts that share no state with one another, checked in one run: in a  *)
(* behaviour one of them, named by part, moves and the others stay as they   *)
(* began, so that their state spaces add up.                                 *)
EXTENDS MqttBuild, MqttRecv, HwTimer, ClockDisplay, ClockTimer

VARIABLE part

Init ==
  /\ part \in {"build", "receive", "hw_timer", "display", "timer"}
  /\ BuildInit /\ RecvInit /\ HwInit /\ DisplayInit /\ TimerInit
  /\ part # "receive" => ~inSession
  /\ part # "display" => \A p \in Position : clock_display_digit[p] = 0 /\ latched[p] = 0
  /\ part # "timer" => ~clock_display_invert

Next ==
  /\ \/ /\ part = "build" /\ BuildNext
        /\ UNCHANGED <<recvVars, hwVars, displayVars, timerVars>>
     \/ /\ part = "receive" /\ RecvNext
        /\ UNCHANGED <<buildVars, hwVars, displayVars, timerVars>>
     \/ /\ part = "hw_timer" /\ HwNext
        /\ UNCHANGED <<buildVars, recvVars, displayVars, timerVars>>
     \/ /\ part = "display" /\ DisplayNext
        /\ UNCHANGED <<buildVars, recvVars, hwVars, timerVars>>
     \/ /\ part = "timer" /\ TimerNext
        /\ UNCHANGED <<buildVars, recvVars, hwVars, displayVars>>
  /\ UNCHANGED part

Spec ==
  Init /\ [][Next]_<<part, buildVars, recvVars, hwVars, displayVars, timerVars>>
-----------------------------------------------------------------------------
(* MqttBuild.  A buffer of 134 bytes and payloads that put the remaining     *)
(* length on both sides of 127 and of what the buffer holds; identifiers of  *)
(* one and of two bytes, and a counter that wraps after three.                *)
Bytes(k) == [i \in 1..k |-> 64 + i]

MCTopics == {<<>>, Bytes(1), Bytes(121), Bytes(126), Bytes(128)}
MCData == {<<>>, Bytes(1), Bytes(2), Bytes(4), Bytes(6), Bytes(7), Bytes(124), Bytes(126)}
MCAckIds == {0, 1, 255, 256, 4660}
MCText == {<<>>, Bytes(2)}
MCConnectInfos ==
  [client_id : MCText, username : MCText, password : {<<>>, Bytes(3), Bytes(104)},
   will_topic : MCText, will_message : {<<>>, Bytes(1)}, keepalive : {300},
   will_qos : {0, 2}, will_retain : 0..1, clean_session : 0..1]

(* MqttRecv.  One message of each kind that matters: with and without        *)
(* identifier and payload, and followed by others in one segment or in the   *)
(* next.  The buffer is one that two messages may fill.  One message has two *)
(* length bytes and, with 131 bytes in all, the last length that             *)
(* message_length holds here; one carries a payload that reads, when it is   *)
(* cut off from what precedes it, as a PUBLISH of five length bytes.         *)
MCPublish(qos, topic, data, id) ==
  [type |-> PUBLISH, qos |-> qos, topic |-> topic, data |-> data, id |-> id]
MCOther(type, id) == [type |-> type, qos |-> 0, topic |-> <<>>, data |-> <<>>, id |-> id]

MCMessages == {MCPublish(0, <<65>>, <<66, 67>>, 0), MCPublish(1, <<65>>, <<66>>, 258),
               MCPublish(2, <<68>>, <<>>, 3), MCOther(CONNACK, 0), MCOther(PUBREL, 3),
               MCOther(PINGREQ, 0), MCPublish(0, <<65>>, Bytes(125), 0),
               MCPublish(0, <<65>>, <<48, 129, 129, 129, 129, 1, 0, 1, 65, 66>>, 0)}

(* HwTimer.  Word, clock and million of the real timer divided by 1000:    *)
(* the product of a small delay overflows at the same delay, 859, as it does *)
(* in 32 bits.                                                               *)
MCDelays == 0..9 \cup 850..900 \cup {4000}

(* ClockDisplay.  Three positions of three slots; brightness below, inside   *)
(* and above them.                                                           *)
MCPatterns == {0, 1}
MCBrightness == {-1, 0, 1, 2, 4}

(* ClockTimer.  All hours of the day, an hour of 25 minutes, so that every   *)
(* digit counts on and carries, and two seconds to the minute.  SNTP first   *)
(* answers at either end of the day, of an hour or of a minute, or in        *)
(* between.                                                                  *)
MCFirstTimes == {0, 3, 199, 200, 2206, 4799}
=============================================================================
