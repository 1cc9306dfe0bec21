------------------------------ MODULE MCRecv --------------------------------
(* A broker that sends one PUBLISH whose 132 bytes are as many as            *)
(* message_length, cut to a small word here, counts before it starts again.  *)
EXTENDS MqttRecv

MCMessages ==
  {[type |-> PUBLISH, qos |-> 0, topic |-> <<65>>, data |-> [i \in 1..126 |-> 64 + i],
    id |-> 0]}
=============================================================================
