------------------------------ MODULE MqttMsg -------------------------------
(***************************************************************************)
(* lib/mqtt/mqtt_msg.c: messages as bytes, how they are built and what is  *)
(* read back from them.  Offsets count from 0, as in C: b[i + 1] is        *)
(* buffer[i].  This module holds the readers; MqttBuild the builders.      *)
(***************************************************************************)
EXTENDS Integers, Sequences, FiniteSetsExt

\* enum mqtt_message_type
CONNECT == 1
CONNACK == 2
PUBLISH == 3
PUBACK == 4
PUBREC == 5
PUBREL == 6
PUBCOMP == 7
SUBSCRIBE == 8
SUBACK == 9
UNSUBSCRIBE == 10
UNSUBACK == 11
PINGREQ == 12
PINGRESP == 13
DISCONNECT == 14

Byte == 0..255

mqtt_get_type(b) == b[1] \div 16
mqtt_get_qos(b) == (b[1] % 8) \div 2
mqtt_get_retain(b) == b[1] % 2

U16(n) == <<n \div 256, n % 256>>
At16(b, i) == b[i + 1] * 256 + b[i + 2]

\* Where the loop over the bytes of the remaining length stops: behind the first
\* one without the continuation bit, or at the end of what there is.
HeaderEnd(b, length) ==
  LET ends == {i \in 1..length-1 : b[i + 1] < 128}
  IN IF ends = {} THEN Max({1, length}) ELSE Min(ends) + 1

\* Seven bits of each of n length bytes, the first the least significant: what the
\* shifts of an int add up to as long as n <= 4, see TotalLengths in MqttRecv.
Sevens(b, n) ==
  LET from[i \in 1..n+1] == IF i > n THEN 0 ELSE (b[i + 1] % 128) + 128 * from[i + 1]
  IN from[1]

RemainingLength(b, length) == Sevens(b, HeaderEnd(b, length) - 1)

mqtt_get_total_length(b, length) == RemainingLength(b, length) + HeaderEnd(b, length)

\* A piece of the buffer, or NULL.
Piece(b, i, n) == [null |-> FALSE, bytes |-> SubSeq(b, i + 1, i + n)]
Null == [null |-> TRUE, bytes |-> <<>>]

mqtt_get_publish_topic(b, length) ==
  LET i == HeaderEnd(b, length)
  IN IF i + 2 >= length \/ i + 2 + At16(b, i) > length THEN Null
     ELSE Piece(b, i + 2, At16(b, i))

\* Faulty variant of IdSize: the identifier of a QoS 2 message is not passed over.
IdSizeOne(b) == IF mqtt_get_qos(b) = 1 THEN 2 ELSE 0

IdSize(b) == IF mqtt_get_qos(b) > 0 THEN 2 ELSE 0

\* A message that is longer than what has come is read as far as it goes.
PublishData(b, length, totlen) ==
  LET i == HeaderEnd(b, length)
      j == i + 2 + At16(b, i)    \* behind the topic
      k == j + IdSize(b)
  IN IF i + 2 >= length THEN Null
     ELSE IF j >= length \/ (IdSize(b) > 0 /\ j + 2 >= length) THEN Null
     ELSE IF totlen < k THEN Null
     ELSE Piece(b, k, Min({totlen, length}) - k)

mqtt_get_publish_data(b, length) ==
  PublishData(b, length, mqtt_get_total_length(b, length))

mqtt_get_id(b, length) ==
  CASE length < 1 -> 0
    [] length >= 1 /\ mqtt_get_type(b) = PUBLISH ->
         LET i == HeaderEnd(b, length)
             j == i + 2 + At16(b, i)
         IN IF i + 2 >= length THEN 0
            ELSE IF j >= length \/ IdSize(b) = 0 \/ j + 2 >= length THEN 0
            ELSE At16(b, j)
    [] length >= 1 /\ mqtt_get_type(b) \in {PUBACK, PUBREC, PUBREL, PUBCOMP, SUBACK,
                                            UNSUBACK, SUBSCRIBE} ->
         IF length >= 4 /\ b[2] < 128 THEN At16(b, 2) ELSE 0
    [] OTHER -> 0
=============================================================================
