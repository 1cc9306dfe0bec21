----------------------------- MODULE MqttBuild ------------------------------
(***************************************************************************)
(* The builders of lib/mqtt/mqtt_msg.c over one mqtt_connection_t, and the *)
(* calls of mqtt.c that queue what they build.  Each step is one call; the *)
(* connection keeps its message_id from one to the next.                   *)
(*                                                                         *)
(* A body is what a builder has appended behind the three bytes kept for   *)
(* the fixed header.  Every append checks the room for what is there and   *)
(* what it adds, so a body fits if its last append does.                   *)
(***************************************************************************)
EXTENDS MqttMsg

CONSTANTS BufferLength,  \* connection->buffer_length (MQTT_BUF_SIZE)
          IdWord,        \* 2^16: message_id is a uint16_t
          Topics, Data,  \* byte strings
          AckIds,        \* identifiers of received messages
          ConnectInfos   \* mqtt_connect_info_t: absent strings are <<>>

\* fini_message writes one or two bytes of length, so a body takes 14 bits.
ASSUME BuildAssumption ==
  /\ BufferLength \in Nat /\ BufferLength >= 3 /\ BufferLength <= 3 + 16383
  /\ IdWord \in Nat /\ IdWord > 1 /\ IdWord <= 65536
  /\ \A id \in AckIds : id \in Nat /\ id < 65536
  /\ \A s \in Topics \cup Data : s \in Seq(Byte)

\* The configuration of a connection; keepalive is an int of which two bytes are sent.
ASSUME ConnectAssumption ==
  \A info \in ConnectInfos :
    /\ \A f \in {"client_id", "username", "password", "will_topic", "will_message"} :
         info[f] \in Seq(Byte)
    /\ info.keepalive \in Nat /\ info.keepalive < 65536 /\ info.will_qos \in Nat
    /\ info.will_retain \in {0, 1} /\ info.clean_session \in {0, 1}

VARIABLES message_id,  \* connection->message_id
          call,        \* the last call: a builder's name and its arguments
          message,     \* what it built, <<>> after fail_message
          returned     \* what MQTT_Publish and its siblings told their caller

buildVars == <<message_id, call, message, returned>>

Fits(body) == 3 + Len(body) <= BufferLength
String(s) == U16(Len(s)) \o s

\* Faulty variant of LengthBytes: 128 is taken to fit one byte.
LengthBytesLate(n) == IF n > 128 THEN <<128 + (n % 128), n \div 128>> ELSE <<n>>

LengthBytes(n) == IF n > 127 THEN <<128 + (n % 128), n \div 128>> ELSE <<n>>

fini_message(type, qos, retain, body) ==
  <<type * 16 + (qos % 4) * 2 + (retain % 2)>> \o LengthBytes(Len(body)) \o body

\* Faulty variant of NextId: the identifier 0 is handed out after a wrap.
NextIdZero == (message_id + 1) % IdWord

\* append_message_id's loop: zero is passed over.
NextId == IF (message_id + 1) % IdWord = 0 THEN 1 ELSE (message_id + 1) % IdWord

BuildInit ==
  /\ message_id = 0
  /\ call = [name |-> "mqtt_msg_init"]
  /\ message = <<>> /\ returned = FALSE

\* The identifier is taken once the topic is in; a payload that does not fit then
\* leaves it used.
mqtt_msg_publish(topic, data, qos, retain) ==
  LET takesId == topic # <<>> /\ Fits(String(topic)) /\ qos > 0
      body == String(topic) \o (IF qos > 0 THEN U16(NextId) ELSE <<>>) \o data
  IN /\ message_id' = IF takesId THEN NextId ELSE message_id
     /\ message' = IF topic # <<>> /\ Fits(body)
                   THEN fini_message(PUBLISH, qos, retain, body) ELSE <<>>

MQTT_Publish(topic, data, qos, retain) ==
  /\ mqtt_msg_publish(topic, data, qos, retain)
  /\ returned' = (message' # <<>>)
  /\ call' = [name |-> "MQTT_Publish", topic |-> topic, data |-> data, qos |-> qos,
              retain |-> retain]

\* mqtt_msg_subscribe ends in the QoS asked for, mqtt_msg_unsubscribe does not.
mqtt_msg_topic(type, topic, end) ==
  LET body == U16(NextId) \o String(topic) \o end
  IN /\ message_id' = IF topic # <<>> THEN NextId ELSE message_id
     /\ message' = IF topic # <<>> /\ Fits(body)
                   THEN fini_message(type, 1, 0, body) ELSE <<>>

\* Both queue what they get without a look at its length.
MQTT_Subscribe(topic, qos) ==
  /\ mqtt_msg_topic(SUBSCRIBE, topic, <<qos>>)
  /\ returned' = TRUE
  /\ call' = [name |-> "MQTT_Subscribe", topic |-> topic, end |-> <<qos>>]

MQTT_UnSubscribe(topic) ==
  /\ mqtt_msg_topic(UNSUBSCRIBE, topic, <<>>)
  /\ returned' = TRUE
  /\ call' = [name |-> "MQTT_UnSubscribe", topic |-> topic, end |-> <<>>]

\* mqtt_msg_puback, _pubrec, _pubrel and _pubcomp; an identifier 0 is replaced.
mqtt_msg_ack(type, id) ==
  LET sent == IF id = 0 THEN NextId ELSE id
  IN /\ message_id' = IF id = 0 THEN NextId ELSE message_id
     /\ message' = IF Fits(U16(sent))
                   THEN fini_message(type, IF type = PUBREL THEN 1 ELSE 0, 0, U16(sent))
                   ELSE <<>>
     /\ call' = [name |-> "mqtt_msg_ack", type |-> type, id |-> id]
     /\ UNCHANGED returned

\* mqtt_msg_pingreq (MQTT_Ping), _pingresp and _disconnect
mqtt_msg_plain(type) ==
  /\ message' = fini_message(type, 0, 0, <<>>)
  /\ returned' = IF type = PINGREQ THEN TRUE ELSE returned
  /\ call' = [name |-> "mqtt_msg_plain", type |-> type]
  /\ UNCHANGED message_id

Present(s) == s # <<>>
Flag(bit, s) == IF Present(s) THEN bit ELSE 0
Optional(s) == IF Present(s) THEN String(s) ELSE <<>>

\* Faulty variant of ConnectFlags: the two credentials' bits are exchanged.
ConnectFlagsSwapped(info) ==
  Flag(64, info.username) + Flag(128, info.password)
  + Flag(4 + info.will_retain * 32 + (info.will_qos % 4) * 8, info.will_topic)
  + info.clean_session * 2

ConnectFlags(info) ==
  Flag(128, info.username) + Flag(64, info.password)
  + Flag(4 + info.will_retain * 32 + (info.will_qos % 4) * 8, info.will_topic)
  + info.clean_session * 2

\* Protocol name and level 3 ("MQIsdp"), flags, keepalive, and the strings.
mqtt_msg_connect(info) ==
  LET header == String(<<77, 81, 73, 115, 100, 112>>)
                \o <<3, ConnectFlags(info)>> \o U16(info.keepalive)
      will == IF Present(info.will_topic)
              THEN String(info.will_topic) \o String(info.will_message) ELSE <<>>
      body == header \o String(info.client_id) \o will
              \o Optional(info.username) \o Optional(info.password)
  IN /\ message' = IF Present(info.client_id) /\ Fits(body)
                   THEN fini_message(CONNECT, 0, 0, body) ELSE <<>>
     /\ call' = [name |-> "mqtt_msg_connect", info |-> info]
     /\ UNCHANGED <<message_id, returned>>

BuildNext ==
  \/ \E topic \in Topics, data \in Data, qos \in 0..2, retain \in 0..1 :
       MQTT_Publish(topic, data, qos, retain)
  \/ \E topic \in Topics, qos \in 0..2 : MQTT_Subscribe(topic, qos)
  \/ \E topic \in Topics : MQTT_UnSubscribe(topic)
  \/ \E type \in {PUBACK, PUBREC, PUBREL, PUBCOMP}, id \in AckIds : mqtt_msg_ack(type, id)
  \/ \E type \in {PINGREQ, PINGRESP, DISCONNECT} : mqtt_msg_plain(type)
  \/ \E info \in ConnectInfos : mqtt_msg_connect(info)

BuildSpec == BuildInit /\ [][BuildNext]_buildVars
-----------------------------------------------------------------------------
Built(name) == call.name = name /\ message # <<>>
len == Len(message)

\* The readers get out of a published message what was put in, whatever its length
\* (one or two bytes of it): deliver_publish's pieces, the total length the
\* reassembly of mqtt_tcpclient_recv goes on by, and the identifier, which
\* mqtt_get_id finds unless the payload is empty.
PublishReadsBack ==
  Built("MQTT_Publish") =>
    /\ mqtt_get_type(message) = PUBLISH
    /\ mqtt_get_qos(message) = call.qos /\ mqtt_get_retain(message) = call.retain
    /\ mqtt_get_total_length(message, len) = len
    /\ mqtt_get_publish_topic(message, len) = [null |-> FALSE, bytes |-> call.topic]
    /\ mqtt_get_publish_data(message, len).bytes = call.data
    /\ mqtt_get_id(message, len) = IF call.qos > 0 /\ call.data # <<>> THEN message_id ELSE 0

\* Every message that carries an identifier carries one that is not 0, the one
\* pending_msg_id or the sender's message asks for (append_message_id's loop over a
\* 16-bit counter that wraps).
IdsNotZero ==
  /\ Built("MQTT_Publish") /\ call.qos > 0
       => At16(message, HeaderEnd(message, len) + 2 + Len(call.topic)) # 0
  /\ Built("MQTT_Subscribe") \/ Built("MQTT_UnSubscribe")
       => At16(message, HeaderEnd(message, len)) = message_id /\ message_id # 0
  /\ Built("mqtt_msg_ack") =>
       /\ mqtt_get_id(message, len) = IF call.id = 0 THEN message_id ELSE call.id
       /\ mqtt_get_id(message, len) # 0

\* What a broker reads from a CONNECT: the strings the flags announce, in order, the
\* k-th at the offset StringsAt(b, i, n)[k], where the one before it ended.
StringsAt(b, i, n) ==
  LET at[k \in 1..n+1] == IF k = 1 THEN i ELSE at[k - 1] + 2 + At16(b, at[k - 1])
  IN at

Announced(flags) ==
  (IF (flags \div 4) % 2 = 1 THEN <<"will_topic", "will_message">> ELSE <<>>)
  \o (IF flags >= 128 THEN <<"username">> ELSE <<>>)
  \o (IF (flags \div 64) % 2 = 1 THEN <<"password">> ELSE <<>>)

\* The flags of a CONNECT announce exactly the strings that follow it, in the order
\* a broker reads them, and its keepalive is the configured one: flags and strings
\* are set in separate places of mqtt_msg_connect, between tests that give up.
ConnectReadsBack ==
  Built("mqtt_msg_connect") =>
    LET h == HeaderEnd(message, len)
        names == <<"client_id">> \o Announced(message[h + 10])
        at == StringsAt(message, h + 12, Len(names))
    IN /\ mqtt_get_total_length(message, len) = len
       /\ at[Len(names) + 1] = len
       /\ \A k \in DOMAIN names :
            SubSeq(message, at[k] + 3, at[k + 1]) = call.info[names[k]]
       /\ \A s \in {"will_topic", "username", "password"} :
            Present(call.info[s]) => \E k \in DOMAIN names : names[k] = s
       /\ At16(message, h + 10) = call.info.keepalive
=============================================================================
