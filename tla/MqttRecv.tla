------------------------------ MODULE MqttRecv ------------------------------
(***************************************************************************)
(* mqtt_tcpclient_recv (lib/mqtt/mqtt.c), byte by byte: what the client    *)
(* makes of the segments in which TCP delivers the broker's messages.  One *)
(* step is one pass of the READPACKET loop.  The loop copies what is left  *)
(* of the segment to the front of in_buffer, where the rest of what came   *)
(* before stays, and mqtt_get_id is given the size of that buffer.         *)
(*                                                                         *)
(* MqttClient takes a segment as a sequence of whole messages and handles  *)
(* its PUBLISH prefix and one message more; WholeSegmentHandled is the     *)
(* ground for that.                                                        *)
(***************************************************************************)
EXTENDS MqttMsg, SequencesExt

CONSTANTS MQTT_BUF_SIZE,
          LengthWord,   \* 2^16: message_length is a uint16_t
          Messages,     \* what the broker sends: [type, qos, topic, data, id]
          MaxMessages,  \* bound on the messages that begin in a segment
          MaxSegment,   \* bound on the bytes of a segment
          MaxSegments,  \* bound on the segments of a connection
          MaxPasses     \* bound on the passes of a call

ASSUME RecvAssumption ==
  /\ MQTT_BUF_SIZE \in Nat \ {0} /\ LengthWord \in Nat /\ MQTT_BUF_SIZE < LengthWord
  /\ {MaxMessages, MaxSegment, MaxSegments, MaxPasses} \subseteq Nat

VARIABLES
  in_buffer,   \* os_zalloc'ed by MQTT_InitClient
  pdata,       \* what is left of the segment
  inSession,   \* connState is MQTT_DATA rather than MQTT_CONNECT_SENDING
  busy,        \* the callback is running
  faulted,     \* it has copied a topic from NULL
  delivered,   \* what the call has passed to dataCb: [topic, data]
  replies,     \* what it has queued: [type, id]
  sent,        \* history: the messages that begin in the segment
  missing,     \* history: the bytes of the last one that did not fit into it
  aligned,     \* history: the segment begins with a message
  wasInSession, segments

recvVars == <<in_buffer, pdata, inSession, busy, faulted, delivered, replies, sent, missing, aligned,
          wasInSession, segments>>

\* The wire format.
Body(msg) ==
  CASE msg.type = PUBLISH -> U16(Len(msg.topic)) \o msg.topic
                             \o (IF msg.qos > 0 THEN U16(msg.id) ELSE <<>>) \o msg.data
    [] msg.type = CONNACK -> <<0, 0>>
    [] msg.type \in {PINGREQ, PINGRESP} -> <<>>
    [] msg.type = SUBACK -> U16(msg.id) \o <<0>>
    [] OTHER -> U16(msg.id)

\* The remaining length: seven bits a byte, the first the least significant, the top bit
\* on all but the last, and four bytes at most.
Continued(n) == 128 + (n % 128)
Above(n) == n \div 128
RemainingBytes(n) ==
  LET n1 == Above(n)
      n2 == Above(n1)
      n3 == Above(n2)
  IN CASE n1 = 0 -> <<n>>
       [] n1 > 0 /\ n2 = 0 -> <<Continued(n), n1>>
       [] n2 > 0 /\ n3 = 0 -> <<Continued(n), Continued(n1), n2>>
       [] n3 > 0 -> <<Continued(n), Continued(n1), Continued(n2), n3>>
HasLength(n) == Above(Above(Above(n))) < 128

Wire(msg) ==
  <<msg.type * 16 + msg.qos * 2>> \o RemainingBytes(Len(Body(msg))) \o Body(msg)
Stream(msgs) == FlattenSeq([k \in DOMAIN msgs |-> Wire(msgs[k])])

PacketId == {id \in Nat : id < 65536}
Message ==
  [ type : {CONNACK, PUBLISH, PUBACK, PUBREC, PUBREL, PUBCOMP, SUBACK, UNSUBACK, PINGREQ, PINGRESP},
    qos : 0..2, topic : Seq(Byte), data : Seq(Byte), id : PacketId ]

\* A PUBLISH names its topic, in at most 65535 bytes, and MQTT allows no longer message
\* than four bytes hold the length of.
ASSUME BrokerAssumption ==
  \A msg \in Messages : /\ msg \in Message
                        /\ msg.type = PUBLISH => msg.topic # <<>>
                        /\ Len(msg.topic) < 65536
                        /\ HasLength(Len(Body(msg)))

Zeroed(bytes) == [i \in 1..MQTT_BUF_SIZE |-> IF i <= Len(bytes) THEN bytes[i] ELSE 0]
ConnackOnly == <<CONNACK * 16, 2, 0, 0>>

\* A connection before its first segment, or behind one that held the CONNACK.
RecvInit ==
  /\ \/ inSession = FALSE /\ in_buffer = Zeroed(<<>>)
     \/ inSession = TRUE /\ in_buffer = Zeroed(ConnackOnly)
  /\ pdata = <<>> /\ busy = FALSE /\ faulted = FALSE
  /\ delivered = <<>> /\ replies = <<>> /\ sent = <<>>
  /\ missing = <<>> /\ aligned = TRUE
  /\ wasInSession = inSession /\ segments = 0

\* TCP hands over what comes next of the broker's messages, cut anywhere: the rest of
\* the last message or a piece of it, and behind the whole rest some more.
Segment ==
  /\ ~busy /\ ~faulted /\ segments < MaxSegments
  /\ \E msgs \in SeqOf(Messages, MaxMessages) :
       LET bytes == missing \o Stream(msgs)
           least == IF msgs = <<>> THEN 1
                    ELSE Len(bytes) - Len(Wire(msgs[Len(msgs)])) + 1
       IN \E k \in least..Min({Len(bytes), MaxSegment}) :
            /\ pdata' = SubSeq(bytes, 1, k)
            /\ missing' = SubSeq(bytes, k + 1, Len(bytes))
            /\ sent' = msgs
  /\ aligned' = (missing = <<>>)
  /\ wasInSession' = inSession
  /\ segments' = segments + 1
  /\ busy' = TRUE /\ delivered' = <<>> /\ replies' = <<>>
  /\ UNCHANGED <<in_buffer, inSession, faulted>>

\* The fault resets the chip.
Restart ==
  /\ ~busy /\ faulted
  /\ faulted' = FALSE /\ inSession' = FALSE /\ wasInSession' = FALSE
  /\ in_buffer' = Zeroed(<<>>)
  /\ delivered' = <<>> /\ replies' = <<>> /\ sent' = <<>>
  /\ missing' = <<>> /\ aligned' = TRUE /\ segments' = 0
  /\ UNCHANGED <<pdata, busy>>

Reply(type, id) == [type |-> type, id |-> id]
Replies(type, qos, id) ==
  CASE type = PUBLISH /\ qos = 1 -> <<Reply(PUBACK, id)>>
    [] type = PUBLISH /\ qos = 2 -> <<Reply(PUBREC, id)>>
    [] type = PUBREC -> <<Reply(PUBREL, id)>>
    [] type = PUBREL -> <<Reply(PUBCOMP, id)>>
    [] type = PINGREQ -> <<Reply(PINGRESP, 0)>>
    [] OTHER -> <<>>

Ends == busy' = FALSE /\ pdata' = <<>>

\* Faulty variant of GoesOn: the loop takes up the same bytes again.
GoesOnSame(total) ==
  IF total < Len(pdata) THEN UNCHANGED <<pdata, busy>> ELSE Ends

\* Is there another message behind this PUBLISH?
GoesOn(total) ==
  IF total < Len(pdata)
  THEN pdata' = SubSeq(pdata, total + 1, Len(pdata)) /\ UNCHANGED busy
  ELSE Ends

\* Faulty variant of Delivers: the pieces are read from the whole buffer, as the
\* identifier is.
DeliversBeyond(buffer) ==
  LET topic == mqtt_get_publish_topic(buffer, MQTT_BUF_SIZE)
      data == mqtt_get_publish_data(buffer, MQTT_BUF_SIZE)
  IN IF topic.null
     THEN faulted' = TRUE /\ Ends /\ UNCHANGED delivered
     ELSE /\ delivered' = Append(delivered, [topic |-> topic.bytes, data |-> data.bytes])
          /\ GoesOn(mqtt_get_total_length(buffer, Len(pdata)) % LengthWord)
          /\ UNCHANGED faulted

\* What mqtt_get_total_length may return, and find for totlen in mqtt_get_publish_data:
\* from the fifth length byte on an int is shifted by 28 bits and more, and C leaves
\* open what comes of it.
TotalLengths(b, length) ==
  IF HeaderEnd(b, length) <= 5 THEN {mqtt_get_total_length(b, length)}
  ELSE -LengthWord..2*LengthWord-1

\* deliver_publish, and mqtt_data_cb, which copies topic_length bytes from topic
\* (still the segment's length when that is NULL).
Delivers(buffer) ==
  LET topic == mqtt_get_publish_topic(buffer, Len(pdata))
  IN IF topic.null
     THEN faulted' = TRUE /\ Ends /\ UNCHANGED delivered
     ELSE \E total \in TotalLengths(buffer, Len(pdata)) :
            /\ delivered' =
                 Append(delivered,
                        [topic |-> topic.bytes,
                         data |-> PublishData(buffer, Len(pdata), total).bytes])
            /\ GoesOn(total % LengthWord)
            /\ UNCHANGED faulted

Copied == [i \in 1..MQTT_BUF_SIZE |-> IF i <= Len(pdata) THEN pdata[i] ELSE in_buffer[i]]

\* len < MQTT_BUF_SIZE && len > 0
Accepted == Len(pdata) \in 1..MQTT_BUF_SIZE-1

TooLong ==
  /\ busy /\ ~Accepted
  /\ Ends
  /\ UNCHANGED <<in_buffer, inSession, faulted, delivered, replies>>

\* pending_msg_type is CONNECT in this state (ConnackExpected), so the branch for
\* an unexpected CONNACK is not taken.
ReadPacketConnecting ==
  /\ busy /\ Accepted /\ ~inSession
  /\ in_buffer' = Copied
  /\ inSession' = (mqtt_get_type(Copied) = CONNACK)
  /\ Ends
  /\ UNCHANGED <<faulted, delivered, replies>>

ReadPacket ==
  /\ busy /\ Accepted /\ inSession /\ Len(delivered) < MaxPasses
  /\ in_buffer' = Copied
  /\ replies' = replies \o Replies(mqtt_get_type(Copied), mqtt_get_qos(Copied),
                                   mqtt_get_id(Copied, MQTT_BUF_SIZE))
  /\ IF mqtt_get_type(Copied) = PUBLISH
     THEN Delivers(Copied) ELSE Ends /\ UNCHANGED <<faulted, delivered>>
  /\ UNCHANGED inSession

mqtt_tcpclient_recv ==
  /\ TooLong \/ ReadPacketConnecting \/ ReadPacket
  /\ UNCHANGED <<sent, missing, aligned, wasInSession, segments>>

RecvNext == Segment \/ Restart \/ mqtt_tcpclient_recv

RecvSpec == RecvInit /\ [][RecvNext]_recvVars
-----------------------------------------------------------------------------
Size == Len(Stream(sent)) - Len(missing)
Returned == ~busy /\ wasInSession /\ aligned /\ Size \in 1..MQTT_BUF_SIZE-1

\* The PUBLISH messages at the beginning; a call takes up these and one more.
Leaders(msgs) ==
  LET others == {k \in DOMAIN msgs : msgs[k].type # PUBLISH}
  IN IF others = {} THEN Len(msgs) ELSE Min(others) - 1
Deliveries(msgs) == [k \in 1..Leaders(msgs) |-> [topic |-> msgs[k].topic, data |-> msgs[k].data]]
Answers(msgs) ==
  FlattenSeq([k \in 1..Min({Leaders(msgs) + 1, Len(msgs)}) |->
                Replies(msgs[k].type, msgs[k].qos, msgs[k].id)])

\* A segment of whole messages is handled as they were sent, up to the first that
\* is not a PUBLISH: each topic and payload is delivered unchanged and in order,
\* each identifier acknowledged is the message's own, whatever earlier segments
\* left behind in in_buffer (mqtt.c:247 copies, :251 reads beyond the copy).
WholeSegmentHandled ==
  Returned /\ missing = <<>> =>
    /\ ~faulted
    /\ delivered = Deliveries(sent)
    /\ replies = Answers(sent)

\* The length of the last message is one that message_length can hold.
LastFits == sent # <<>> => Len(Wire(sent[Len(sent)])) < LengthWord

\* Of a message that is cut off at the end of a segment nothing is made up: what
\* is delivered of it has its topic and a beginning of its payload, never bytes of
\* an older message, and the messages before it are delivered whole
\* (mqtt_get_publish_topic and _data get the length received, not the buffer's).
\* Nothing is promised of one whose length message_length cuts short.
CutOnlyShortens ==
  Returned /\ missing # <<>> /\ LastFits =>
    LET whole == SubSeq(sent, 1, Len(sent) - 1)
        last == sent[Len(sent)]
    IN \/ delivered = Deliveries(whole)
       \/ /\ Leaders(sent) = Len(sent)
          /\ SubSeq(delivered, 1, Len(delivered) - 1) = Deliveries(whole)
          /\ delivered[Len(delivered)].topic = last.topic
          /\ IsPrefix(delivered[Len(delivered)].data, last.data)

\* On a segment that begins with a message every pass that goes on takes up one message
\* and no more: what is left begins with the next one and holds what has come of the
\* others, so that the loop ends (mqtt.c:343-355 goes on by a length that is taken from
\* the bytes and cut to a uint16_t).  That needs LastFits, see AnotherMessage.
PassTakesOneMessage ==
  [][ busy /\ busy' /\ aligned /\ LastFits =>
        pdata' \o missing = Stream(SubSeq(sent, Len(delivered') + 1, Len(sent))) ]_recvVars

\* "Get another published message" (mqtt.c:354): a pass that goes on does not read the
\* same bytes again.
AnotherMessage == [][busy /\ busy' => pdata' # pdata]_recvVars
=============================================================================
