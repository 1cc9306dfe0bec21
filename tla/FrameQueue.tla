----------------------------- MODULE FrameQueue -----------------------------
(***************************************************************************)
(* The outbound message queue of the MQTT client: packets framed byte by   *)
(* byte into the ring (lib/mqtt/proto.c, queue.c), and the loop by which   *)
(* MQTT_Publish and its siblings throw out old packets to make room for a  *)
(* new one (mqtt.c:521-527).                                               *)
(*                                                                         *)
(* One step is one byte put into or taken from the ring, so that what a    *)
(* call leaves behind when it gives up half way is visible.  The ring      *)
(* itself is the bounded byte queue that RingBuf is proved to implement.   *)
(***************************************************************************)
EXTENDS Integers, Sequences

CONSTANTS Packet,  \* the packets offered to the queue
          Reply,   \* those mqtt_tcpclient_recv offers: 2 to 4 bytes (mqtt.c:300)
          Size,    \* QUEUE_BUFFER_SIZE
          MaxLen   \* MQTT_BUF_SIZE, also the size of out_buffer

Byte == 0..255

\* A packet is built in out_buffer, so it is no longer than MaxLen.  A reply fits
\* the ring even if each of its bytes is escaped: 10 bytes of 2048.
ASSUME FrameAssumption ==
  /\ \A p \in Packet : p \in Seq(Byte) /\ Len(p) <= MaxLen
  /\ Packet # {}
  /\ Reply \subseteq Packet /\ \A p \in Reply : 2 + 2 * Len(p) <= Size
  /\ Size \in Nat /\ MaxLen \in Nat

VARIABLES ring,    \* the bytes in the ring, oldest first
          pc,      \* where the call in progress stands; "idle" between calls
          caller,  \* "append", "publish" or "task": who made the last call
          packet,  \* the packet being added
          i,       \* the byte of the packet that PROTO_AddRb copies next
          parser,  \* the PROTO_PARSER of PROTO_ParseRb
          ok,      \* the last call returned TRUE, or 0 from QUEUE_Gets
          out,     \* what the last successful QUEUE_Gets of MQTT_Task copied
          mq       \* history: the packets accepted and not yet read back

vars == <<ring, pc, caller, packet, i, parser, ok, out, mq>>

EscMark == 125    \* 0x7D
BeginMark == 126  \* 0x7E
EndMark == 127    \* 0x7F

\* Faulty variant of IsSpecial: the end marker is not escaped.
IsSpecialNoEnd(v) == v \in {EscMark, BeginMark}

IsSpecial(v) == v \in {EscMark, BeginMark, EndMark}

\* v XOR 0x20
Flip(v) == IF (v \div 32) % 2 = 0 THEN v + 32 ELSE v - 32

\* PROTO_Init leaves isBegin as it was on the stack.
FreshParsers == [isBegin : BOOLEAN, isEsc : {FALSE}, buf : {<<>>}]

\* Stands for the parser while no PROTO_ParseRb is running.
NoParser == [isBegin |-> FALSE, isEsc |-> FALSE, buf |-> <<>>]

\* Faulty variant of PROTO_ParseByte: a begin marker does not reset isEsc.
PROTO_ParseByteKeepEsc(st, v) ==
  CASE v = EscMark   -> [st EXCEPT !.isEsc = TRUE]
    [] v = BeginMark -> [st EXCEPT !.isBegin = TRUE, !.buf = <<>>]
    [] v = EndMark   -> [st EXCEPT !.isBegin = FALSE]
    [] OTHER ->
         IF ~st.isBegin THEN st
         ELSE [st EXCEPT !.isEsc = FALSE,
                         !.buf = IF Len(@) < MaxLen
                                 THEN Append(@, IF st.isEsc THEN Flip(v) ELSE v)
                                 ELSE @]

PROTO_ParseByte(st, v) ==
  CASE v = EscMark   -> [st EXCEPT !.isEsc = TRUE]
    [] v = BeginMark -> [isBegin |-> TRUE, isEsc |-> FALSE, buf |-> <<>>]
    [] v = EndMark   -> [st EXCEPT !.isBegin = FALSE]
    [] OTHER ->
         IF ~st.isBegin THEN st
         ELSE [st EXCEPT !.isEsc = FALSE,
                         !.buf = IF Len(@) < MaxLen
                                 THEN Append(@, IF st.isEsc THEN Flip(v) ELSE v)
                                 ELSE @]

-----------------------------------------------------------------------------
Init ==
  /\ ring = <<>>
  /\ pc = "idle" /\ caller = "none" /\ ok = TRUE
  /\ packet \in Packet /\ i = 1
  /\ parser = NoParser
  /\ out = <<>> /\ mq = <<>>

\* QUEUE_Puts, on its own or in the loop of a publisher.
CallPuts(who, p) ==
  /\ pc = "idle" /\ pc' = "begin"
  /\ who = "append" => p \in Reply
  /\ caller' = who /\ packet' = p /\ i' = 1
  /\ UNCHANGED <<ring, parser, ok, out, mq>>

\* QUEUE_Gets by MQTT_Task.
CallGets ==
  /\ pc = "idle" /\ pc' = "read"
  /\ caller' = "task"
  /\ parser' \in FreshParsers
  /\ UNCHANGED <<ring, packet, i, ok, out, mq>>

Return(result) ==
  /\ pc' = "idle"
  /\ ok' = result
  /\ UNCHANGED <<caller, packet, i>>

\* PROTO_AddRb puts one byte and goes on at "next".
PutByte(v, next) ==
  /\ Len(ring) < Size
  /\ ring' = Append(ring, v)
  /\ pc' = next
  /\ UNCHANGED <<caller, packet, parser, out>>

PutBegin ==
  /\ pc = "begin"
  /\ PutByte(BeginMark, "body")
  /\ UNCHANGED <<i, ok, mq>>

PutPlain ==
  /\ pc = "body" /\ i <= Len(packet) /\ ~IsSpecial(packet[i])
  /\ PutByte(packet[i], "body")
  /\ i' = i + 1
  /\ UNCHANGED <<ok, mq>>

PutEscape ==
  /\ pc = "body" /\ i <= Len(packet) /\ IsSpecial(packet[i])
  /\ PutByte(EscMark, "escaped")
  /\ UNCHANGED <<i, ok, mq>>

PutEscaped ==
  /\ pc = "escaped"
  /\ PutByte(Flip(packet[i]), "body")
  /\ i' = i + 1
  /\ UNCHANGED <<ok, mq>>

PutEnd ==
  /\ pc = "body" /\ i > Len(packet)
  /\ PutByte(EndMark, "idle")
  /\ ok' = TRUE
  /\ mq' = Append(mq, packet)
  /\ UNCHANGED i

\* RINGBUF_Put fails: the bytes already put stay.  A reply is given up
\* (mqtt.c:300-302); a publisher reads a packet out of the ring (523).
PutsFails ==
  /\ pc \in {"begin", "body", "escaped"} /\ Len(ring) >= Size
  /\ \/ /\ caller = "append"
        /\ Return(FALSE)
        /\ UNCHANGED <<ring, parser, out>>
     \/ /\ caller = "publish"
        /\ pc' = "read"
        /\ parser' \in FreshParsers
        /\ UNCHANGED <<ring, caller, packet, i, ok, out>>
  /\ UNCHANGED mq

\* PROTO_ParseRb takes a byte that does not complete a frame.
GetByte ==
  /\ pc = "read" /\ ring # <<>> /\ Head(ring) # EndMark
  /\ ring' = Tail(ring)
  /\ parser' = PROTO_ParseByte(parser, Head(ring))
  /\ UNCHANGED <<pc, caller, packet, i, ok, out, mq>>

\* Faulty variant of GetEnd: the reader does not stop at the end of a frame.
GetEndReadsOn ==
  /\ pc = "read" /\ ring # <<>> /\ Head(ring) = EndMark
  /\ ring' = Tail(ring)
  /\ parser' = PROTO_ParseByte(parser, Head(ring))
  /\ UNCHANGED <<pc, caller, packet, i, ok, out, mq>>

\* The end marker ends QUEUE_Gets: MQTT_Task has its packet, a publisher
\* drops it and tries QUEUE_Puts again.
GetEnd ==
  /\ pc = "read" /\ ring # <<>> /\ Head(ring) = EndMark
  /\ ring' = Tail(ring)
  /\ parser' = NoParser
  /\ mq' = Tail(mq)
  /\ \/ /\ caller = "task"
        /\ out' = parser.buf
        /\ Return(TRUE)
     \/ /\ caller = "publish"
        /\ pc' = "begin" /\ i' = 1
        /\ UNCHANGED <<caller, packet, ok, out>>

\* Faulty variant of GetsFails: the publisher goes round its loop again.
GetsFailsRetry ==
  /\ pc = "read" /\ ring = <<>>
  /\ \/ caller = "task" /\ Return(FALSE)
     \/ /\ caller = "publish"
        /\ pc' = "begin" /\ i' = 1
        /\ UNCHANGED <<caller, packet, ok>>
  /\ parser' = NoParser
  /\ UNCHANGED <<ring, out, mq>>

\* No end marker was left: QUEUE_Gets returns -1 with the ring drained, and
\* the publisher reports a "Serious buffer error" and FALSE (mqtt.c:524).
GetsFails ==
  /\ pc = "read" /\ ring = <<>>
  /\ Return(FALSE)
  /\ parser' = NoParser
  /\ UNCHANGED <<ring, out, mq>>

Step ==
  \/ PutBegin \/ PutPlain \/ PutEscape \/ PutEscaped \/ PutEnd \/ PutsFails
  \/ GetByte \/ GetEnd \/ GetsFails

Next ==
  \/ \E who \in {"append", "publish"}, p \in Packet : CallPuts(who, p)
  \/ CallGets
  \/ Step

Spec == Init /\ [][Next]_vars

(* A call runs to its end: nothing preempts it for ever.                   *)
FairSpec == Spec /\ WF_vars(Step)

-----------------------------------------------------------------------------
(* The refinement mapping: the history variable is the queue itself.       *)
Abstract == INSTANCE LossyQueue WITH busy <- (pc # "idle")

(* Whatever partial frames refused calls leave behind, and whatever the    *)
(* stack held where isBegin should have been set (proto.c:3-11), the queue *)
(* hands out exactly the accepted packets, whole, unchanged and in order;  *)
(* only a publisher's loop loses any, oldest first (queue.c, proto.c,      *)
(* mqtt.c:521-527).                                                        *)
ImplementsLossyQueue == Abstract!QueueSpec

(* Types: the ring never holds more than its size; i stays in the packet.  *)
TypeOK ==
  /\ ring \in Seq(Byte) /\ Len(ring) <= Size
  /\ pc \in {"idle", "begin", "body", "escaped", "read"}
  /\ caller \in {"none", "append", "publish", "task"}
  /\ pc \in {"begin", "body", "escaped"} => caller \in {"append", "publish"}
  /\ pc = "read" => caller \in {"publish", "task"}
  /\ packet \in Packet
  /\ i \in 1..Len(packet)+1
  /\ pc = "escaped" => i <= Len(packet) /\ IsSpecial(packet[i])
  /\ parser \in [isBegin : BOOLEAN, isEsc : BOOLEAN, buf : Seq(Byte)]
  /\ Len(parser.buf) <= MaxLen
  /\ ok \in BOOLEAN
  /\ out \in Seq(Byte)
  /\ mq \in Seq(Packet)

(* The ring is a sequence of frames, complete or cut short: outside of a   *)
(* read it is empty or starts with a begin marker, an end marker is only   *)
(* ever followed by a begin marker, a packet is only ever added to a frame *)
(* still open, and a read in mid-frame has seen the frame's begin marker.  *)
(* Hence PROTO_ParseRb never depends on the isBegin that PROTO_Init left   *)
(* unset (proto.c:3-11, 34).                                               *)
FrameAligned ==
  /\ \A k \in 1..Len(ring)-1 : ring[k] = EndMark => ring[k+1] = BeginMark
  /\ ring # <<>> /\ ring[1] # BeginMark => pc = "read" /\ parser.isBegin
  /\ pc \in {"body", "escaped"} => ring # <<>> /\ ring[Len(ring)] # EndMark

(* The loop of a publisher, which puts back part of a frame for every      *)
(* packet it throws out, ends: every call returns (mqtt.c:521-527).        *)
EveryCallReturns == (pc # "idle") ~> (pc = "idle")

FrameLen(p) == 2 + Len(p) + Len(SelectSeq(p, IsSpecial))

(* A publisher that starts while some queued packet takes at least as many *)
(* bytes as its own gets its packet accepted: it is refused only when each *)
(* packet it threw out was smaller than the one it offers.                 *)
LargerVictimSuffices ==
  ( /\ pc = "begin" /\ caller = "publish"
    /\ \E k \in DOMAIN mq : FrameLen(mq[k]) >= FrameLen(packet) )
  ~> (pc = "idle" /\ caller = "publish" /\ ok)

(* "Serious buffer error" (mqtt.c:524, 552, 578, 605) is reported only for *)
(* a packet whose frame exceeds the whole ring: a healthy ring is emptied  *)
(* until the frame fits.                                                   *)
SeriousErrorOnlyIfTooLarge ==
  pc = "idle" /\ caller = "publish" /\ ~ok => FrameLen(packet) > Size
=============================================================================
