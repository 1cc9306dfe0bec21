----------------------------- MODULE LossyQueue -----------------------------
(***************************************************************************)
(* What the outbound message queue promises the MQTT client: whole packets *)
(* come out unchanged, in the order they were accepted, each at most once. *)
(* It does not promise that a packet gets in, nor that one stays: a caller *)
(* of kind "append" (the replies queued by mqtt_tcpclient_recv) is refused *)
(* when there is no room, a caller of kind "publish" (MQTT_Publish,        *)
(* MQTT_Subscribe, MQTT_UnSubscribe, MQTT_Ping) throws away old packets    *)
(* to make room, and may end up with an empty queue and a refusal.         *)
(***************************************************************************)
EXTENDS Sequences

CONSTANTS Packet

VARIABLES mq,      \* the packets accepted and not yet handed out or lost
          busy,    \* a call is in progress
          caller,  \* who made the last call
          packet,  \* the packet it offers
          ok,      \* what the last call that returned told its caller
          out      \* the packet the last successful QUEUE_Gets stored

queueVars == <<mq, busy, caller, packet, ok, out>>

QueueInit ==
  /\ mq = <<>>
  /\ busy = FALSE /\ caller = "none" /\ ok = TRUE
  /\ packet \in Packet
  /\ out = <<>>

Call ==
  /\ ~busy /\ busy' = TRUE
  /\ \/ caller' \in {"append", "publish"} /\ packet' \in Packet
     \/ caller' = "task" /\ UNCHANGED packet
  /\ UNCHANGED <<mq, ok, out>>

Return(result) ==
  /\ busy /\ busy' = FALSE
  /\ ok' = result
  /\ UNCHANGED <<caller, packet>>

Accept ==
  /\ caller \in {"append", "publish"}
  /\ mq' = Append(mq, packet)
  /\ Return(TRUE)
  /\ UNCHANGED out

\* A publisher drops the oldest packet and tries again.
Evict ==
  /\ busy /\ caller = "publish" /\ mq # <<>>
  /\ mq' = Tail(mq)
  /\ UNCHANGED <<busy, caller, packet, ok, out>>

Refuse ==
  /\ \/ caller = "append"
     \/ caller = "publish" /\ mq = <<>>
  /\ Return(FALSE)
  /\ UNCHANGED <<mq, out>>

Take ==
  /\ caller = "task" /\ mq # <<>>
  /\ out' = Head(mq)
  /\ mq' = Tail(mq)
  /\ Return(TRUE)

NothingToTake ==
  /\ caller = "task" /\ mq = <<>>
  /\ Return(FALSE)
  /\ UNCHANGED <<mq, out>>

QueueNext == Call \/ Accept \/ Evict \/ Refuse \/ Take \/ NothingToTake

QueueSpec == QueueInit /\ [][QueueNext]_queueVars
=============================================================================
