----------------------------- MODULE MqttClient -----------------------------
(***************************************************************************)
(* The connection state machine of the MQTT client (lib/mqtt/mqtt.c), one  *)
(* action per callback, timer or task run, over the parts of the SDK it    *)
(* drives: espconn (TCP), the DNS resolver, the os_timer of mqtt_timer and *)
(* the one-slot event queue of MQTT_Task.  The SDK runs these one at a     *)
(* time and to their end, in any order.                                    *)
(*                                                                         *)
(* msgQueue is a queue of packets with room for QueueCap of them; what a   *)
(* full ring does to it is what LossyQueue allows and FrameQueue shows.    *)
(* A struct espconn is a member of Conns; its memory may be reused as soon *)
(* as it is freed.                                                         *)
(***************************************************************************)
EXTENDS Integers, Sequences, FiniteSets

CONSTANTS
  Conns,             \* the struct espconn the heap has room for
  Keepalive,         \* connect_info.keepalive, in runs of mqtt_timer
  ReconnectTimeout,  \* MQTT_RECONNECT_TIMEOUT
  SendTimeout,       \* MQTT_SEND_TIMOUT
  QueueCap,          \* the packets msgQueue has room for
  MaxSegment,        \* bound on the messages in one TCP segment
  DnsSlots,          \* requests the resolver can have outstanding
  AddressCached      \* the resolver may know the address already

NULL == 0

ASSUME ClientAssumption ==
  /\ Conns \subseteq Nat \ {NULL}
  /\ Keepalive \in Nat /\ ReconnectTimeout \in Nat /\ SendTimeout \in Nat \ {0}
  /\ QueueCap \in Nat \ {0} /\ MaxSegment \in Nat \ {0} /\ DnsSlots \in Nat
  /\ AddressCached \in BOOLEAN

VARIABLES
  inited,         \* MQTT_InitClient has run: buffers, queue and task exist
  pCon,           \* client->pCon
  ip,             \* client->ip.addr # 0
  connState,      \* client->connState
  keepAliveTick, reconnectTick, sendTimeout,
  pending,        \* mqtt_state.pending_msg_type
  queue,          \* client->msgQueue, oldest packet first
  timer,          \* mqttTimer is armed
  posted,         \* MQTT_Task's event queue holds its one event
  conn,           \* the struct espconn, and TCP behind them
  dns,            \* dns[c]: outstanding requests with c as callback argument
  fault           \* undefined behaviour that ends in a reset; "none" so far

clientVars == <<inited, pCon, ip, connState, keepAliveTick, reconnectTick,
                sendTimeout, pending, queue, timer, posted>>
tickVars == <<keepAliveTick, reconnectTick, sendTimeout>>
sdkVars == <<conn, dns, fault>>

ConnState ==
  { "WIFI_INIT", "TCP_DISCONNECTING", "TCP_DISCONNECTED",
    "TCP_RECONNECT_DISCONNECTING", "TCP_RECONNECT_REQ", "TCP_RECONNECT",
    "TCP_CONNECTING", "MQTT_CONNECT_SENDING", "MQTT_DATA",
    "MQTT_KEEPALIVE_SEND" }

\* Packets the client queues; REPLY is PUBACK, PUBREC, PUBREL, PUBCOMP or
\* PINGRESP.
Queued == {"SUBSCRIBE", "PUBLISH", "REPLY"}

\* Messages of the broker.  PUBLISH has QoS 0, PUBLISH_ACKED QoS 1 or 2;
\* ASKING stands for PUBREC, PUBREL and PINGREQ, SILENT for SUBACK, UNSUBACK,
\* PUBACK, PUBCOMP and PINGRESP.
Received == {"CONNACK", "PUBLISH", "PUBLISH_ACKED", "ASKING", "SILENT"}

\* tcp: free (not allocated), idle, connecting, open, closing, dead
\* cbs: mqtt_tcpclient_connect_cb has registered the other callbacks
\* sends: packets handed to TCP and not yet reported sent
\* hello: how far the MQTT handshake got on this connection
\* sub: a SUBSCRIBE went out on it
Connection ==
  [ tcp : {"free", "idle", "connecting", "open", "closing", "dead"},
    cbs : BOOLEAN, sends : 0..2, hello : {"none", "sent", "acked"},
    sub : BOOLEAN ]

FreeConn == [ tcp |-> "free", cbs |-> FALSE, sends |-> 0, hello |-> "none",
              sub |-> FALSE ]

\* Taken by MQTT_Connect, not yet connecting.
NewConn == [FreeConn EXCEPT !.tcp = "idle"]

ClientInit ==
  /\ inited = FALSE /\ pCon = NULL /\ ip = FALSE
  /\ connState = "WIFI_INIT"
  /\ keepAliveTick = 0 /\ reconnectTick = 0 /\ sendTimeout = 0
  /\ pending = "none" /\ queue = <<>>
  /\ timer = FALSE /\ posted = FALSE
  /\ conn = [c \in Conns |-> FreeConn]
  /\ dns = [c \in Conns |-> 0]
  /\ fault = "none"

-----------------------------------------------------------------------------
(* espconn, as the client uses it.                                         *)

\* espconn_disconnect starts the close of a connection it knows.
espconn_disconnect(cs, c) ==
  IF c # NULL /\ cs[c].tcp \in {"connecting", "open"}
  THEN [cs EXCEPT ![c].tcp = "closing"] ELSE cs

\* espconn_connect on a connection that is under way changes nothing.
espconn_connect(c) ==
  IF conn[c].tcp \in {"idle", "dead"}
  THEN [conn EXCEPT ![c].tcp = "connecting"] ELSE conn

\* What espconn_send may return: it needs an open connection, and may refuse
\* a packet while it has another one.
SendResults(cs, c) ==
  IF c = NULL \/ cs[c].tcp # "open" \/ cs[c].sends = 2 THEN {FALSE}
  ELSE IF cs[c].sends = 0 THEN {TRUE} ELSE BOOLEAN

Sent(cs, c, type) ==
  [cs EXCEPT ![c].sends = @ + 1,
             ![c].sub = @ \/ type = "SUBSCRIBE"]

\* CONNECT is no packet of the queue: it goes out where it is built.
SentConnect(cs, c) == [Sent(cs, c, "CONNECT") EXCEPT ![c].hello = "sent"]

\* system_os_post: the queue has one slot, and no task before MQTT_InitClient.
system_os_post == posted' = inited

-----------------------------------------------------------------------------
(* The queue, as a set of outcomes.                                        *)

\* QUEUE_Puts of a reply: dropped when there is no room.
QUEUE_Puts(q, p) == IF Len(q) < QueueCap THEN {Append(q, p)} ELSE {q}

\* The loop of MQTT_Publish and MQTT_Subscribe: in a full ring some of the
\* oldest packets go, or all of them and the new one too.
MQTT_Publish(q, p) ==
  IF Len(q) < QueueCap THEN {Append(q, p)}
  ELSE {Append(SubSeq(q, k + 1, Len(q)), p) : k \in 1..Len(q)} \cup {<<>>}

\* mqtt_connected_cb of clock_update.c
ConnectedCb(q) ==
  UNION {MQTT_Publish(r, "PUBLISH") : r \in MQTT_Publish(q, "SUBSCRIBE")}

\* mqtt_data_cb of clock_update.c: the only topic subscribed to is the
\* brightness, and setting it is reported.
DataCb(q) == MQTT_Publish(q, "PUBLISH")

IsPublish(m) == m \in {"PUBLISH", "PUBLISH_ACKED"}

Answered(q, m) ==
  CASE m = "PUBLISH"       -> DataCb(q)
    [] m = "PUBLISH_ACKED" -> UNION {DataCb(r) : r \in QUEUE_Puts(q, "REPLY")}
    [] m = "ASKING"        -> QUEUE_Puts(q, "REPLY")
    [] OTHER               -> {q}

\* The READPACKET loop goes on to the next message of the segment only after
\* a PUBLISH: what follows any other message is dropped.
Processed(q, segment) ==
  LET after[n \in 0..Len(segment)] ==
        IF n = 0 THEN {q}
        ELSE IF \A k \in 1..n-1 : IsPublish(segment[k])
             THEN UNION {Answered(r, segment[n]) : r \in after[n-1]}
             ELSE after[n-1]
  IN after[Len(segment)]

-----------------------------------------------------------------------------
\* Faulty variant of Released: the struct espconn stays behind.
ReleasedNot == conn

\* mqtt_tcpclient_delete; its caller sets client->pCon.
Released == [c \in Conns |-> IF c = pCon THEN FreeConn ELSE conn[c]]

(* MQTT_Connect: drop the old struct espconn, take a new one, arm          *)
(* mqtt_timer and ask for the address of the broker, which is a name.  The *)
(* result of espconn_gethostbyname is ignored: a full resolver, or one     *)
(* that knows the address (and stores it in client->ip), calls nobody back.*)
MQTT_Connect ==
  LET spare == {c \in Conns : Released[c].tcp = "free"}
  IN \/ /\ spare = {}
        /\ fault' = "heap"
        /\ UNCHANGED <<inited, pCon, ip, connState, tickVars, pending, queue,
                       timer, conn, dns>>
     \/ /\ \E c \in spare :
             /\ pCon' = c
             /\ conn' = [Released EXCEPT ![c] = NewConn]
             /\ \/ /\ dns[c] < DnsSlots
                   /\ dns' = [dns EXCEPT ![c] = @ + 1]
                   /\ UNCHANGED ip
                \/ /\ dns[c] = DnsSlots
                   /\ UNCHANGED <<dns, ip>>
                \/ /\ AddressCached
                   /\ ip' = TRUE
                   /\ UNCHANGED dns
        /\ keepAliveTick' = 0 /\ reconnectTick' = 0
        /\ timer' = TRUE
        /\ connState' = "TCP_CONNECTING"
        /\ UNCHANGED <<inited, sendTimeout, pending, queue, fault>>

\* Faulty variant of MQTT_Disconnect: mqtt_timer goes on.
MQTT_DisconnectArmed ==
  /\ connState' = "TCP_DISCONNECTING"
  /\ system_os_post
  /\ UNCHANGED <<inited, pCon, ip, tickVars, pending, queue, timer, sdkVars>>

\* Disconnect, as soon as MQTT_Task runs.
MQTT_Disconnect ==
  /\ connState' = "TCP_DISCONNECTING"
  /\ system_os_post
  /\ timer' = FALSE
  /\ UNCHANGED <<inited, pCon, ip, tickVars, pending, queue, sdkVars>>

-----------------------------------------------------------------------------
(* mqtt_dns_found.  A callback argument that has been freed reads as it    *)
(* was, or as garbage (fault); one that has been reused is the new struct. *)
DnsCallback(c) ==
  /\ dns[c] > 0
  /\ dns' = [dns EXCEPT ![c] = @ - 1]

DnsFaults(c) ==
  /\ DnsCallback(c)
  /\ \/ conn[c].tcp = "free"
     \/ pCon = NULL /\ ~ip
  /\ fault' = "dangling"
  /\ UNCHANGED <<clientVars, conn>>


DnsFails(c) ==
  /\ DnsCallback(c)
  /\ connState' = "TCP_RECONNECT_REQ"
  /\ UNCHANGED <<inited, pCon, ip, tickVars, pending, queue, timer, posted,
                 conn, fault>>

mqtt_dns_found(c) ==
  /\ DnsCallback(c)
  /\ \/ /\ ~ip /\ pCon # NULL
        /\ conn' = espconn_connect(pCon)
        /\ connState' = "TCP_CONNECTING"
     \/ ip /\ UNCHANGED <<conn, connState>>
  /\ system_os_post
  /\ UNCHANGED <<inited, pCon, ip, tickVars, pending, queue, timer, fault>>

\* Faulty variant of Handshake: the type of the message sent is not noted.
HandshakeUnnoted ==
  /\ sendTimeout' = SendTimeout
  /\ connState' = "MQTT_CONNECT_SENDING"
  /\ UNCHANGED pending

\* Faulty variant of Handshake: CONNACK is not waited for.
HandshakeSkipped ==
  /\ pending' = "CONNECT" /\ sendTimeout' = SendTimeout
  /\ connState' = "MQTT_DATA"

Handshake ==
  /\ pending' = "CONNECT" /\ sendTimeout' = SendTimeout
  /\ connState' = "MQTT_CONNECT_SENDING"

\* mqtt_tcpclient_connect_cb on connection c: the other callbacks are
\* registered, and CONNECT is sent, on client->pCon.
mqtt_tcpclient_connect_cb(c) ==
  /\ conn[c].tcp = "connecting"
  /\ LET up == [conn EXCEPT ![c].tcp = "open"]
         cs == IF pCon = NULL THEN up ELSE [up EXCEPT ![pCon].cbs = TRUE]
     IN \E accepted \in SendResults(cs, pCon) :
          conn' = IF accepted THEN SentConnect(cs, pCon) ELSE cs
  /\ Handshake
  /\ system_os_post
  /\ UNCHANGED <<inited, pCon, ip, keepAliveTick, reconnectTick, queue, timer,
                 dns, fault>>

\* The connection is gone, and with it what it had not sent.
Dead(c) == [conn EXCEPT ![c].tcp = "dead", ![c].sends = 0]

\* mqtt_tcpclient_recon_cb: the connection failed or was lost.
mqtt_tcpclient_recon_cb(c) ==
  /\ conn[c].tcp \in {"connecting", "open", "closing"}
  /\ conn' = Dead(c)
  /\ connState' = "TCP_RECONNECT_REQ"
  /\ system_os_post
  /\ UNCHANGED <<inited, pCon, ip, tickVars, pending, queue, timer, dns, fault>>

AfterDisconnect ==
  IF connState = "TCP_DISCONNECTING" THEN "TCP_DISCONNECTED"
                                     ELSE "TCP_RECONNECT_REQ"

\* mqtt_tcpclient_discon_cb: the connection closed, on the client's wish or
\* the broker's; nobody is told if the callbacks were not registered on it.
mqtt_tcpclient_discon_cb(c) ==
  /\ conn[c].tcp \in {"open", "closing"}
  /\ conn' = Dead(c)
  /\ \/ /\ conn[c].cbs
        /\ connState' = AfterDisconnect
        /\ system_os_post
     \/ /\ ~conn[c].cbs
        /\ UNCHANGED <<connState, posted>>
  /\ UNCHANGED <<inited, pCon, ip, tickVars, pending, queue, timer, dns, fault>>

\* Faulty variant of Resume: the queue waits for another event.
ResumeNot == UNCHANGED <<sendTimeout, posted>>

Resume == sendTimeout' = 0 /\ system_os_post

\* mqtt_tcpclient_sent_cb
mqtt_tcpclient_sent_cb(c) ==
  /\ conn[c].tcp = "open" /\ conn[c].sends > 0 /\ conn[c].cbs
  /\ conn' = [conn EXCEPT ![c].sends = @ - 1]
  /\ Resume /\ keepAliveTick' = 0
  /\ UNCHANGED <<inited, pCon, ip, connState, reconnectTick, pending, queue,
                 timer, dns, fault>>

\* What a broker sends: CONNACK once, to a CONNECT; then, on its own, the
\* messages of a subscription and answers.
FromBroker(c, segment) ==
  /\ conn[c].tcp = "open" /\ conn[c].cbs
  /\ \/ conn[c].hello = "sent" /\ segment = <<"CONNACK">>
     \/ /\ conn[c].hello = "acked"
        /\ \A k \in DOMAIN segment :
             /\ segment[k] # "CONNACK"
             /\ IsPublish(segment[k]) => conn[c].sub

Acked(c) == [conn EXCEPT ![c].hello = "acked"]

\* mqtt_tcpclient_recv of one segment; "long" is one of MQTT_BUF_SIZE bytes
\* or more, which is dropped.
mqtt_tcpclient_recv(c, segment, long) ==
  /\ FromBroker(c, segment)
  /\ long => segment # <<"CONNACK">>
  /\ keepAliveTick' = 0
  /\ LET told == IF segment = <<"CONNACK">> THEN Acked(c) ELSE conn
     IN \/ /\ ~long /\ connState = "MQTT_CONNECT_SENDING"
           /\ segment = <<"CONNACK">> /\ pending = "CONNECT"
           /\ connState' = "MQTT_DATA"
           /\ queue' \in ConnectedCb(queue)
           /\ conn' = told
        \/ /\ ~long /\ connState = "MQTT_CONNECT_SENDING"
           /\ segment = <<"CONNACK">> /\ pending # "CONNECT"
           /\ conn' = espconn_disconnect(told, pCon)
           /\ UNCHANGED <<connState, queue>>
        \/ /\ ~long /\ connState \in {"MQTT_DATA", "MQTT_KEEPALIVE_SEND"}
           /\ queue' \in Processed(queue, segment)
           /\ conn' = told
           /\ UNCHANGED connState
        \/ /\ \/ long
              \/ connState = "MQTT_CONNECT_SENDING" /\ segment # <<"CONNACK">>
              \/ connState \notin { "MQTT_CONNECT_SENDING", "MQTT_DATA",
                                    "MQTT_KEEPALIVE_SEND" }
           /\ conn' = told
           /\ UNCHANGED <<connState, queue>>
  /\ system_os_post
  /\ UNCHANGED <<inited, pCon, ip, reconnectTick, sendTimeout, pending, timer,
                 dns, fault>>

-----------------------------------------------------------------------------
(* mqtt_timer, once a second while it is armed.                            *)
Decremented(n) == IF n > 0 THEN n - 1 ELSE n

KeepaliveTicks ==
  /\ connState = "MQTT_DATA"
  /\ keepAliveTick' = keepAliveTick + 1
  /\ IF keepAliveTick' > Keepalive
     THEN connState' = "MQTT_KEEPALIVE_SEND" /\ system_os_post
     ELSE UNCHANGED <<connState, posted>>
  /\ UNCHANGED reconnectTick

\* Faulty variant of Reconnects: MQTT_Task is not told.
ReconnectsUntold ==
  /\ reconnectTick' = 0
  /\ connState' = "TCP_RECONNECT"
  /\ UNCHANGED posted

\* Faulty variant of Reconnects: the count is not started anew.
ReconnectsCounting ==
  /\ reconnectTick' = reconnectTick + 1
  /\ connState' = "TCP_RECONNECT"
  /\ system_os_post

Reconnects ==
  /\ reconnectTick' = 0
  /\ connState' = "TCP_RECONNECT"
  /\ system_os_post

\* Faulty variant of Waiting: a timeout on TCP_CONNECTING as well.
WaitingEager == connState \in {"TCP_RECONNECT_REQ", "TCP_CONNECTING"}

Waiting == connState = "TCP_RECONNECT_REQ"

ReconnectTicks ==
  /\ Waiting
  /\ IF reconnectTick + 1 > ReconnectTimeout
     THEN Reconnects
     ELSE reconnectTick' = reconnectTick + 1 /\ UNCHANGED <<connState, posted>>
  /\ UNCHANGED keepAliveTick

mqtt_timer ==
  /\ timer
  /\ \/ KeepaliveTicks
     \/ ReconnectTicks
     \/ /\ connState # "MQTT_DATA" /\ ~Waiting
        /\ UNCHANGED <<connState, posted, keepAliveTick, reconnectTick>>
  /\ sendTimeout' = Decremented(sendTimeout)
  /\ UNCHANGED <<inited, pCon, ip, pending, queue, timer, sdkVars>>

-----------------------------------------------------------------------------
(* MQTT_Task takes its one event and looks at connState.                   *)
TaskReconnects ==
  /\ posted /\ connState = "TCP_RECONNECT"
  /\ MQTT_Connect
  /\ posted' = FALSE

TaskDisconnects ==
  /\ posted
  /\ connState \in {"TCP_DISCONNECTING", "TCP_RECONNECT_DISCONNECTING"}
  /\ conn' = espconn_disconnect(conn, pCon)
  /\ posted' = FALSE
  /\ UNCHANGED <<inited, pCon, ip, connState, tickVars, pending, queue, timer,
                 dns, fault>>

TaskReleases ==
  /\ posted /\ connState = "TCP_DISCONNECTED"
  /\ conn' = Released
  /\ pCon' = NULL
  /\ posted' = FALSE
  /\ UNCHANGED <<inited, ip, connState, tickVars, pending, queue, timer, dns,
                 fault>>

\* mqtt_send_keepalive: the post inside it is kept, the slot is empty by now.
TaskPings ==
  /\ posted /\ connState = "MQTT_KEEPALIVE_SEND"
  /\ pending' = "PINGREQ"
  /\ sendTimeout' = SendTimeout
  /\ \E accepted \in SendResults(conn, pCon) :
       \/ /\ accepted
          /\ conn' = Sent(conn, pCon, "PINGREQ")
          /\ keepAliveTick' = 0
          /\ connState' = "MQTT_DATA"
       \/ /\ ~accepted
          /\ connState' = "TCP_RECONNECT_DISCONNECTING"
          /\ UNCHANGED <<conn, keepAliveTick>>
  /\ posted' = TRUE
  /\ UNCHANGED <<inited, pCon, ip, reconnectTick, queue, timer, dns, fault>>

\* The packet leaves the queue whether or not espconn_send accepts it.
TaskSends ==
  /\ posted /\ connState = "MQTT_DATA"
  /\ queue # <<>> /\ sendTimeout = 0
  /\ queue' = Tail(queue)
  /\ pending' = Head(queue)
  /\ sendTimeout' = SendTimeout
  /\ \E accepted \in SendResults(conn, pCon) :
       conn' = IF accepted THEN Sent(conn, pCon, Head(queue)) ELSE conn
  /\ posted' = FALSE
  /\ UNCHANGED <<inited, pCon, ip, connState, keepAliveTick, reconnectTick,
                 timer, dns, fault>>

TaskIdles ==
  /\ posted
  /\ \/ connState \in { "WIFI_INIT", "TCP_RECONNECT_REQ", "TCP_CONNECTING",
                        "MQTT_CONNECT_SENDING" }
     \/ connState = "MQTT_DATA" /\ (queue = <<>> \/ sendTimeout # 0)
  /\ posted' = FALSE
  /\ UNCHANGED <<inited, pCon, ip, connState, tickVars, pending, queue, timer,
                 sdkVars>>

MQTT_Task ==
  \/ TaskReconnects \/ TaskDisconnects \/ TaskReleases
  \/ TaskPings \/ TaskSends \/ TaskIdles

-----------------------------------------------------------------------------
(* MQTT_InitConnection and MQTT_InitClient, with the callbacks registered  *)
(* by mqtt_init of clock_update.c.  The whole MQTT_Client is zeroed first: *)
(* pCon is forgotten, not released, and an mqttTimer still armed is        *)
(* overwritten while the SDK's timer list runs through it (fault).         *)
MQTT_Init ==
  \/ /\ timer
     /\ fault' = "timer list"
     /\ UNCHANGED <<clientVars, conn, dns>>
  \/ /\ ~timer
     /\ inited' = TRUE
     /\ pCon' = NULL /\ ip' = FALSE
     /\ connState' = "WIFI_INIT"
     /\ keepAliveTick' = 0 /\ reconnectTick' = 0 /\ sendTimeout' = 0
     /\ pending' = "none" /\ queue' = <<>>
     /\ timer' = FALSE
     /\ posted' = TRUE
     /\ UNCHANGED sdkVars
=============================================================================
