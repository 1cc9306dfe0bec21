---------------------------- MODULE ClockUpdate -----------------------------
(***************************************************************************)
(* src/clock_update.c and src/light_sensor.c on top of the MQTT client:    *)
(* Wi-Fi events, the SNTP poll that starts the client, the sensor's        *)
(* messages, and the whole network side of the clock as one system.        *)
(***************************************************************************)
EXTENDS MqttClient

CONSTANTS
  WifiMayDrop,  \* the station may lose its access point and rejoin
  Resync        \* the hourly SNTP check happens

ASSUME UpdateAssumption == WifiMayDrop \in BOOLEAN /\ Resync \in BOOLEAN

VARIABLES
  online,  \* the station is associated and has an address
  joined,  \* it has been online since the last reset
  synced,  \* sntp_get_current_timestamp() # 0
  sntp     \* sntp_timer: "off", "second" or "hour"

updateVars == <<online, joined, synced, sntp>>
vars == <<clientVars, sdkVars, updateVars>>

\* Reset and user_init: every variable of the program starts anew.
Init ==
  /\ ClientInit
  /\ online = FALSE /\ joined = FALSE
  /\ synced = FALSE
  /\ sntp = "off"

\* EVENT_STAMODE_DISCONNECTED: the station lost its access point, or failed
\* once more to find it.
WifiDisconnected ==
  /\ WifiMayDrop
  /\ MQTT_Disconnect
  /\ online' = FALSE
  /\ UNCHANGED <<joined, synced, sntp>>

\* Faulty variant of ArmSntp: the timer keeps what it was doing.
ArmSntpNot == UNCHANGED sntp

ArmSntp == sntp' = "second"

\* EVENT_STAMODE_GOT_IP: clock_update_start_sntp sets the client up anew and
\* arms sntp_timer for a second.
GotIp ==
  /\ ~online /\ (WifiMayDrop \/ ~joined)
  /\ online' = TRUE /\ joined' = TRUE
  /\ MQTT_Init
  /\ ArmSntp
  /\ UNCHANGED synced

\* Faulty variant of RearmSntp: one check is all there is.
RearmSntpNot == sntp' = "off"

RearmSntp == sntp' = "hour"

\* user_check_sntp_stamp: until the time is known the timer is armed for
\* another second and nothing changes; then it connects the client, and again
\* every hour.
user_check_sntp_stamp ==
  /\ \/ sntp = "second"
     \/ sntp = "hour" /\ Resync
  /\ synced
  /\ MQTT_Connect
  /\ RearmSntp
  /\ UNCHANGED <<posted, online, joined, synced>>

\* The SNTP client of the SDK gets an answer.
SntpAnswer ==
  /\ online /\ sntp = "second" /\ ~synced
  /\ synced' = TRUE
  /\ UNCHANGED <<clientVars, sdkVars, online, joined, sntp>>

Reported(qs) == UNION {MQTT_Publish(q, "PUBLISH") : q \in qs}

\* light_sensor_tick: the sensor's value once in a while, the level and the
\* brightness when they change, or all three; before MQTT_InitClient there is
\* no buffer to build a message in, and MQTT_Publish refuses.
light_sensor_tick ==
  /\ LET one == Reported({queue})
         two == Reported(one)
     IN \/ ~inited /\ UNCHANGED <<queue, posted>>
        \/ /\ inited /\ queue' \in one
           /\ posted' = (posted \/ queue' # <<>>)
        \/ /\ inited /\ queue' \in two \cup Reported(two)
           /\ posted' = TRUE
  /\ UNCHANGED <<inited, pCon, ip, connState, tickVars, pending, timer, sdkVars>>

\* Undefined behaviour ends in an exception or a watchdog reset.
Reset ==
  /\ fault # "none"
  /\ inited' = FALSE /\ pCon' = NULL /\ ip' = FALSE
  /\ connState' = "WIFI_INIT"
  /\ keepAliveTick' = 0 /\ reconnectTick' = 0 /\ sendTimeout' = 0
  /\ pending' = "none" /\ queue' = <<>>
  /\ timer' = FALSE /\ posted' = FALSE
  /\ conn' = [c \in Conns |-> FreeConn]
  /\ dns' = [c \in Conns |-> 0]
  /\ fault' = "none"
  /\ online' = FALSE /\ joined' = FALSE
  /\ synced' = FALSE
  /\ sntp' = "off"

Segments == UNION {[1..n -> Received] : n \in 1..MaxSegment}

\* Timeouts and errors reach the client whether or not the station is online.
Failures ==
  \E c \in Conns :
    \/ DnsFails(c) \/ DnsFaults(c)
    \/ mqtt_tcpclient_recon_cb(c) \/ mqtt_tcpclient_discon_cb(c)

Answers ==
  /\ online
  /\ \E c \in Conns :
       \/ mqtt_dns_found(c)
       \/ mqtt_tcpclient_connect_cb(c)
       \/ mqtt_tcpclient_sent_cb(c)
       \/ \E segment \in Segments, long \in BOOLEAN :
            mqtt_tcpclient_recv(c, segment, long)

ClientStep ==
  /\ \/ Failures \/ Answers
     \/ MQTT_Task \/ mqtt_timer \/ light_sensor_tick
  /\ UNCHANGED updateVars

Next ==
  \/ /\ fault = "none"
     /\ \/ ClientStep
        \/ WifiDisconnected \/ GotIp
        \/ SntpAnswer \/ user_check_sntp_stamp
  \/ Reset

Spec == Init /\ [][Next]_vars

\* The station rejoins only when the client holds no connection: the close that
\* MQTT_Disconnect asks for has been reported meanwhile, and MQTT_Task has given
\* the struct espconn back (mqtt.c:647).  A station that never drops out does so.
TidyNext == Next /\ (~online /\ online' => pCon = NULL)

TidySpec == Init /\ [][TidyNext]_vars

-----------------------------------------------------------------------------
Live(A) == fault = "none" /\ A

SendEnds(c) ==
  /\ conn[c].sends > 0
  /\ \/ online /\ mqtt_tcpclient_sent_cb(c)
     \/ mqtt_tcpclient_recon_cb(c) \/ mqtt_tcpclient_discon_cb(c)

(* Timers fire and the task queue is served; a DNS request, a connection   *)
(* attempt, a close and a send come to an end one way or the other; the    *)
(* time server answers in the end; a fault ends in a reset.  An event is   *)
(* served within milliseconds and TCP reports a send, or gives it up, in   *)
(* seconds, while mqtt_timer leaves MQTT_DATA only after two minutes of    *)
(* silence: these two are not late every time, hence the strong fairness.  *)
(* Nothing is assumed of the broker, the access point or the sensor.       *)
Fairness ==
  /\ WF_vars(Live(MQTT_Task /\ UNCHANGED updateVars))
  /\ SF_vars(Live(TaskSends /\ UNCHANGED updateVars))
  /\ WF_vars(Reset)
  /\ WF_vars(Live(mqtt_timer /\ UNCHANGED updateVars))
  /\ WF_vars(Live(user_check_sntp_stamp))
  /\ WF_vars(Live(SntpAnswer))
  /\ \A c \in Conns :
       /\ WF_vars(Live( /\ \/ DnsFails(c) \/ DnsFaults(c)
                           \/ online /\ mqtt_dns_found(c)
                        /\ UNCHANGED updateVars ))
       /\ WF_vars(Live( /\ conn[c].tcp \in {"connecting", "closing"}
                        /\ \/ online /\ mqtt_tcpclient_connect_cb(c)
                           \/ mqtt_tcpclient_recon_cb(c)
                           \/ mqtt_tcpclient_discon_cb(c)
                        /\ UNCHANGED updateVars ))
       /\ SF_vars(Live( /\ connState = "MQTT_DATA" /\ SendEnds(c)
                        /\ UNCHANGED updateVars ))

FairSpec == Spec /\ Fairness
TidyFairSpec == TidySpec /\ Fairness

-----------------------------------------------------------------------------
ClientOK ==
  /\ inited \in BOOLEAN
  /\ pCon \in Conns \cup {NULL}
  /\ ip \in BOOLEAN
  /\ connState \in ConnState
  /\ keepAliveTick \in 0..Keepalive+1
  /\ reconnectTick \in 0..ReconnectTimeout
  /\ sendTimeout \in 0..SendTimeout
  /\ timer \in BOOLEAN /\ posted \in BOOLEAN

SdkOK ==
  /\ conn \in [Conns -> Connection]
  /\ dns \in [Conns -> 0..DnsSlots]
  /\ fault \in {"none", "heap", "dangling", "timer list"}

UpdateOK ==
  /\ online \in BOOLEAN /\ joined \in BOOLEAN /\ synced \in BOOLEAN
  /\ sntp \in {"off", "second", "hour"}

QueueOK ==
  /\ queue \in Seq(Queued) /\ Len(queue) <= QueueCap
  /\ pending \in {"none", "CONNECT", "PINGREQ"} \cup Queued

\* Every variable keeps its type: the ticks mqtt_timer counts (mqtt.c:389)
\* never pass their limits by more than the step that acts on them, and
\* msgQueue never holds more than its room.
TypeOK == ClientOK /\ SdkOK /\ UpdateOK /\ QueueOK

InSession == connState \in {"MQTT_DATA", "MQTT_KEEPALIVE_SEND"}

\* The client takes itself to be in a session (mqtt.c:261, where it leaves
\* MQTT_CONNECT_SENDING) only when the broker has accepted the CONNECT of the
\* very connection the client holds, however late the callbacks of an earlier
\* connection are, if the station rejoins tidily.
DataAfterConnack ==
  InSession => pCon # NULL /\ conn[pCon].hello = "acked"

\* If the station rejoins tidily the client has never more than one struct
\* espconn, its own: MQTT_Connect deletes the last one (mqtt.c:793).
OneConnection ==
  \A c \in Conns : conn[c].tcp # "free" => c = pCon

\* MQTT_Task's queue has one slot (mqtt.c:44) and posts coalesce; still every
\* state the task alone can leave is one it has been told of, and a
\* disconnect it owes is either posted or on its way.
NoLostWakeup ==
  /\ connState \in {"TCP_RECONNECT", "MQTT_KEEPALIVE_SEND"} => posted
  /\ connState \in {"TCP_DISCONNECTING", "TCP_RECONNECT_DISCONNECTING"}
       /\ pCon # NULL
     => posted \/ conn[pCon].tcp \notin {"connecting", "open"}

\* While CONNACK is awaited nothing else has been noted as the last message
\* sent, so mqtt_tcpclient_recv (mqtt.c:255) never mistakes a CONNACK for an
\* unexpected one.
ConnackExpected ==
  connState = "MQTT_CONNECT_SENDING" => pending = "CONNECT"

\* mqtt_timer (mqtt.c:389) runs only for a client that holds a struct espconn,
\* and never once a disconnect has been asked for (mqtt.c:840); so a reconnect
\* always has one to give back before it takes the next.
TimerOwned ==
  /\ timer => pCon # NULL
  /\ connState \in {"WIFI_INIT", "TCP_DISCONNECTING", "TCP_DISCONNECTED"}
       => ~timer
  /\ connState = "TCP_RECONNECT" => timer

\* With the station online for good and no hourly check, nothing the broker,
\* the resolver or TCP does leads to undefined behaviour: no callback of the
\* resolver (mqtt.c:58) meets a struct espconn that has been freed.
NoFault == fault = "none"

\* "Clean up the old connection forcefully" (mqtt.c:790-792): once MQTT_Connect
\* has begun an attempt, the struct espconn of no earlier one is left.
OldConnectionReleased ==
  connState = "TCP_CONNECTING"
    => \A c \in Conns \ {pCon} : conn[c].tcp = "free"

\* A lost connection or a failed lookup (TCP_RECONNECT_REQ, mqtt.c:493 and
\* 71) is followed by a new attempt.
ReconnectHappens ==
  (connState = "TCP_RECONNECT_REQ") ~> (connState = "TCP_CONNECTING")


SubscribeWaits == \E k \in DOMAIN queue : queue[k] = "SUBSCRIBE"

\* In a session the subscription of mqtt_connected_cb (clock_update.c:145)
\* does not stay in msgQueue behind messages the task has not been told of or
\* waits on sendTimeout for (mqtt.c:656).
SubscribeLeaves ==
  (InSession /\ SubscribeWaits) ~> (~InSession \/ ~SubscribeWaits)

\* MQTT_CONNECT_SENDING has no timeout of its own (mqtt.c:389): a broker that
\* never answers the CONNECT is left only because the SNTP check calls
\* MQTT_Connect every hour (clock_update.c:75).
SilenceEnds ==
  (connState = "MQTT_CONNECT_SENDING") ~> (connState # "MQTT_CONNECT_SENDING")

\* MQTT_Disconnect stops mqtt_timer (mqtt.c:840), and a connect callback that
\* comes late may still open a session, or a lost connection ask for a
\* reconnect (mqtt.c:443, 491), which nothing would count down.  As long as
\* the station is online this never lasts: the SNTP poll that GOT_IP starts
\* (clock_update.c:124) sets the timer going again.
TimerReturns ==
  (online /\ ~timer) ~> (timer \/ ~online)

\* MQTT_Connect, "Begin connect to MQTT broker" (mqtt.c:782): an attempt that
\* has taken a new struct espconn goes on to use it.
ConnectBegins ==
  (connState = "TCP_CONNECTING" /\ pCon # NULL /\ conn[pCon].tcp = "idle")
    ~> (connState # "TCP_CONNECTING" \/ conn[pCon].tcp # "idle")
=============================================================================
