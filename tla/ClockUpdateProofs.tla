-------------------------- MODULE ClockUpdateProofs --------------------------
(***************************************************************************)
(* For any number of connections, any timeouts and any queue size, the     *)
(* MQTT client never loses a wake-up of its task and never mistakes a      *)
(* CONNACK for an unexpected one.  As long as the station does not leave   *)
(* its access point, the client moreover owns every struct espconn there   *)
(* is, and is in a session only with a broker that has accepted its        *)
(* CONNECT.  Every state is in type, msgQueue and its room included.       *)
(***************************************************************************)
EXTENDS ClockUpdate, WellFoundedInduction, TLAPS

(* Before MQTT_InitClient has run, a post is lost; so nothing that posts   *)
(* may be under way.                                                       *)
NothingBeforeInit ==
  ~inited => /\ pCon = NULL /\ ~timer /\ ~posted /\ sntp = "off"
             /\ connState \in {"WIFI_INIT", "TCP_DISCONNECTING"}
             /\ \A c \in Conns : conn[c].tcp = "free" /\ dns[c] = 0

(* mqtt_timer leaves MQTT_DATA with the tick that passes the keepalive.    *)
TicksInRange == connState = "MQTT_DATA" => keepAliveTick <= Keepalive

IInv ==
  /\ ClientOK /\ SdkOK /\ UpdateOK
  /\ NoLostWakeup
  /\ ConnackExpected
  /\ NothingBeforeInit
  /\ TimerOwned
  /\ TicksInRange

-----------------------------------------------------------------------------
(* The operators on the connections return connections.                    *)
LEMMA FreshTyped == FreeConn \in Connection /\ NewConn \in Connection
<1>1. FALSE \in BOOLEAN /\ 0 \in 0..2
  OBVIOUS
<1>2. FreeConn \in Connection
  BY <1>1 DEF FreeConn, Connection
<1> QED
  BY <1>2 DEF NewConn, Connection

LEMMA DisconnectTyped ==
  ASSUME NEW cs \in [Conns -> Connection], NEW c \in Conns \cup {NULL}
  PROVE  /\ espconn_disconnect(cs, c) \in [Conns -> Connection]
         /\ \A d \in Conns :
              /\ espconn_disconnect(cs, c)[d].tcp = "free" <=> cs[d].tcp = "free"
              /\ d = c => espconn_disconnect(cs, c)[d].tcp
                            \notin {"connecting", "open"}
<1>1. CASE c # NULL /\ cs[c].tcp \in {"connecting", "open"}
  BY <1>1 DEF espconn_disconnect, Connection
<1>2. CASE ~(c # NULL /\ cs[c].tcp \in {"connecting", "open"})
  BY <1>2, ClientAssumption DEF espconn_disconnect
<1> QED
  BY <1>1, <1>2

LEMMA ConnectTyped ==
  ASSUME conn \in [Conns -> Connection], NEW c \in Conns
  PROVE  espconn_connect(c) \in [Conns -> Connection]
  BY DEF espconn_connect, Connection

LEMMA SentTyped ==
  ASSUME NEW cs \in [Conns -> Connection], NEW c \in Conns \cup {NULL},
         TRUE \in SendResults(cs, c), NEW type
  PROVE  /\ c \in Conns
         /\ Sent(cs, c, type) \in [Conns -> Connection]
         /\ \A d \in Conns : /\ Sent(cs, c, type)[d].tcp = cs[d].tcp
                             /\ Sent(cs, c, type)[d].hello = cs[d].hello
<1>1. /\ c \in Conns
      /\ cs[c].tcp = "open" /\ cs[c].sends \in 0..2 /\ cs[c].sends # 2
  BY DEF SendResults, Connection
<1>2. cs[c].sends + 1 \in 0..2
  BY <1>1
<1>3. (cs[c].sub \/ type = "SUBSCRIBE") \in BOOLEAN
  OBVIOUS
<1>4. Sent(cs, c, type)[c] =
        [ tcp |-> cs[c].tcp, cbs |-> cs[c].cbs, sends |-> cs[c].sends + 1,
          hello |-> cs[c].hello, sub |-> cs[c].sub \/ type = "SUBSCRIBE" ]
  BY <1>1 DEF Sent, Connection
<1>5. Sent(cs, c, type)[c] \in Connection
  BY <1>1, <1>2, <1>3, <1>4 DEF Connection
<1>6. \A d \in Conns \ {c} : Sent(cs, c, type)[d] = cs[d]
  BY <1>1 DEF Sent
<1>7. Sent(cs, c, type) = [d \in Conns |-> Sent(cs, c, type)[d]]
  BY <1>1 DEF Sent
<1> QED
  BY <1>1, <1>4, <1>5, <1>6, <1>7

LEMMA DeadTyped ==
  ASSUME conn \in [Conns -> Connection], NEW c \in Conns
  PROVE  /\ Dead(c) \in [Conns -> Connection]
         /\ \A d \in Conns : Dead(c)[d].tcp \in {conn[d].tcp, "dead"}
<1>1. ASSUME NEW r \in Connection
      PROVE  /\ [[r EXCEPT !.tcp = "dead"] EXCEPT !.sends = 0] \in Connection
             /\ [[r EXCEPT !.tcp = "dead"] EXCEPT !.sends = 0].tcp = "dead"
  <2>1. PICK d : d = [r EXCEPT !.tcp = "dead"]
    BY Zenon
  <2>2. d \in Connection /\ d.tcp = "dead"
    BY <2>1 DEF Connection
  <2>3. [d EXCEPT !.sends = 0] \in Connection /\ [d EXCEPT !.sends = 0].tcp = d.tcp
    BY <2>2 DEF Connection
  <2>4. QED
    BY <2>1, <2>2, <2>3, Zenon
<1>2. Dead(c)[c] \in Connection /\ Dead(c)[c].tcp = "dead"
  <2>1. Dead(c)[c] = [[conn[c] EXCEPT !.tcp = "dead"] EXCEPT !.sends = 0]
    BY DEF Dead
  <2>2. conn[c] \in Connection
    OBVIOUS
  <2>3. QED
    BY <1>1, <2>1, <2>2
<1>3. \A d \in Conns \ {c} : Dead(c)[d] = conn[d]
  BY DEF Dead
<1>4. Dead(c) = [d \in Conns |-> Dead(c)[d]]
  BY DEF Dead
<1> QED
  BY <1>1, <1>2, <1>3, <1>4

LEMMA ReleasedTyped ==
  ASSUME conn \in [Conns -> Connection]
  PROVE  /\ Released \in [Conns -> Connection]
         /\ \A c \in Conns : conn[c].tcp = "free" => Released[c].tcp = "free"
         /\ pCon \in Conns => Released[pCon].tcp = "free"
  BY FreshTyped DEF Released, FreeConn

(* MQTT_Connect either takes a new struct espconn and starts an attempt,   *)
(* or changes nothing; the latter never happens to a client that has one.  *)
LEMMA ConnectSteps ==
  ASSUME ClientOK, SdkOK, MQTT_Connect
  PROVE  \/ /\ fault' = "heap" /\ pCon = NULL
            /\ UNCHANGED <<inited, pCon, ip, connState, tickVars, pending, queue,
                           timer, conn, dns>>
         \/ /\ pCon' \in Conns
            /\ conn' \in [Conns -> Connection]
            /\ dns' \in [Conns -> 0..DnsSlots]
            /\ ip' \in BOOLEAN
            /\ keepAliveTick' = 0 /\ reconnectTick' = 0 /\ timer' = TRUE
            /\ connState' = "TCP_CONNECTING"
            /\ UNCHANGED <<inited, sendTimeout, pending, queue, fault>>
<1> DEFINE spare == {c \in Conns : Released[c].tcp = "free"}
<1>1. conn \in [Conns -> Connection] /\ dns \in [Conns -> 0..DnsSlots]
  BY DEF SdkOK
<1>2. ip \in BOOLEAN /\ pCon \in Conns \cup {NULL}
  BY DEF ClientOK
<1>3. /\ Released \in [Conns -> Connection]
      /\ pCon \in Conns => pCon \in spare
  BY <1>1, ReleasedTyped
<1>4. CASE spare = {}
  BY <1>2, <1>3, <1>4 DEF MQTT_Connect
<1>5. CASE spare # {}
  <2>1. PICK c \in spare :
          /\ pCon' = c
          /\ conn' = [Released EXCEPT ![c] = NewConn]
          /\ \/ /\ dns[c] < DnsSlots
                /\ dns' = [dns EXCEPT ![c] = @ + 1]
                /\ UNCHANGED ip
             \/ dns[c] = DnsSlots /\ UNCHANGED <<dns, ip>>
             \/ AddressCached /\ ip' = TRUE /\ UNCHANGED dns
    BY <1>5 DEF MQTT_Connect
  <2>2. conn' \in [Conns -> Connection]
    BY <2>1, <1>3, FreshTyped
  <2>3. dns[c] < DnsSlots => dns[c] + 1 \in 0..DnsSlots
    BY <1>1, ClientAssumption
  <2>4. dns' \in [Conns -> 0..DnsSlots] /\ ip' \in BOOLEAN
    BY <1>1, <1>2, <2>1, <2>3
  <2>5. /\ keepAliveTick' = 0 /\ reconnectTick' = 0 /\ timer' = TRUE
        /\ connState' = "TCP_CONNECTING"
        /\ UNCHANGED <<inited, sendTimeout, pending, queue, fault>>
    BY <1>5 DEF MQTT_Connect
  <2> QED
    BY <2>1, <2>2, <2>4, <2>5
<1> QED
  BY <1>4, <1>5

-----------------------------------------------------------------------------
LEMMA InitIInv == Init => IInv
<1> SUFFICES ASSUME Init PROVE IInv
  OBVIOUS
<1> USE DEF Init, ClientInit
<1>1. ClientOK /\ UpdateOK
  <2>1. /\ 0 \in 0..Keepalive+1 /\ 0 \in 0..ReconnectTimeout
        /\ 0 \in 0..SendTimeout
    BY ClientAssumption
  <2> QED
    BY <2>1, Zenon DEF ClientOK, UpdateOK, ConnState
<1>2. 0 \in 0..DnsSlots
  BY ClientAssumption
<1>3. SdkOK
  BY <1>2, FreshTyped DEF SdkOK
<1>4. NothingBeforeInit
  BY DEF NothingBeforeInit, FreeConn
<1>5. NoLostWakeup /\ ConnackExpected /\ TimerOwned /\ TicksInRange
  BY DEF NoLostWakeup, ConnackExpected, TimerOwned, TicksInRange
<1> QED
  BY <1>1, <1>3, <1>4, <1>5 DEF IInv

LEMMA UpdateStays ==
  ASSUME UpdateOK, UNCHANGED updateVars
  PROVE  UpdateOK' /\ UNCHANGED sntp
  BY DEF UpdateOK, updateVars

(* Whatever posts, or may be called back, does so after MQTT_InitClient.   *)
LEMMA AwakeNow ==
  ASSUME NothingBeforeInit, UpdateOK, ClientOK,
         \/ posted \/ timer \/ pCon # NULL \/ sntp # "off"
         \/ \E c \in Conns : conn[c].tcp # "free" \/ dns[c] # 0
  PROVE  inited
  BY DEF NothingBeforeInit

(* The callbacks of the resolver.                                          *)
LEMMA DnsSteps ==
  ASSUME IInv, NEW c \in Conns, UNCHANGED updateVars,
         DnsFails(c) \/ DnsFaults(c) \/ mqtt_dns_found(c)
  PROVE  IInv'
<1> USE DEF IInv
<1>1. DnsCallback(c)
  BY DEF DnsFails, DnsFaults, mqtt_dns_found
<1>2. dns \in [Conns -> 0..DnsSlots] /\ conn \in [Conns -> Connection]
  BY DEF SdkOK
<1>3. dns' \in [Conns -> 0..DnsSlots] /\ dns[c] # 0
  BY <1>1, <1>2, ClientAssumption DEF DnsCallback
<1>4. inited
  BY <1>3, AwakeNow
<1>5. UpdateOK' /\ UNCHANGED sntp
  BY UpdateStays
<1>6. CASE DnsFails(c)
  <2>1. ClientOK' /\ SdkOK'
    BY <1>2, <1>3, <1>6 DEF DnsFails, ClientOK, SdkOK, ConnState, tickVars
  <2> QED
    BY <1>4, <1>5, <1>6, <2>1
    DEF DnsFails, tickVars, NoLostWakeup, ConnackExpected, NothingBeforeInit,
        TimerOwned, TicksInRange
<1>7. CASE DnsFaults(c)
  <2>1. ClientOK' /\ SdkOK'
    BY <1>2, <1>3, <1>7 DEF DnsFaults, ClientOK, SdkOK, clientVars
  <2> QED
    BY <1>4, <1>5, <1>7, <2>1
    DEF DnsFaults, clientVars, NoLostWakeup, ConnackExpected,
        NothingBeforeInit, TimerOwned, TicksInRange
<1>8. CASE mqtt_dns_found(c)
  <2>1. posted' /\ inited' /\ inited' = inited /\ fault' = fault
    BY <1>4, <1>8 DEF mqtt_dns_found, system_os_post
  <2>2. CASE /\ pCon # NULL
             /\ conn' = espconn_connect(pCon)
             /\ connState' = "TCP_CONNECTING"
    <3>1. conn' \in [Conns -> Connection]
      BY <1>2, <2>2, ConnectTyped DEF ClientOK
    <3>2. ClientOK' /\ SdkOK'
      BY <1>3, <1>8, <2>1, <2>2, <3>1
      DEF mqtt_dns_found, ClientOK, SdkOK, ConnState, tickVars
    <3> QED
      BY <1>5, <1>8, <2>1, <2>2, <3>2
      DEF mqtt_dns_found, tickVars, NoLostWakeup, ConnackExpected,
          NothingBeforeInit, TimerOwned, TicksInRange
  <2>3. CASE UNCHANGED <<conn, connState>>
    <3>1. ClientOK' /\ SdkOK'
      BY <1>2, <1>3, <1>8, <2>1, <2>3
      DEF mqtt_dns_found, ClientOK, SdkOK, tickVars
    <3> QED
      BY <1>5, <1>8, <2>1, <2>3, <3>1
      DEF mqtt_dns_found, tickVars, NoLostWakeup, ConnackExpected,
          NothingBeforeInit, TimerOwned, TicksInRange
  <2> QED
    BY <1>8, <2>2, <2>3 DEF mqtt_dns_found
<1> QED
  BY <1>6, <1>7, <1>8

(* The callbacks of espconn other than mqtt_tcpclient_recv.                *)
LEMMA TcpSteps ==
  ASSUME IInv, NEW c \in Conns, UNCHANGED updateVars,
         \/ mqtt_tcpclient_connect_cb(c) \/ mqtt_tcpclient_recon_cb(c)
         \/ mqtt_tcpclient_discon_cb(c) \/ mqtt_tcpclient_sent_cb(c)
  PROVE  IInv'
<1> USE DEF IInv
<1>1. conn \in [Conns -> Connection]
  BY DEF SdkOK
<1>2. conn[c].tcp # "free"
  BY DEF mqtt_tcpclient_connect_cb, mqtt_tcpclient_recon_cb,
         mqtt_tcpclient_discon_cb, mqtt_tcpclient_sent_cb
<1>3. inited
  BY <1>2, AwakeNow
<1>4. UpdateOK' /\ UNCHANGED sntp
  BY UpdateStays
<1>5. CASE mqtt_tcpclient_connect_cb(c)
  <2> DEFINE up == [conn EXCEPT ![c].tcp = "open"]
             cs == IF pCon = NULL THEN up ELSE [up EXCEPT ![pCon].cbs = TRUE]
  <2>1. up \in [Conns -> Connection]
    BY <1>1 DEF Connection
  <2>2. pCon \in Conns => [up[pCon] EXCEPT !.cbs = TRUE] \in Connection
    <3> HIDE DEF up
    <3>1. ASSUME NEW r \in Connection PROVE [r EXCEPT !.cbs = TRUE] \in Connection
      BY DEF Connection
    <3>2. QED
      BY <2>1, <3>1
  <2>3. cs \in [Conns -> Connection]
    BY <2>1, <2>2 DEF ClientOK
  <2>4. conn' \in [Conns -> Connection]
    <3>1. PICK accepted \in SendResults(cs, pCon) :
            conn' = IF accepted THEN SentConnect(cs, pCon) ELSE cs
      BY <1>5 DEF mqtt_tcpclient_connect_cb
    <3>2. accepted \in BOOLEAN
      BY <3>1 DEF SendResults
    <3>3. pCon \in Conns \cup {NULL}
      BY DEF ClientOK
    <3> HIDE DEF cs
    <3>4. CASE accepted = TRUE
      <4>1. pCon \in Conns /\ Sent(cs, pCon, "CONNECT") \in [Conns -> Connection]
        BY <2>3, <3>1, <3>3, <3>4, SentTyped
      <4>2. [Sent(cs, pCon, "CONNECT")[pCon] EXCEPT !.hello = "sent"] \in Connection
        BY <4>1 DEF Connection
      <4> QED
        BY <3>1, <3>4, <4>1, <4>2 DEF SentConnect
    <3>5. CASE accepted = FALSE
      BY <2>3, <3>1, <3>5
    <3> QED
      BY <3>2, <3>4, <3>5
  <2>5. /\ pending' = "CONNECT" /\ connState' = "MQTT_CONNECT_SENDING"
        /\ sendTimeout' = SendTimeout /\ posted' = inited
        /\ UNCHANGED <<inited, pCon, ip, keepAliveTick, reconnectTick, timer,
                       dns, fault>>
    BY <1>5 DEF mqtt_tcpclient_connect_cb, Handshake, system_os_post
  <2>6. SendTimeout \in 0..SendTimeout
    BY ClientAssumption
  <2>7. ClientOK' /\ SdkOK'
    BY <2>4, <2>5, <2>6 DEF ClientOK, SdkOK, ConnState
  <2> QED
    BY <1>3, <1>4, <2>5, <2>7
    DEF NoLostWakeup, ConnackExpected, NothingBeforeInit, TimerOwned,
        TicksInRange
<1>6. CASE mqtt_tcpclient_recon_cb(c)
  <2>1. /\ connState' = "TCP_RECONNECT_REQ" /\ posted' = inited
        /\ conn' = Dead(c)
        /\ UNCHANGED <<inited, pCon, ip, keepAliveTick, reconnectTick,
                       sendTimeout, pending, timer, dns, fault>>
    BY <1>6 DEF mqtt_tcpclient_recon_cb, system_os_post, tickVars
  <2>2. conn' \in [Conns -> Connection]
    BY <1>1, <2>1, DeadTyped
  <2>3. ClientOK' /\ SdkOK'
    BY <2>1, <2>2 DEF ClientOK, SdkOK, ConnState
  <2> QED
    BY <1>3, <1>4, <2>1, <2>3
    DEF NoLostWakeup, ConnackExpected, NothingBeforeInit, TimerOwned,
        TicksInRange
<1>7. CASE mqtt_tcpclient_discon_cb(c)
  <2>1. /\ conn' = Dead(c)
        /\ \/ connState' = AfterDisconnect /\ posted' = inited
           \/ UNCHANGED <<connState, posted>>
        /\ UNCHANGED <<inited, pCon, ip, keepAliveTick, reconnectTick,
                       sendTimeout, pending, timer, dns, fault>>
    BY <1>7 DEF mqtt_tcpclient_discon_cb, system_os_post, tickVars
  <2>2. /\ conn' \in [Conns -> Connection]
        /\ \A d \in Conns : conn'[d].tcp = conn[d].tcp \/ conn'[d].tcp = "dead"
    BY <1>1, <2>1, DeadTyped
  <2>3. ClientOK' /\ SdkOK'
    <3>1. connState' \in ConnState
      BY <2>1 DEF ClientOK, ConnState, AfterDisconnect
    <3>2. posted' \in BOOLEAN
      BY <2>1 DEF ClientOK
    <3>3. ClientOK'
      BY <2>1, <3>1, <3>2, Zenon DEF ClientOK
    <3>4. SdkOK'
      BY <2>1, <2>2, Zenon DEF SdkOK
    <3>5. QED
      BY <3>3, <3>4
  <2>4. NoLostWakeup'
    BY <1>3, <2>1, <2>2 DEF NoLostWakeup, ClientOK, AfterDisconnect
  <2> QED
    BY <1>3, <1>4, <2>1, <2>3, <2>4
    DEF ConnackExpected, NothingBeforeInit, TimerOwned, TicksInRange,
        AfterDisconnect
<1>8. CASE mqtt_tcpclient_sent_cb(c)
  <2>1. /\ conn[c].sends > 0
        /\ conn' = [conn EXCEPT ![c].sends = @ - 1]
        /\ sendTimeout' = 0 /\ posted' = inited /\ keepAliveTick' = 0
        /\ UNCHANGED <<inited, pCon, ip, connState, reconnectTick, pending,
                       timer, dns, fault>>
    BY <1>8 DEF mqtt_tcpclient_sent_cb, Resume, system_os_post
  <2>2. conn[c].sends - 1 \in 0..2
    BY <1>1, <2>1 DEF Connection
  <2>3. conn' \in [Conns -> Connection]
    BY <1>1, <2>1, <2>2 DEF Connection
  <2>4. 0 \in 0..SendTimeout /\ 0 \in 0..Keepalive+1 /\ 0 <= Keepalive
    BY ClientAssumption
  <2>5. ClientOK' /\ SdkOK'
    BY <2>1, <2>3, <2>4 DEF ClientOK, SdkOK
  <2> QED
    BY <1>3, <1>4, <2>1, <2>4, <2>5
    DEF NoLostWakeup, ConnackExpected, NothingBeforeInit, TimerOwned,
        TicksInRange
<1> QED
  BY <1>5, <1>6, <1>7, <1>8

LEMMA RecvSteps ==
  ASSUME IInv, NEW c \in Conns, UNCHANGED updateVars, NEW segment, NEW long,
         mqtt_tcpclient_recv(c, segment, long)
  PROVE  IInv'
<1> USE DEF IInv
<1> DEFINE told == IF segment = <<"CONNACK">> THEN Acked(c) ELSE conn
<1>1. conn \in [Conns -> Connection] /\ pCon \in Conns \cup {NULL}
  BY DEF SdkOK, ClientOK
<1>2. inited
  <2>1. conn[c].tcp # "free"
    BY DEF mqtt_tcpclient_recv, FromBroker
  <2> QED
    BY <2>1, AwakeNow
<1>3. UpdateOK' /\ UNCHANGED sntp
  BY UpdateStays
<1>4. told \in [Conns -> Connection]
  BY <1>1 DEF Acked, Connection
<1>5. /\ keepAliveTick' = 0 /\ posted' = inited
      /\ UNCHANGED <<inited, pCon, ip, reconnectTick, sendTimeout, pending,
                     timer, dns, fault>>
      /\ \/ connState = "MQTT_CONNECT_SENDING" /\ connState' = "MQTT_DATA"
         \/ UNCHANGED connState
      /\ conn' \in {told, espconn_disconnect(told, pCon)}
  BY DEF mqtt_tcpclient_recv, system_os_post
<1>6. conn' \in [Conns -> Connection]
  <2> HIDE DEF told
  <2> QED
    BY <1>1, <1>4, <1>5, DisconnectTyped
<1>7. 0 \in 0..Keepalive+1 /\ 0 <= Keepalive
  BY ClientAssumption
<1>8. ClientOK' /\ SdkOK'
  BY <1>5, <1>6, <1>7 DEF ClientOK, SdkOK, ConnState
<1> QED
  BY <1>2, <1>3, <1>5, <1>7, <1>8
  DEF NoLostWakeup, ConnackExpected, NothingBeforeInit, TimerOwned,
      TicksInRange

LEMMA TimerSteps ==
  ASSUME IInv, UNCHANGED updateVars, mqtt_timer
  PROVE  IInv'
<1> USE DEF IInv
<1>1. /\ timer /\ UNCHANGED <<inited, pCon, ip, pending, timer, conn, dns, fault>>
      /\ sendTimeout' = Decremented(sendTimeout)
  BY DEF mqtt_timer, sdkVars
<1>2. inited
  BY <1>1, AwakeNow
<1>3. UpdateOK' /\ UNCHANGED sntp
  BY UpdateStays
<1>4. SdkOK'
  BY <1>1 DEF SdkOK
<1>5. sendTimeout' \in 0..SendTimeout
  BY <1>1, ClientAssumption DEF ClientOK, Decremented
<1>6. CASE KeepaliveTicks
  <2>1. /\ connState = "MQTT_DATA" /\ keepAliveTick' = keepAliveTick + 1
        /\ \/ /\ keepAliveTick' > Keepalive
              /\ connState' = "MQTT_KEEPALIVE_SEND" /\ posted' = inited
           \/ ~(keepAliveTick' > Keepalive) /\ UNCHANGED <<connState, posted>>
        /\ UNCHANGED reconnectTick
    BY <1>6 DEF KeepaliveTicks, system_os_post
  <2>2. /\ keepAliveTick' \in 0..Keepalive+1
        /\ keepAliveTick' > Keepalive \/ keepAliveTick' <= Keepalive
    BY <2>1, ClientAssumption DEF ClientOK, TicksInRange
  <2>3. ClientOK'
    BY <1>1, <1>5, <2>1, <2>2 DEF ClientOK, ConnState
  <2> QED
    BY <1>1, <1>2, <1>3, <1>4, <2>1, <2>2, <2>3
    DEF NoLostWakeup, ConnackExpected, NothingBeforeInit, TimerOwned,
        TicksInRange
<1>7. CASE ReconnectTicks
  <2>1. /\ connState = "TCP_RECONNECT_REQ"
        /\ \/ /\ reconnectTick' = 0 /\ connState' = "TCP_RECONNECT"
              /\ posted' = inited
           \/ /\ ~(reconnectTick + 1 > ReconnectTimeout)
              /\ reconnectTick' = reconnectTick + 1
              /\ UNCHANGED <<connState, posted>>
        /\ UNCHANGED keepAliveTick
    BY <1>7 DEF ReconnectTicks, Waiting, Reconnects, system_os_post
  <2>2. reconnectTick' \in 0..ReconnectTimeout
    BY <2>1, ClientAssumption DEF ClientOK
  <2>3. ClientOK'
    BY <1>1, <1>5, <2>1, <2>2 DEF ClientOK, ConnState
  <2> QED
    BY <1>1, <1>2, <1>3, <1>4, <2>1, <2>3
    DEF NoLostWakeup, ConnackExpected, NothingBeforeInit, TimerOwned,
        TicksInRange
<1>8. CASE UNCHANGED <<connState, posted, keepAliveTick, reconnectTick>>
  <2>1. ClientOK'
    BY <1>1, <1>5, <1>8 DEF ClientOK
  <2> QED
    BY <1>1, <1>2, <1>3, <1>4, <1>8, <2>1
    DEF NoLostWakeup, ConnackExpected, NothingBeforeInit, TimerOwned,
        TicksInRange
<1> QED
  BY <1>6, <1>7, <1>8 DEF mqtt_timer

(* The runs of MQTT_Task: the only steps that take the event away.         *)
LEMMA TaskSteps ==
  ASSUME IInv, UNCHANGED updateVars, MQTT_Task
  PROVE  IInv'
<1> USE DEF IInv
<1>1. conn \in [Conns -> Connection] /\ pCon \in Conns \cup {NULL}
  BY DEF SdkOK, ClientOK
<1>2. posted
  BY DEF MQTT_Task, TaskReconnects, TaskDisconnects, TaskReleases, TaskPings,
         TaskSends, TaskIdles
<1>3. inited
  BY <1>2, AwakeNow
<1>4. UpdateOK' /\ UNCHANGED sntp
  BY UpdateStays
<1>5. SendTimeout \in 0..SendTimeout /\ 0 \in 0..Keepalive+1
      /\ 0 \in 0..ReconnectTimeout /\ 0 <= Keepalive
  BY ClientAssumption
<1>6. CASE TaskReconnects
  <2>1. pCon # NULL
    BY <1>6 DEF TaskReconnects, TimerOwned
  <2>2. /\ pCon' \in Conns /\ ip' \in BOOLEAN
        /\ conn' \in [Conns -> Connection] /\ dns' \in [Conns -> 0..DnsSlots]
        /\ keepAliveTick' = 0 /\ reconnectTick' = 0 /\ timer' = TRUE
        /\ connState' = "TCP_CONNECTING" /\ posted' = FALSE
        /\ UNCHANGED <<inited, sendTimeout, pending, fault>>
    BY <1>6, <2>1, ConnectSteps DEF TaskReconnects
  <2>3. ClientOK' /\ SdkOK'
    BY <1>5, <2>2 DEF ClientOK, SdkOK, ConnState
  <2>4. pCon' # NULL
    BY <2>2, ClientAssumption
  <2> QED
    BY <1>3, <1>4, <2>2, <2>3, <2>4
    DEF NoLostWakeup, ConnackExpected, NothingBeforeInit, TimerOwned,
        TicksInRange
<1>7. CASE TaskDisconnects
  <2>1. /\ connState \in {"TCP_DISCONNECTING", "TCP_RECONNECT_DISCONNECTING"}
        /\ conn' = espconn_disconnect(conn, pCon) /\ posted' = FALSE
        /\ UNCHANGED <<inited, pCon, ip, connState, keepAliveTick,
                       reconnectTick, sendTimeout, pending, timer, dns, fault>>
    BY <1>7 DEF TaskDisconnects, tickVars
  <2>2. /\ conn' \in [Conns -> Connection]
        /\ pCon # NULL => conn'[pCon].tcp \notin {"connecting", "open"}
    BY <1>1, <2>1, DisconnectTyped
  <2>3. ClientOK' /\ SdkOK'
    BY <2>1, <2>2 DEF ClientOK, SdkOK
  <2> QED
    BY <1>3, <1>4, <2>1, <2>2, <2>3
    DEF NoLostWakeup, ConnackExpected, NothingBeforeInit, TimerOwned,
        TicksInRange
<1>8. CASE TaskReleases
  <2>1. /\ connState = "TCP_DISCONNECTED" /\ pCon' = NULL
        /\ conn' = Released /\ posted' = FALSE
        /\ UNCHANGED <<inited, ip, connState, keepAliveTick, reconnectTick,
                       sendTimeout, pending, timer, dns, fault>>
    BY <1>8 DEF TaskReleases, tickVars
  <2>2. conn' \in [Conns -> Connection]
    BY <1>1, <2>1, ReleasedTyped
  <2>3. ClientOK' /\ SdkOK'
    BY <2>1, <2>2 DEF ClientOK, SdkOK
  <2> QED
    BY <1>3, <1>4, <2>1, <2>3
    DEF NoLostWakeup, ConnackExpected, NothingBeforeInit, TimerOwned,
        TicksInRange
<1>9. CASE TaskPings
  <2>1. /\ connState = "MQTT_KEEPALIVE_SEND" /\ sendTimeout' = SendTimeout
        /\ posted' = TRUE
        /\ UNCHANGED <<inited, pCon, ip, reconnectTick, timer, dns, fault>>
    BY <1>9 DEF TaskPings
  <2>2. \/ /\ TRUE \in SendResults(conn, pCon)
           /\ conn' = Sent(conn, pCon, "PINGREQ")
           /\ keepAliveTick' = 0 /\ connState' = "MQTT_DATA"
        \/ /\ connState' = "TCP_RECONNECT_DISCONNECTING"
           /\ UNCHANGED <<conn, keepAliveTick>>
    <3>1. PICK accepted \in SendResults(conn, pCon) :
            \/ /\ accepted
               /\ conn' = Sent(conn, pCon, "PINGREQ")
               /\ keepAliveTick' = 0 /\ connState' = "MQTT_DATA"
            \/ /\ connState' = "TCP_RECONNECT_DISCONNECTING"
               /\ UNCHANGED <<conn, keepAliveTick>>
      BY <1>9 DEF TaskPings
    <3>2. accepted \in BOOLEAN
      BY <3>1 DEF SendResults
    <3>3. CASE accepted = TRUE
      BY <3>1, <3>3
    <3>4. CASE accepted = FALSE
      BY <3>1, <3>4
    <3> QED
      BY <3>2, <3>3, <3>4
  <2>3. conn' \in [Conns -> Connection]
    <3>1. TRUE \in SendResults(conn, pCon)
            => Sent(conn, pCon, "PINGREQ") \in [Conns -> Connection]
      BY <1>1, SentTyped
    <3> QED
      BY <1>1, <2>2, <3>1
  <2>4. ClientOK' /\ SdkOK'
    BY <1>5, <2>1, <2>2, <2>3 DEF ClientOK, SdkOK, ConnState
  <2> QED
    BY <1>3, <1>4, <1>5, <2>1, <2>2, <2>4
    DEF NoLostWakeup, ConnackExpected, NothingBeforeInit, TimerOwned,
        TicksInRange
<1>10. CASE TaskSends
  <2>1. /\ connState = "MQTT_DATA" /\ sendTimeout' = SendTimeout
        /\ posted' = FALSE
        /\ UNCHANGED <<inited, pCon, ip, connState, keepAliveTick,
                       reconnectTick, timer, dns, fault>>
    BY <1>10 DEF TaskSends
  <2>2. conn' \in [Conns -> Connection]
    <3>1. PICK accepted \in SendResults(conn, pCon) :
            conn' = IF accepted THEN Sent(conn, pCon, Head(queue)) ELSE conn
      BY <1>10 DEF TaskSends
    <3>2. accepted \in BOOLEAN
      BY <3>1 DEF SendResults
    <3>3. CASE accepted = TRUE
      BY <1>1, <3>1, <3>3, SentTyped
    <3>4. CASE accepted = FALSE
      BY <1>1, <3>1, <3>4
    <3> QED
      BY <3>2, <3>3, <3>4
  <2>3. ClientOK' /\ SdkOK'
    BY <1>5, <2>1, <2>2 DEF ClientOK, SdkOK
  <2> QED
    BY <1>3, <1>4, <2>1, <2>3
    DEF NoLostWakeup, ConnackExpected, NothingBeforeInit, TimerOwned,
        TicksInRange
<1>11. CASE TaskIdles
  <2>1. /\ connState \in { "WIFI_INIT", "TCP_RECONNECT_REQ", "TCP_CONNECTING",
                            "MQTT_CONNECT_SENDING", "MQTT_DATA" }
        /\ posted' = FALSE
        /\ UNCHANGED <<inited, pCon, ip, connState, keepAliveTick,
                       reconnectTick, sendTimeout, pending, timer, conn, dns,
                       fault>>
    BY <1>11 DEF TaskIdles, tickVars, sdkVars
  <2>2. ClientOK' /\ SdkOK'
    BY <2>1 DEF ClientOK, SdkOK
  <2> QED
    BY <1>3, <1>4, <2>1, <2>2
    DEF NoLostWakeup, ConnackExpected, NothingBeforeInit, TimerOwned,
        TicksInRange
<1> QED
  BY <1>6, <1>7, <1>8, <1>9, <1>10, <1>11 DEF MQTT_Task

LEMMA SensorSteps ==
  ASSUME IInv, UNCHANGED updateVars, light_sensor_tick
  PROVE  IInv'
<1> USE DEF IInv
<1>1. UpdateOK' /\ UNCHANGED sntp
  BY UpdateStays
<1>2. UNCHANGED <<inited, pCon, ip, connState, keepAliveTick, reconnectTick,
                  sendTimeout, pending, timer, conn, dns, fault>>
  BY DEF light_sensor_tick, tickVars, sdkVars
<1>3. posted \in BOOLEAN /\ inited \in BOOLEAN
  BY DEF ClientOK
<1>4. /\ posted' \in BOOLEAN
      /\ posted => posted'
      /\ posted' => posted \/ inited
  <2>1. \/ ~inited /\ posted' = posted
        \/ inited /\ posted' = (posted \/ queue' # <<>>)
        \/ inited /\ posted' = TRUE
    BY Zenon DEF light_sensor_tick
  <2>2. CASE ~inited /\ posted' = posted
    BY <1>3, <2>2
  <2>3. CASE inited /\ posted' = (posted \/ queue' # <<>>)
    BY <1>3, <2>3, Zenon
  <2>4. CASE inited /\ posted' = TRUE
    BY <2>4
  <2> QED
    BY <2>1, <2>2, <2>3, <2>4
<1>5. ClientOK' /\ SdkOK'
  BY <1>2, <1>4 DEF ClientOK, SdkOK
<1> QED
  BY <1>1, <1>2, <1>3, <1>4, <1>5
  DEF NoLostWakeup, ConnackExpected, NothingBeforeInit, TimerOwned,
      TicksInRange

(* The events of Wi-Fi and of sntp_timer.                                  *)
LEMMA WifiSteps ==
  ASSUME IInv, WifiDisconnected \/ GotIp
  PROVE  IInv'
<1> USE DEF IInv
<1>1. CASE WifiDisconnected
  <2>1. /\ connState' = "TCP_DISCONNECTING" /\ posted' = inited
        /\ timer' = FALSE /\ online' = FALSE
        /\ UNCHANGED <<inited, pCon, ip, keepAliveTick, reconnectTick,
                       sendTimeout, pending, conn, dns, fault, joined, synced,
                       sntp>>
    BY <1>1 DEF WifiDisconnected, MQTT_Disconnect, system_os_post, tickVars,
                sdkVars
  <2>2. pCon # NULL => inited
    BY AwakeNow
  <2>3. ClientOK' /\ SdkOK' /\ UpdateOK'
    BY <2>1 DEF ClientOK, SdkOK, UpdateOK, ConnState
  <2> QED
    BY <2>1, <2>2, <2>3
    DEF NoLostWakeup, ConnackExpected, NothingBeforeInit, TimerOwned,
        TicksInRange
<1>2. CASE GotIp
  <2>1. online' = TRUE /\ joined' = TRUE /\ sntp' = "second" /\ synced' = synced
    BY <1>2 DEF GotIp, ArmSntp
  <2>2. UpdateOK'
    BY <2>1 DEF UpdateOK
  <2>3. CASE timer /\ fault' = "timer list" /\ UNCHANGED <<clientVars, conn, dns>>
    <3>1. inited
      BY <2>3, AwakeNow
    <3>2. UNCHANGED <<inited, pCon, ip, connState, keepAliveTick, reconnectTick,
                      sendTimeout, pending, timer, posted>>
      BY <2>3 DEF clientVars
    <3>3. ClientOK' /\ SdkOK'
      BY <2>3, <3>2 DEF ClientOK, SdkOK
    <3> QED
      BY <2>2, <2>3, <3>1, <3>2, <3>3
      DEF NoLostWakeup, ConnackExpected, NothingBeforeInit, TimerOwned,
          TicksInRange
  <2>4. CASE /\ inited' = TRUE /\ pCon' = NULL /\ ip' = FALSE
             /\ connState' = "WIFI_INIT"
             /\ keepAliveTick' = 0 /\ reconnectTick' = 0 /\ sendTimeout' = 0
             /\ timer' = FALSE /\ posted' = TRUE
             /\ UNCHANGED sdkVars
    <3>1. /\ 0 \in 0..Keepalive+1 /\ 0 \in 0..ReconnectTimeout
          /\ 0 \in 0..SendTimeout
      BY ClientAssumption
    <3>2. ClientOK' /\ SdkOK'
      BY <2>4, <3>1 DEF ClientOK, SdkOK, ConnState, sdkVars
    <3> QED
      BY <2>2, <2>4, <3>2
      DEF NoLostWakeup, ConnackExpected, NothingBeforeInit, TimerOwned,
          TicksInRange
  <2> QED
    BY <1>2, <2>3, <2>4 DEF GotIp, MQTT_Init
<1> QED
  BY <1>1, <1>2

LEMMA SntpSteps ==
  ASSUME IInv, SntpAnswer \/ user_check_sntp_stamp
  PROVE  IInv'
<1> USE DEF IInv
<1>1. CASE SntpAnswer
  <2>1. /\ synced' = TRUE /\ UNCHANGED <<online, joined, sntp>>
        /\ UNCHANGED <<inited, pCon, ip, connState, keepAliveTick, reconnectTick,
                       sendTimeout, pending, timer, posted, conn, dns, fault>>
    BY <1>1 DEF SntpAnswer, clientVars, sdkVars
  <2>2. ClientOK' /\ SdkOK' /\ UpdateOK'
    <3>1. ClientOK'
      BY <2>1, Zenon DEF ClientOK
    <3>2. SdkOK'
      BY <2>1, Zenon DEF SdkOK
    <3>3. UpdateOK'
      BY <2>1 DEF UpdateOK
    <3>4. QED
      BY <3>1, <3>2, <3>3
  <2> QED
    BY <2>1, <2>2
    DEF NoLostWakeup, ConnackExpected, NothingBeforeInit, TimerOwned,
        TicksInRange
<1>2. CASE user_check_sntp_stamp
  <2>1. /\ MQTT_Connect /\ sntp # "off" /\ sntp' = "hour"
        /\ UNCHANGED <<posted, online, joined, synced>>
    BY <1>2 DEF user_check_sntp_stamp, RearmSntp
  <2>2. inited
    BY <2>1, AwakeNow
  <2>3. UpdateOK'
    BY <2>1 DEF UpdateOK
  <2>4. CASE /\ fault' = "heap"
             /\ UNCHANGED <<inited, pCon, ip, connState, tickVars, pending, queue,
                            timer, conn, dns>>
    <3>1. ClientOK' /\ SdkOK'
      BY <2>1, <2>4 DEF ClientOK, SdkOK, tickVars
    <3> QED
      BY <2>1, <2>2, <2>3, <2>4, <3>1
      DEF NoLostWakeup, ConnackExpected, NothingBeforeInit, TimerOwned,
          TicksInRange, tickVars
  <2>5. CASE /\ pCon' \in Conns
             /\ conn' \in [Conns -> Connection]
             /\ dns' \in [Conns -> 0..DnsSlots]
             /\ ip' \in BOOLEAN
             /\ keepAliveTick' = 0 /\ reconnectTick' = 0 /\ timer' = TRUE
             /\ connState' = "TCP_CONNECTING"
             /\ UNCHANGED <<inited, sendTimeout, pending, queue, fault>>
    <3>1. 0 \in 0..Keepalive+1 /\ 0 \in 0..ReconnectTimeout /\ pCon' # NULL
      BY <2>5, ClientAssumption
    <3>2. ClientOK' /\ SdkOK'
      BY <2>1, <2>5, <3>1 DEF ClientOK, SdkOK, ConnState
    <3> QED
      BY <2>1, <2>2, <2>3, <2>5, <3>1, <3>2
      DEF NoLostWakeup, ConnackExpected, NothingBeforeInit, TimerOwned,
          TicksInRange
  <2> QED
    BY <2>1, <2>4, <2>5, ConnectSteps
<1> QED
  BY <1>1, <1>2

LEMMA ResetSteps ==
  ASSUME Reset
  PROVE  IInv'
<1>1. /\ 0 \in 0..Keepalive+1 /\ 0 \in 0..ReconnectTimeout
      /\ 0 \in 0..SendTimeout /\ 0 \in 0..DnsSlots
  BY ClientAssumption
<1>2. ClientOK' /\ UpdateOK'
  BY <1>1, Zenon DEF Reset, ClientOK, UpdateOK, ConnState
<1>3. SdkOK'
  BY <1>1, FreshTyped DEF Reset, SdkOK
<1>4. NothingBeforeInit'
  BY DEF Reset, NothingBeforeInit, FreeConn
<1>5. (NoLostWakeup /\ ConnackExpected /\ TimerOwned /\ TicksInRange)'
  BY DEF Reset, NoLostWakeup, ConnackExpected, TimerOwned, TicksInRange
<1> QED
  BY <1>2, <1>3, <1>4, <1>5 DEF IInv

LEMMA StutterSteps ==
  ASSUME IInv, UNCHANGED vars
  PROVE  IInv'
<1> USE DEF IInv
<1>1. UNCHANGED <<inited, pCon, ip, connState, keepAliveTick, reconnectTick,
                  sendTimeout, pending, timer, posted, conn, dns, fault, sntp>>
  BY DEF vars, clientVars, sdkVars, updateVars
<1>2. ClientOK' /\ SdkOK'
  BY <1>1 DEF ClientOK, SdkOK
<1>3. UpdateOK'
  BY UpdateStays DEF vars
<1> QED
  BY <1>1, <1>2, <1>3
  DEF NoLostWakeup, ConnackExpected, NothingBeforeInit, TimerOwned,
      TicksInRange

-----------------------------------------------------------------------------
LEMMA NextIInv == IInv /\ [Next]_vars => IInv'
<1> SUFFICES ASSUME IInv, [Next]_vars PROVE IInv'
  OBVIOUS
<1>1. CASE ClientStep
  <2>1. CASE Failures
    BY <1>1, <2>1, DnsSteps, TcpSteps DEF ClientStep, Failures
  <2>2. CASE Answers
    BY <1>1, <2>2, DnsSteps, TcpSteps, RecvSteps DEF ClientStep, Answers
  <2> QED
    BY <1>1, <2>1, <2>2, TaskSteps, TimerSteps, SensorSteps DEF ClientStep
<1>2. CASE WifiDisconnected \/ GotIp
  BY <1>2, WifiSteps
<1>3. CASE SntpAnswer \/ user_check_sntp_stamp
  BY <1>3, SntpSteps
<1>4. CASE Reset
  BY <1>4, ResetSteps
<1>5. CASE UNCHANGED vars
  BY <1>5, StutterSteps
<1> QED
  BY <1>1, <1>2, <1>3, <1>4, <1>5 DEF Next

(* Every state is in type, but for the queue.                              *)
THEOREM ControlTyped == Spec => [](ClientOK /\ SdkOK /\ UpdateOK)
<1>1. IInv => ClientOK /\ SdkOK /\ UpdateOK
  BY DEF IInv
<1> QED
  BY <1>1, InitIInv, NextIInv, PTL DEF Spec

(* Posts coalesce in the one slot of MQTT_Task's queue (mqtt.c:44), and    *)
(* still the task is told of every state it alone can leave.               *)
THEOREM NoWakeupIsLost == Spec => []NoLostWakeup
<1>1. IInv => NoLostWakeup
  BY DEF IInv
<1> QED
  BY <1>1, InitIInv, NextIInv, PTL DEF Spec

(* mqtt_timer (mqtt.c:389) runs only for a client that holds a connection  *)
(* and has not been asked to let go of it.                                 *)
THEOREM TimerIsOwned == Spec => []TimerOwned
<1>1. IInv => TimerOwned
  BY DEF IInv
<1> QED
  BY <1>1, InitIInv, NextIInv, PTL DEF Spec

(* While CONNACK is awaited (mqtt.c:253-255) CONNECT is the message noted  *)
(* as sent.                                                                *)
THEOREM ConnackIsExpected == Spec => []ConnackExpected
<1>1. IInv => ConnackExpected
  BY DEF IInv
<1> QED
  BY <1>1, InitIInv, NextIInv, PTL DEF Spec

-----------------------------------------------------------------------------
(* The session, when the station rejoins tidily or stays online.           *)

(* The client is initialised by the station's joining.                     *)
InitedOnce == inited => joined

SInv == OneConnection /\ DataAfterConnack /\ InitedOnce

LEMMA InitSInv == Init => SInv
  BY DEF Init, ClientInit, SInv, OneConnection, DataAfterConnack, InitedOnce, InSession, FreeConn

(* Most steps act on the client's own connection: they allocate none, begin*)
(* no session without CONNACK and forget none that was accepted.           *)
LEMMA OwnConnection ==
  ASSUME SInv, UNCHANGED <<pCon, inited, joined>>,
         \A d \in Conns : conn'[d].tcp # "free" => conn[d].tcp # "free",
         InSession' => /\ pCon # NULL
                       /\ InSession \/ conn'[pCon].hello = "acked"
                       /\ conn'[pCon].hello \in {conn[pCon].hello, "acked"}
  PROVE  SInv'
<1>1. OneConnection'
  BY DEF SInv, OneConnection
<1>2. DataAfterConnack'
  BY DEF SInv, DataAfterConnack
<1>3. InitedOnce'
  BY DEF SInv, InitedOnce
<1> QED BY <1>1, <1>2, <1>3 DEF SInv

(* MQTT_Connect gives the old struct espconn back before it takes a new    *)
(* one.                                                                    *)
LEMMA ConnectOwnsOne ==
  ASSUME IInv, SInv, MQTT_Connect, UNCHANGED joined
  PROVE  SInv'
<1>1. conn \in [Conns -> Connection]
  BY DEF IInv, SdkOK
<1>2. CASE UNCHANGED <<inited, pCon, connState, conn>>
  BY <1>2 DEF SInv, OneConnection, DataAfterConnack, InitedOnce, InSession
<1>3. CASE ~UNCHANGED <<inited, pCon, connState, conn>>
  <2>1. PICK c \in Conns : /\ pCon' = c
                           /\ conn' = [Released EXCEPT ![c] = NewConn]
    BY <1>3 DEF MQTT_Connect
  <2>2. connState' = "TCP_CONNECTING" /\ inited' = inited
    BY <1>3 DEF MQTT_Connect
  <2>3. \A d \in Conns : Released[d].tcp = "free"
    BY DEF Released, FreeConn, SInv, OneConnection
  <2>4. \A d \in Conns \ {c} : conn'[d] = Released[d]
    BY <2>1 DEF Released
  <2>5. OneConnection'
    BY <2>1, <2>3, <2>4 DEF OneConnection
  <2> QED BY <2>2, <2>5 DEF SInv, DataAfterConnack, InSession, InitedOnce
<1> QED BY <1>2, <1>3

LEMMA DnsOwn ==
  ASSUME IInv, SInv, UNCHANGED updateVars, NEW c \in Conns,
         DnsFails(c) \/ DnsFaults(c) \/ mqtt_dns_found(c)
  PROVE  SInv'
<1>1. conn \in [Conns -> Connection]
  BY DEF IInv, SdkOK
<1>2. UNCHANGED <<pCon, inited, joined>>
  BY DEF DnsFails, DnsFaults, mqtt_dns_found, clientVars, updateVars
<1>3. CASE UNCHANGED conn /\ (connState' = "TCP_RECONNECT_REQ" \/ UNCHANGED connState)
  BY <1>2, <1>3, OwnConnection DEF InSession, SInv, DataAfterConnack
<1>4. CASE conn' = espconn_connect(pCon) /\ connState' = "TCP_CONNECTING"
  <2>1. \A d \in Conns : conn'[d].tcp # "free" => conn[d].tcp # "free"
    BY <1>1, <1>4 DEF espconn_connect, Connection
  <2> QED BY <1>2, <1>4, <2>1, OwnConnection DEF InSession
<1> QED BY <1>3, <1>4 DEF DnsFails, DnsFaults, mqtt_dns_found, clientVars

LEMMA TcpOwn ==
  ASSUME IInv, SInv, UNCHANGED updateVars, NEW c \in Conns,
         \/ mqtt_tcpclient_connect_cb(c) \/ mqtt_tcpclient_recon_cb(c)
         \/ mqtt_tcpclient_discon_cb(c) \/ mqtt_tcpclient_sent_cb(c)
  PROVE  SInv'
<1>1. conn \in [Conns -> Connection] /\ pCon \in Conns \cup {NULL}
  BY DEF IInv, SdkOK, ClientOK
<1>2. UNCHANGED <<pCon, inited, joined>>
  BY DEF mqtt_tcpclient_connect_cb, mqtt_tcpclient_recon_cb, mqtt_tcpclient_discon_cb,
         mqtt_tcpclient_sent_cb, updateVars
<1>3. c = pCon /\ conn[c].tcp # "free"
  BY DEF mqtt_tcpclient_connect_cb, mqtt_tcpclient_recon_cb, mqtt_tcpclient_discon_cb,
         mqtt_tcpclient_sent_cb, SInv, OneConnection
<1>4. CASE mqtt_tcpclient_connect_cb(c)
  <2>1. \A d \in Conns \ {c} : conn'[d] = conn[d]
    BY <1>1, <1>3, <1>4 DEF mqtt_tcpclient_connect_cb, Sent, SentConnect
  <2>2. connState' = "MQTT_CONNECT_SENDING"
    BY <1>4 DEF mqtt_tcpclient_connect_cb, Handshake
  <2> QED BY <1>2, <1>3, <2>1, <2>2, OwnConnection DEF InSession
<1>5. CASE mqtt_tcpclient_recon_cb(c) \/ mqtt_tcpclient_discon_cb(c)
  <2>1. conn' = Dead(c)
    BY <1>5 DEF mqtt_tcpclient_recon_cb, mqtt_tcpclient_discon_cb
  <2>2. /\ \A d \in Conns \ {c} : conn'[d] = conn[d]
        /\ conn'[c].hello = conn[c].hello
    BY <1>1, <2>1 DEF Dead, Connection
  <2>3. connState' \in {"TCP_RECONNECT_REQ", "TCP_DISCONNECTED"} \/ UNCHANGED connState
    BY <1>5 DEF mqtt_tcpclient_recon_cb, mqtt_tcpclient_discon_cb, AfterDisconnect
  <2> QED BY <1>2, <1>3, <2>2, <2>3, OwnConnection DEF InSession, SInv, DataAfterConnack
<1>6. CASE mqtt_tcpclient_sent_cb(c)
  <2>1. conn' = [conn EXCEPT ![c].sends = @ - 1] /\ UNCHANGED connState
    BY <1>6 DEF mqtt_tcpclient_sent_cb
  <2>2. /\ \A d \in Conns \ {c} : conn'[d] = conn[d]
        /\ conn'[c].hello = conn[c].hello
    BY <1>1, <2>1 DEF Connection
  <2> QED BY <1>2, <1>3, <2>1, <2>2, OwnConnection DEF InSession, SInv, DataAfterConnack
<1> QED BY <1>4, <1>5, <1>6

(* The only step into a session: CONNACK on the client's own connection.   *)
LEMMA RecvOwn ==
  ASSUME IInv, SInv, UNCHANGED updateVars, NEW c \in Conns, NEW segment, NEW long,
         mqtt_tcpclient_recv(c, segment, long)
  PROVE  SInv'
<1> DEFINE told == IF segment = <<"CONNACK">> THEN Acked(c) ELSE conn
<1>1. conn \in [Conns -> Connection] /\ pCon \in Conns \cup {NULL}
  BY DEF IInv, SdkOK, ClientOK
<1>2. UNCHANGED <<pCon, inited, joined>>
  BY DEF mqtt_tcpclient_recv, updateVars
<1>3. c = pCon /\ conn[c].tcp # "free" /\ pCon # NULL
  BY ClientAssumption DEF mqtt_tcpclient_recv, FromBroker, SInv, OneConnection
<1>4. /\ told \in [Conns -> Connection]
      /\ \A d \in Conns \ {c} : told[d] = conn[d]
      /\ told[c].hello \in {conn[c].hello, "acked"}
      /\ segment = <<"CONNACK">> => told[c].hello = "acked"
  BY <1>1 DEF Acked, Connection
<1>5. \/ segment = <<"CONNACK">> /\ connState' = "MQTT_DATA" /\ conn' = told
      \/ conn' = told /\ UNCHANGED connState
      \/ /\ connState = "MQTT_CONNECT_SENDING" /\ UNCHANGED connState
         /\ conn' = espconn_disconnect(told, pCon)
  BY DEF mqtt_tcpclient_recv
<1> HIDE DEF told
<1>6. \A d \in Conns \ {c} : conn'[d] = conn[d]
  BY <1>3, <1>4, <1>5 DEF espconn_disconnect
<1>7. CASE conn' = told /\ (segment = <<"CONNACK">> \/ UNCHANGED connState)
  BY <1>2, <1>3, <1>4, <1>6, <1>7, OwnConnection DEF InSession
<1>8. CASE connState' = "MQTT_CONNECT_SENDING"
  BY <1>2, <1>3, <1>6, <1>8, OwnConnection DEF InSession
<1> QED BY <1>5, <1>7, <1>8

LEMMA TaskOwn ==
  ASSUME IInv, SInv, UNCHANGED updateVars, MQTT_Task
  PROVE  SInv'
<1>1. conn \in [Conns -> Connection] /\ pCon \in Conns \cup {NULL} /\ UNCHANGED joined
  BY DEF IInv, SdkOK, ClientOK, updateVars
<1>2. CASE TaskReconnects
  BY <1>1, <1>2, ConnectOwnsOne DEF TaskReconnects
<1>3. CASE TaskDisconnects
  <2>1. /\ conn' = espconn_disconnect(conn, pCon) /\ UNCHANGED <<pCon, inited>>
        /\ connState' \in {"TCP_DISCONNECTING", "TCP_RECONNECT_DISCONNECTING"}
    BY <1>3 DEF TaskDisconnects
  <2>2. \A d \in Conns : conn'[d].tcp # "free" => conn[d].tcp # "free"
    BY <1>1, <2>1, DisconnectTyped
  <2> QED BY <1>1, <2>1, <2>2, OwnConnection DEF InSession
<1>4. CASE TaskReleases
  <2>1. conn' = Released /\ connState' = "TCP_DISCONNECTED" /\ UNCHANGED inited
    BY <1>4 DEF TaskReleases
  <2>2. \A d \in Conns : conn'[d].tcp = "free"
    BY <2>1 DEF Released, FreeConn, SInv, OneConnection
  <2> QED BY <1>1, <2>1, <2>2 DEF SInv, OneConnection, DataAfterConnack, InSession, InitedOnce
<1>5. CASE TaskPings \/ TaskSends
  <2>1. InSession /\ UNCHANGED <<pCon, inited>>
    BY <1>5 DEF TaskPings, TaskSends, InSession
  <2>2. \A d \in Conns : conn'[d].tcp = conn[d].tcp /\ conn'[d].hello = conn[d].hello
    <3>0. PICK type : \E accepted \in SendResults(conn, pCon) :
            conn' = IF accepted THEN Sent(conn, pCon, type) ELSE conn
      BY <1>5 DEF TaskPings, TaskSends
    <3>1. PICK accepted \in SendResults(conn, pCon) :
            conn' = IF accepted THEN Sent(conn, pCon, type) ELSE conn
      BY <3>0
    <3>2. accepted \in BOOLEAN
      BY <3>1 DEF SendResults
    <3>3. CASE accepted = TRUE
      <4>1. conn' = Sent(conn, pCon, type) /\ TRUE \in SendResults(conn, pCon)
        BY <3>1, <3>3
      <4>2. \A d \in Conns : /\ Sent(conn, pCon, type)[d].tcp = conn[d].tcp
                            /\ Sent(conn, pCon, type)[d].hello = conn[d].hello
        BY <1>1, <4>1, SentTyped
      <4>3. QED
        BY <4>1, <4>2, Zenon
    <3>4. CASE accepted = FALSE
      BY <3>1, <3>4
    <3> QED BY <3>2, <3>3, <3>4
  <2>3. pCon # NULL
    BY <2>1 DEF SInv, DataAfterConnack
  <2> QED BY <1>1, <2>1, <2>2, <2>3, OwnConnection
<1>6. CASE TaskIdles
  BY <1>1, <1>6, OwnConnection DEF TaskIdles, sdkVars, InSession, SInv, DataAfterConnack
<1> QED BY <1>2, <1>3, <1>4, <1>5, <1>6 DEF MQTT_Task

(* The timers, the sensor and the access point.  GOT_IP finds nothing that *)
(* was allocated.                                                          *)
LEMMA OtherOwn ==
  ASSUME IInv, SInv, GotIp => pCon = NULL,
         \/ (mqtt_timer \/ light_sensor_tick) /\ UNCHANGED updateVars
         \/ WifiDisconnected \/ GotIp \/ SntpAnswer \/ user_check_sntp_stamp
         \/ Reset \/ UNCHANGED vars
  PROVE  SInv'
<1>1. CASE mqtt_timer /\ UNCHANGED updateVars
  <2>1. /\ UNCHANGED <<pCon, inited, joined, conn>>
        /\ \/ UNCHANGED connState
           \/ connState = "MQTT_DATA"
           \/ connState' = "TCP_RECONNECT"
    BY <1>1 DEF mqtt_timer, sdkVars, updateVars, KeepaliveTicks, ReconnectTicks, Reconnects
  <2> QED BY <2>1, OwnConnection DEF InSession, SInv, DataAfterConnack
<1>2. CASE (light_sensor_tick /\ UNCHANGED updateVars) \/ SntpAnswer \/ UNCHANGED vars
  <2>1. UNCHANGED <<pCon, inited, conn, connState>>
    BY <1>2 DEF light_sensor_tick, SntpAnswer, vars, clientVars, sdkVars
  <2>2. UNCHANGED joined
    BY <1>2 DEF light_sensor_tick, SntpAnswer, vars, updateVars
  <2> QED BY <2>1, <2>2, OwnConnection DEF InSession, SInv, DataAfterConnack
<1>3. CASE GotIp
  <2>1. pCon = NULL /\ joined' = TRUE /\ MQTT_Init
    BY <1>3 DEF GotIp
  <2>2. \A c \in Conns : conn[c].tcp = "free"
    BY <2>1, ClientAssumption DEF SInv, OneConnection
  <2>3. UNCHANGED conn /\ pCon' = NULL /\ (connState' = "WIFI_INIT" \/ UNCHANGED connState)
    BY <2>1 DEF MQTT_Init, clientVars, sdkVars
  <2> QED
    BY <2>1, <2>2, <2>3 DEF SInv, OneConnection, DataAfterConnack, InSession, InitedOnce
<1>4. CASE user_check_sntp_stamp
  BY <1>4, ConnectOwnsOne DEF user_check_sntp_stamp
<1>5. CASE Reset
  BY <1>5 DEF Reset, SInv, OneConnection, DataAfterConnack, InSession, InitedOnce, FreeConn
<1>6. CASE WifiDisconnected
  <2>1. UNCHANGED <<pCon, inited, joined, conn>> /\ connState' = "TCP_DISCONNECTING"
    BY <1>6 DEF WifiDisconnected, MQTT_Disconnect, sdkVars
  <2> QED BY <2>1, OwnConnection DEF InSession
<1> QED BY <1>1, <1>2, <1>3, <1>4, <1>5, <1>6

LEMMA NextSInv == IInv /\ SInv /\ [TidyNext]_vars => SInv'
<1> SUFFICES ASSUME IInv, SInv, [TidyNext]_vars PROVE SInv'
  OBVIOUS
<1>0. [Next]_vars /\ (GotIp => pCon = NULL)
  BY DEF TidyNext, GotIp, vars, updateVars
<1>1. CASE ClientStep
  <2>1. ASSUME NEW c \in Conns,
               \/ DnsFails(c) \/ DnsFaults(c) \/ mqtt_dns_found(c)
               \/ mqtt_tcpclient_connect_cb(c) \/ mqtt_tcpclient_recon_cb(c)
               \/ mqtt_tcpclient_discon_cb(c) \/ mqtt_tcpclient_sent_cb(c)
        PROVE  SInv'
    BY <1>1, <2>1, DnsOwn, TcpOwn DEF ClientStep
  <2>2. ASSUME NEW c \in Conns, NEW segment, NEW long, mqtt_tcpclient_recv(c, segment, long)
        PROVE  SInv'
    BY <1>1, <2>2, RecvOwn DEF ClientStep
  <2> QED
    BY <1>0, <1>1, <2>1, <2>2, TaskOwn, OtherOwn DEF ClientStep, Failures, Answers
<1>2. CASE WifiDisconnected \/ GotIp \/ SntpAnswer \/ user_check_sntp_stamp \/ Reset
           \/ UNCHANGED vars
  BY <1>0, <1>2, OtherOwn
<1> QED BY <1>0, <1>1, <1>2 DEF Next

(* A station that does not drop out joins once, before the client exists.  *)
LEMMA OnlineStep ==
  ASSUME ~WifiMayDrop, IInv, InitedOnce, Next
  PROVE  TidyNext
<1>1. SUFFICES ASSUME ~online, online' PROVE pCon = NULL
  BY DEF TidyNext
<1>2. CASE ClientStep \/ SntpAnswer \/ user_check_sntp_stamp
  BY <1>1, <1>2 DEF ClientStep, SntpAnswer, user_check_sntp_stamp, updateVars
<1>3. CASE GotIp
  BY <1>3 DEF GotIp, InitedOnce, IInv, NothingBeforeInit
<1>4. CASE WifiDisconnected \/ Reset
  BY <1>1, <1>4 DEF WifiDisconnected, Reset
<1> QED BY <1>2, <1>3, <1>4 DEF Next

(* The invariants hold together, so no temporal argument is needed to see  *)
(* that each step of such a station is a tidy one.                         *)
LEMMA SessionInvariant == ASSUME ~WifiMayDrop PROVE Spec => []SInv
<1>1. Spec => []IInv
  BY InitIInv, NextIInv, PTL DEF Spec
<1>2. IInv /\ SInv /\ [Next]_vars => SInv'
  BY OnlineStep, NextSInv DEF SInv
<1> QED BY <1>1, <1>2, InitSInv, PTL DEF Spec

(* A station that stays online is one case of a station that rejoins       *)
(* tidily, so the two theorems below hold of it too.                       *)
THEOREM OnlineIsTidy == ASSUME ~WifiMayDrop PROVE Spec => TidySpec
<1>1. Spec => []IInv
  BY InitIInv, NextIInv, PTL DEF Spec
<1>2. IInv /\ SInv /\ [Next]_vars => [TidyNext]_vars
  BY OnlineStep DEF SInv
<1> QED BY <1>1, <1>2, SessionInvariant, PTL DEF Spec, TidySpec

LEMMA TidyInvariant == TidySpec => []SInv
<1>1. [TidyNext]_vars => [Next]_vars
  BY DEF TidyNext
<1>2. TidySpec => []IInv
  BY <1>1, InitIInv, NextIInv, PTL DEF TidySpec
<1> QED BY <1>2, InitSInv, NextSInv, PTL DEF TidySpec

(* However often the station drops out, if it rejoins tidily MQTT_Connect  *)
(* (mqtt.c:793) and MQTT_Task give every struct espconn back before the    *)
(* client takes another one or forgets it: a client initialised anew while *)
(* it holds one (clock_update.c:102) is the only thing that can leak.      *)
THEOREM OneConnectionOnly == TidySpec => []OneConnection
<1>1. SInv => OneConnection
  BY DEF SInv
<1> QED BY <1>1, TidyInvariant, PTL

(* If the station rejoins tidily, the client sends and delivers messages   *)
(* only on a connection whose CONNECT the broker has accepted              *)
(* (mqtt.c:261), whatever callbacks of earlier connections come late.      *)
THEOREM SessionIsAccepted == TidySpec => []DataAfterConnack
<1>1. SInv => DataAfterConnack
  BY DEF SInv
<1> QED BY <1>1, TidyInvariant, PTL

-----------------------------------------------------------------------------
(* Between two hourly checks.  The resolver works for the client's present *)
(* attempt at most, and before the first one for nobody.                   *)
Unused == pCon = NULL /\ ~timer /\ \A c \in Conns : conn[c].tcp = "free" /\ dns[c] = 0

FInv ==
  /\ NoFault
  /\ sntp # "hour" => Unused
  /\ \A c \in Conns :
       dns[c] # 0 => /\ c = pCon /\ dns[c] = 1 /\ conn[c].tcp = "idle"
                     /\ connState = "TCP_CONNECTING"

NobodyAsks == \A c \in Conns : dns[c] = 0

(* When nobody asks the resolver, and the client has begun, a step that    *)
(* asks nothing cannot harm.                                               *)
LEMMA NobodyAsksNow ==
  ASSUME FInv, UNCHANGED fault, sntp' = "hour", NobodyAsks'
  PROVE  FInv'
  BY DEF FInv, NoFault, NobodyAsks

LEMMA ResolverSteps ==
  ASSUME IInv, FInv, UNCHANGED updateVars, NEW c \in Conns,
         DnsFails(c) \/ DnsFaults(c) \/ mqtt_dns_found(c)
  PROVE  FInv'
<1>1. dns \in [Conns -> 0..DnsSlots] /\ dns[c] # 0 /\ dns' = [dns EXCEPT ![c] = @ - 1]
  <2>1. dns \in [Conns -> 0..DnsSlots] /\ DnsCallback(c)
    BY DEF IInv, SdkOK, DnsFails, DnsFaults, mqtt_dns_found
  <2> QED BY <2>1, ClientAssumption DEF DnsCallback
<1>2. c = pCon /\ dns[c] = 1 /\ conn[c].tcp = "idle"
  BY <1>1 DEF FInv
<1>3. NobodyAsks'
  BY <1>1, <1>2 DEF FInv, NobodyAsks
<1>4. sntp' = "hour"
  BY <1>1 DEF FInv, Unused, updateVars
<1>5. ~DnsFaults(c)
  BY <1>2, ClientAssumption DEF DnsFaults
<1> QED BY <1>3, <1>4, <1>5, NobodyAsksNow DEF DnsFails, mqtt_dns_found

LEMMA ConnectionSteps ==
  ASSUME IInv, SInv, FInv, UNCHANGED updateVars, NEW c \in Conns,
         \/ mqtt_tcpclient_connect_cb(c) \/ mqtt_tcpclient_recon_cb(c)
         \/ mqtt_tcpclient_discon_cb(c) \/ mqtt_tcpclient_sent_cb(c)
         \/ \E segment, long : mqtt_tcpclient_recv(c, segment, long)
  PROVE  FInv'
<1>1. conn[c].tcp \notin {"free", "idle"} /\ UNCHANGED <<dns, fault>>
  BY DEF mqtt_tcpclient_connect_cb, mqtt_tcpclient_recon_cb, mqtt_tcpclient_discon_cb,
         mqtt_tcpclient_sent_cb, mqtt_tcpclient_recv, FromBroker
<1>2. c = pCon
  BY <1>1 DEF SInv, OneConnection
<1>3. NobodyAsks'
  BY <1>1, <1>2 DEF FInv, NobodyAsks
<1>4. sntp' = "hour"
  BY <1>1 DEF FInv, Unused, updateVars
<1> QED BY <1>1, <1>3, <1>4, NobodyAsksNow

(* MQTT_Connect finds room: its own struct espconn, or a heap of which it  *)
(* has not used any.                                                       *)
LEMMA ConnectAsks ==
  ASSUME IInv, SInv, FInv, MQTT_Connect, sntp' = "hour", NobodyAsks, Conns # {}
  PROVE  FInv'
<1>1. dns \in [Conns -> 0..DnsSlots] /\ conn \in [Conns -> Connection]
  BY DEF IInv, SdkOK
<1>2. {c \in Conns : Released[c].tcp = "free"} = Conns
  BY DEF Released, FreeConn, SInv, OneConnection
<1>3. PICK c \in Conns : /\ pCon' = c
                         /\ conn' = [Released EXCEPT ![c] = NewConn]
                         /\ dns' = [dns EXCEPT ![c] = @ + 1] \/ UNCHANGED dns
  BY <1>2 DEF MQTT_Connect
<1>4. connState' = "TCP_CONNECTING" /\ UNCHANGED fault
  BY <1>2 DEF MQTT_Connect
<1>5. conn'[c].tcp = "idle"
  BY <1>3 DEF Released, NewConn, FreeConn
<1>6. \A d \in Conns : dns'[d] # 0 => d = c /\ dns'[d] = 1
  BY <1>1, <1>3 DEF NobodyAsks
<1> QED BY <1>3, <1>4, <1>5, <1>6 DEF FInv, NoFault

LEMMA TaskAsks ==
  ASSUME IInv, SInv, FInv, UNCHANGED updateVars, MQTT_Task, Conns # {}
  PROVE  FInv'
<1>1. conn \in [Conns -> Connection] /\ pCon \in Conns \cup {NULL} /\ UNCHANGED sntp
  BY DEF IInv, SdkOK, ClientOK, updateVars
<1>2. CASE TaskReconnects
  <2>1. MQTT_Connect /\ timer /\ NobodyAsks
    BY <1>2 DEF TaskReconnects, IInv, TimerOwned, FInv, NobodyAsks
  <2>2. sntp' = "hour"
    BY <1>1, <2>1 DEF FInv, Unused
  <2> QED BY <2>1, <2>2, ConnectAsks
<1>3. CASE TaskDisconnects
  <2>1. /\ conn' = espconn_disconnect(conn, pCon) /\ UNCHANGED <<pCon, timer, dns, fault>>
        /\ NobodyAsks
    BY <1>3 DEF TaskDisconnects, FInv, NobodyAsks
  <2>2. \A d \in Conns : conn'[d].tcp # "free" => conn[d].tcp # "free"
    BY <1>1, <2>1, DisconnectTyped
  <2> QED BY <1>1, <2>1, <2>2 DEF FInv, NoFault, Unused, NobodyAsks
<1>4. CASE TaskReleases
  <2>1. /\ conn' = Released /\ pCon' = NULL /\ UNCHANGED <<timer, dns, fault>>
        /\ NobodyAsks
    BY <1>4 DEF TaskReleases, FInv, NobodyAsks
  <2>2. \A d \in Conns : conn'[d].tcp = "free"
    BY <2>1 DEF Released, FreeConn, SInv, OneConnection
  <2> QED BY <1>1, <2>1, <2>2 DEF FInv, NoFault, Unused, NobodyAsks
<1>5. CASE TaskPings \/ TaskSends
  <2>1. UNCHANGED <<dns, fault>> /\ pCon # NULL /\ NobodyAsks
    BY <1>5 DEF TaskPings, TaskSends, SInv, DataAfterConnack, InSession, FInv, NobodyAsks
  <2>2. sntp' = "hour" /\ NobodyAsks'
    BY <1>1, <2>1 DEF FInv, Unused, NobodyAsks
  <2> QED BY <2>1, <2>2, NobodyAsksNow
<1>6. CASE TaskIdles
  BY <1>1, <1>6 DEF TaskIdles, sdkVars, FInv, NoFault, Unused
<1> QED BY <1>2, <1>3, <1>4, <1>5, <1>6 DEF MQTT_Task

LEMMA NextFInv ==
  ~WifiMayDrop /\ ~Resync /\ Conns # {} /\ IInv /\ SInv /\ FInv /\ [Next]_vars => FInv'
<1> SUFFICES ASSUME ~WifiMayDrop, ~Resync, Conns # {}, IInv, SInv, FInv, [Next]_vars
             PROVE  FInv'
  OBVIOUS
<1>1. CASE ClientStep
  <2>1. UNCHANGED updateVars
    BY <1>1 DEF ClientStep
  <2>2. CASE Failures \/ Answers
    BY <2>1, <2>2, ResolverSteps, ConnectionSteps DEF Failures, Answers
  <2>3. CASE MQTT_Task
    BY <2>1, <2>3, TaskAsks
  <2>4. CASE mqtt_timer
    <3>1. /\ timer /\ UNCHANGED <<pCon, timer, conn, dns, fault>>
          /\ connState = "TCP_CONNECTING" => UNCHANGED connState
      BY <2>4 DEF mqtt_timer, sdkVars, KeepaliveTicks, ReconnectTicks, Waiting
    <3> QED BY <2>1, <3>1 DEF updateVars, FInv, NoFault, Unused
  <2>5. CASE light_sensor_tick
    BY <2>1, <2>5 DEF light_sensor_tick, sdkVars, updateVars, FInv, NoFault, Unused
  <2> QED BY <1>1, <2>2, <2>3, <2>4, <2>5 DEF ClientStep
<1>2. CASE GotIp
  <2>1. ~inited /\ MQTT_Init /\ ArmSntp
    BY <1>2 DEF GotIp, SInv, InitedOnce
  <2>2. Unused
    BY <2>1 DEF IInv, NothingBeforeInit, Unused
  <2>3. pCon' = NULL /\ ~timer' /\ UNCHANGED <<conn, dns, fault>>
    BY <2>1, <2>2 DEF MQTT_Init, sdkVars, Unused
  <2> QED BY <2>2, <2>3 DEF FInv, NoFault, Unused
<1>3. CASE user_check_sntp_stamp
  <2>1. Unused /\ MQTT_Connect /\ sntp' = "hour"
    BY <1>3 DEF user_check_sntp_stamp, RearmSntp, FInv
  <2> QED BY <2>1, ConnectAsks DEF Unused, NobodyAsks
<1>4. CASE SntpAnswer \/ UNCHANGED vars
  <2>1. UNCHANGED <<pCon, timer, connState, conn, dns, fault, sntp>>
    BY <1>4 DEF SntpAnswer, vars, clientVars, sdkVars, updateVars
  <2> QED BY <2>1 DEF FInv, NoFault, Unused
<1>5. ~Reset /\ ~WifiDisconnected
  BY DEF Reset, WifiDisconnected, FInv, NoFault
<1> QED BY <1>1, <1>2, <1>3, <1>4, <1>5 DEF Next

(* Between two hourly checks, with the station online for good, nothing    *)
(* the broker, the resolver or TCP does leads to undefined behaviour: no   *)
(* callback of the resolver (mqtt.c:58) meets a freed struct espconn, and  *)
(* MQTT_Connect (mqtt.c:794) always finds memory for one, if there ever    *)
(* was any.                                                                *)
THEOREM NothingUndefined ==
  ASSUME ~WifiMayDrop, ~Resync, Conns # {} PROVE Spec => []NoFault
<1>1. Init => FInv
  BY DEF Init, ClientInit, FInv, NoFault, Unused, FreeConn
<1>2. IInv /\ SInv /\ FInv /\ [Next]_vars => FInv'
  BY NextFInv
<1>3. Spec => []IInv
  BY InitIInv, NextIInv, PTL DEF Spec
<1>4. FInv => NoFault
  BY DEF FInv
<1> QED BY <1>1, <1>2, <1>3, <1>4, SessionInvariant, PTL DEF Spec

-----------------------------------------------------------------------------
(* What msgQueue may hold, whatever the broker and the sensor do.          *)
Room == {q \in Seq(Queued) : Len(q) <= QueueCap}

LEMMA RoomLeft ==
  ASSUME NEW q \in Room, Len(q) < QueueCap, NEW p \in Queued
  PROVE  Append(q, p) \in Room
<1>1. q \in Seq(Queued) /\ Len(q) \in Nat /\ QueueCap \in Nat
  BY ClientAssumption DEF Room
<1>2. Append(q, p) \in Seq(Queued) /\ Len(Append(q, p)) = Len(q) + 1
  BY <1>1
<1>3. Len(q) + 1 <= QueueCap
  BY <1>1
<1> QED
  BY <1>2, <1>3 DEF Room

LEMMA PutsFit ==
  ASSUME NEW q \in Room, NEW p \in Queued
  PROVE  QUEUE_Puts(q, p) \subseteq Room
  BY RoomLeft DEF QUEUE_Puts

(* MQTT_Publish drops the oldest packets until the new one has room.       *)
LEMMA PublishFits ==
  ASSUME NEW q \in Room, NEW p \in Queued
  PROVE  MQTT_Publish(q, p) \subseteq Room
<1>1. q \in Seq(Queued) /\ Len(q) \in Nat /\ Len(q) <= QueueCap /\ QueueCap \in Nat
  BY ClientAssumption DEF Room
<1>2. CASE Len(q) < QueueCap
  BY <1>2, RoomLeft DEF MQTT_Publish
<1>3. CASE ~(Len(q) < QueueCap)
  <2>1. <<>> \in Room
    BY <1>1 DEF Room
  <2>2. ASSUME NEW k \in 1..Len(q)
        PROVE  Append(SubSeq(q, k + 1, Len(q)), p) \in Room
    <3> DEFINE r == SubSeq(q, k + 1, Len(q))
    <3>1. PICK n \in Nat : n = Len(q)
      BY <1>1
    <3>2. k \in 1..n /\ k + 1 \in 1..n+1 /\ n <= QueueCap
      BY <1>1, <3>1
    <3>3. r \in Seq(Queued) /\ Len(r) = n - k
      BY <1>1, <3>1, <3>2
    <3> HIDE DEF r
    <3>4. n - k \in Nat /\ n - k < QueueCap
      BY <3>1, <3>2, <1>1
    <3>5. r \in Room /\ Len(r) < QueueCap
      BY <3>3, <3>4, <1>1 DEF Room
    <3>6. Append(r, p) \in Room
      BY <3>5, RoomLeft
    <3> QED
      BY <3>6 DEF r
  <2> QED
    BY <1>3, <2>1, <2>2 DEF MQTT_Publish
<1> QED
  BY <1>2, <1>3

LEMMA PacketsQueued == {"SUBSCRIBE", "PUBLISH", "REPLY"} \subseteq Queued
  BY DEF Queued

LEMMA ConnectedFits ==
  ASSUME NEW q \in Room
  PROVE  ConnectedCb(q) \subseteq Room
  BY PublishFits, PacketsQueued DEF ConnectedCb

LEMMA AnsweredFits ==
  ASSUME NEW q \in Room, NEW m
  PROVE  Answered(q, m) \subseteq Room
<1>1. DataCb(q) \subseteq Room /\ QUEUE_Puts(q, "REPLY") \subseteq Room
  BY PublishFits, PutsFit, PacketsQueued DEF DataCb
<1>2. UNION {DataCb(r) : r \in QUEUE_Puts(q, "REPLY")} \subseteq Room
  BY <1>1, PublishFits, PacketsQueued DEF DataCb
<1> QED
  BY <1>1, <1>2 DEF Answered

LEMMA LeastNat ==
  ASSUME NEW T \in SUBSET Nat, T # {}
  PROVE  \E x \in T : \A y \in T : x <= y
<1> DEFINE R == {ss \in Nat \X Nat : ss[1] < ss[2]}
<1>1. IsWellFoundedOn(R, Nat)
  BY NatLessThanWellFounded DEF OpToRel
<1>2. PICK x \in T : \A y \in T : ~ (<<y, x>> \in R)
  <2> HIDE DEF R
  <2> QED BY <1>1, WFMin
<1>3. ASSUME NEW y \in T PROVE x <= y
  <2>1. <<y, x>> \in Nat \X Nat /\ <<y, x>>[1] = y /\ <<y, x>>[2] = x
    OBVIOUS
  <2>2. ~ (y < x)
    BY <1>2, <2>1
  <2>3. QED
    BY <2>2
<1>4. QED
  BY <1>2, <1>3

LEMMA Induct ==
  ASSUME NEW S, 0 \in S, \A n \in Nat : n \in S => n + 1 \in S
  PROVE  Nat \subseteq S
<1>1. SUFFICES ASSUME Nat \ S # {} PROVE FALSE
  OBVIOUS
<1>2. PICK x \in Nat \ S : \A y \in Nat \ S : x <= y
  BY <1>1, LeastNat
<1>3. x # 0 /\ x - 1 \in Nat /\ x - 1 \in S
  BY <1>2
<1>4. QED
  BY <1>2, <1>3

(* The recursive function of Processed.                                    *)
Goes(q, segment, n, f) ==
  f = [k \in 0..n |->
        IF k = 0 THEN {q}
        ELSE IF \A j \in 1..k-1 : IsPublish(segment[j])
             THEN UNION {Answered(r, segment[k]) : r \in f[k-1]}
             ELSE f[k-1]]

LEMMA GoesUnfolded ==
  ASSUME NEW q, NEW segment, NEW w, Goes(q, segment, Len(segment), w)
  PROVE  \E f : /\ Goes(q, segment, Len(segment), f)
                /\ Processed(q, segment) = f[Len(segment)]
<1> DEFINE after[n \in 0..Len(segment)] ==
             IF n = 0 THEN {q}
             ELSE IF \A k \in 1..n-1 : IsPublish(segment[k])
                  THEN UNION {Answered(r, segment[n]) : r \in after[n-1]}
                  ELSE after[n-1]
<1>1. Goes(q, segment, Len(segment), after)
  BY Zenon DEF Goes
<1>2. Processed(q, segment) = after[Len(segment)]
  BY Zenon DEF Processed
<1> HIDE DEF after
<1> QED
  BY <1>1, <1>2

LEMMA GoesExists ==
  ASSUME NEW q, NEW segment, NEW n \in Nat
  PROVE  \E f : Goes(q, segment, n, f)
<1> DEFINE S == {m \in Nat : \E f : Goes(q, segment, m, f)}
           then(k, before) ==
             IF \A j \in 1..k-1 : IsPublish(segment[j])
             THEN UNION {Answered(r, segment[k]) : r \in before}
             ELSE before
<1>1. \A m, f : Goes(q, segment, m, f)
        <=> f = [k \in 0..m |-> IF k = 0 THEN {q} ELSE then(k, f[k-1])]
  BY Zenon DEF Goes
<1> HIDE DEF then
<1>2. 0 \in S
  <2> DEFINE w == [k \in 0..0 |-> {q}]
  <2>1. w = [k \in 0..0 |-> IF k = 0 THEN {q} ELSE then(k, w[k-1])]
    OBVIOUS
  <2> QED
    BY <1>1, <2>1
<1>3. ASSUME NEW m \in Nat, m \in S PROVE m + 1 \in S
  <2>1. PICK f : f = [k \in 0..m |-> IF k = 0 THEN {q} ELSE then(k, f[k-1])]
    BY <1>1, <1>3
  <2> DEFINE w == [k \in 0..m+1 |-> IF k = m + 1 THEN then(k, f[k-1]) ELSE f[k]]
  <2>2. ASSUME NEW k \in 0..m+1
        PROVE  w[k] = IF k = 0 THEN {q} ELSE then(k, w[k-1])
    <3>1. CASE k = m + 1
      <4>1. k # 0 /\ k - 1 \in 0..m+1 /\ k - 1 # m + 1
        BY <3>1
      <4> QED
        BY <3>1, <4>1
    <3>2. CASE k \in 1..m
      <4>1. k # 0 /\ k - 1 \in 0..m+1 /\ k - 1 # m + 1 /\ k # m + 1 /\ k \in 0..m
        BY <3>2
      <4> QED
        BY <2>1, <4>1
    <3>3. CASE k = 0
      BY <2>1, <3>3
    <3> QED
      BY <3>1, <3>2, <3>3
  <2>3. w = [k \in 0..m+1 |-> w[k]]
    OBVIOUS
  <2> HIDE DEF w
  <2>4. w = [k \in 0..m+1 |-> IF k = 0 THEN {q} ELSE then(k, w[k-1])]
    BY <2>2, <2>3, Zenon
  <2>5. Goes(q, segment, m + 1, w)
    BY <1>1, <2>4, Zenon
  <2> QED
    BY <2>5
<1>4. n \in S
  <2> HIDE DEF S
  <2> QED
    BY <1>2, <1>3, Induct
<1> QED
  BY <1>4

(* However many messages a segment holds, their answers fit.               *)
LEMMA ProcessedFits ==
  ASSUME NEW q \in Room, NEW segment, Len(segment) \in Nat
  PROVE  Processed(q, segment) \subseteq Room
<1>1. PICK w : Goes(q, segment, Len(segment), w)
  BY GoesExists
<1>2. PICK f : /\ Goes(q, segment, Len(segment), f)
               /\ Processed(q, segment) = f[Len(segment)]
  BY <1>1, GoesUnfolded, Zenon
<1>3. PICK n \in Nat : n = Len(segment)
  OBVIOUS
<1>4. Goes(q, segment, n, f) /\ Processed(q, segment) = f[n]
  BY <1>2, <1>3, Zenon
<1> DEFINE S == {k \in Nat : k <= n => f[k] \subseteq Room}
<1>5. ASSUME NEW k \in 0..n
      PROVE  f[k] = IF k = 0 THEN {q}
                    ELSE IF \A j \in 1..k-1 : IsPublish(segment[j])
                         THEN UNION {Answered(r, segment[k]) : r \in f[k-1]}
                         ELSE f[k-1]
  BY <1>4, Zenon DEF Goes
<1>6. 0 \in S
  <2>1. 0 \in 0..n
    OBVIOUS
  <2>2. f[0] = {q}
    BY <1>5, <2>1, Zenon
  <2> QED
    BY <2>2
<1>7. ASSUME NEW k \in Nat, k \in S PROVE k + 1 \in S
  <2>1. SUFFICES ASSUME k + 1 <= n PROVE f[k + 1] \subseteq Room
    OBVIOUS
  <2>2. k + 1 \in 0..n /\ k + 1 # 0 /\ (k + 1) - 1 = k /\ k <= n
    BY <2>1
  <2>3. f[k] \subseteq Room
    BY <1>7, <2>2
  <2>4. f[k + 1] \in {UNION {Answered(r, segment[k + 1]) : r \in f[k]}, f[k]}
    BY <1>5, <2>2
  <2> QED
    BY <2>3, <2>4, AnsweredFits
<1>8. n \in S
  <2> HIDE DEF S
  <2> QED
    BY <1>6, <1>7, Induct
<1> QED
  BY <1>4, <1>8

-----------------------------------------------------------------------------
(* Whatever adds to msgQueue keeps it within its room.                     *)
LEMMA QueueIs ==
  QueueOK <=> /\ queue \in Room
              /\ pending \in {"none", "CONNECT", "PINGREQ"} \cup Queued
  BY DEF QueueOK, Room

LEMMA EmptyFits == <<>> \in Room
  BY ClientAssumption DEF Room

LEMMA RecvQueue ==
  ASSUME QueueOK, NEW c, NEW segment \in Segments, NEW long,
         mqtt_tcpclient_recv(c, segment, long)
  PROVE  QueueOK'
<1>1. queue \in Room
  BY QueueIs
<1>2. pending' = pending
  BY DEF mqtt_tcpclient_recv
<1>3. PICK n \in 1..MaxSegment : segment \in [1..n -> Received]
  BY DEF Segments
<1>4. Len(segment) \in Nat
  BY <1>3, ClientAssumption
<1>5. queue' \in ConnectedCb(queue) \cup Processed(queue, segment) \cup {queue}
  BY DEF mqtt_tcpclient_recv
<1>6. queue' \in Room
  BY <1>1, <1>4, <1>5, ConnectedFits, ProcessedFits
<1> QED
  BY <1>2, <1>6 DEF QueueOK, Room

LEMMA SensorQueue ==
  ASSUME QueueOK, light_sensor_tick
  PROVE  QueueOK'
<1>1. queue \in Room
  BY QueueIs
<1>2. \A qs \in SUBSET Room : Reported(qs) \subseteq Room
  BY PublishFits, PacketsQueued DEF Reported
<1> DEFINE one == Reported({queue})
           two == Reported(one)
<1>3. one \subseteq Room
  BY <1>1, <1>2
<1>4. two \subseteq Room
  BY <1>2, <1>3
<1>5. Reported(two) \subseteq Room
  BY <1>2, <1>4
<1>6. /\ pending' = pending
      /\ queue' \in one \cup two \cup Reported(two) \cup {queue}
  BY DEF light_sensor_tick
<1>7. queue' \in Room
  <2> HIDE DEF one, two
  <2> QED
    BY <1>1, <1>3, <1>4, <1>5, <1>6
<1> QED
  BY <1>6, <1>7 DEF QueueOK, Room

LEMMA TaskQueue ==
  ASSUME QueueOK, ClientOK, SdkOK, MQTT_Task
  PROVE  QueueOK'
<1>1. queue \in Room
  BY QueueIs
<1>2. CASE TaskSends
  <2>1. queue # <<>> /\ queue' = Tail(queue) /\ pending' = Head(queue)
    BY <1>2 DEF TaskSends
  <2>2. queue \in Seq(Queued) /\ Len(queue) <= QueueCap /\ QueueCap \in Nat
    BY ClientAssumption DEF QueueOK
  <2>3. Head(queue) \in Queued /\ Tail(queue) \in Seq(Queued)
    BY <2>1, <2>2
  <2>4. Len(Tail(queue)) <= QueueCap
    BY <2>1, <2>2
  <2> QED
    BY <2>1, <2>3, <2>4 DEF QueueOK
<1>3. CASE TaskPings
  BY <1>3 DEF TaskPings, QueueOK
<1>4. CASE TaskReconnects
  BY <1>4, ConnectSteps DEF TaskReconnects, QueueOK
<1>5. CASE TaskDisconnects \/ TaskReleases \/ TaskIdles
  BY <1>5 DEF TaskDisconnects, TaskReleases, TaskIdles, QueueOK
<1> QED
  BY <1>2, <1>3, <1>4, <1>5 DEF MQTT_Task

LEMMA OtherQueue ==
  ASSUME QueueOK, ClientOK, SdkOK,
         \/ Failures \/ mqtt_timer
         \/ \E c \in Conns : \/ mqtt_dns_found(c)
                             \/ mqtt_tcpclient_connect_cb(c)
                             \/ mqtt_tcpclient_sent_cb(c)
         \/ WifiDisconnected \/ SntpAnswer \/ user_check_sntp_stamp
         \/ UNCHANGED vars
  PROVE  QueueOK'
<1>1. UNCHANGED queue /\ pending' \in {pending, "CONNECT"}
  <2>1. CASE Failures
    BY <2>1 DEF Failures, DnsFails, DnsFaults, mqtt_tcpclient_recon_cb,
                mqtt_tcpclient_discon_cb, clientVars
  <2>2. CASE mqtt_timer
    BY <2>2 DEF mqtt_timer
  <2>3. CASE \E c \in Conns : mqtt_dns_found(c) \/ mqtt_tcpclient_sent_cb(c)
    BY <2>3 DEF mqtt_dns_found, mqtt_tcpclient_sent_cb
  <2>4. CASE \E c \in Conns : mqtt_tcpclient_connect_cb(c)
    BY <2>4 DEF mqtt_tcpclient_connect_cb, Handshake
  <2>5. CASE WifiDisconnected \/ SntpAnswer \/ UNCHANGED vars
    BY <2>5 DEF WifiDisconnected, MQTT_Disconnect, SntpAnswer, vars, clientVars
  <2>6. CASE user_check_sntp_stamp
    BY <2>6, ConnectSteps DEF user_check_sntp_stamp
  <2> QED
    BY <2>1, <2>2, <2>3, <2>4, <2>5, <2>6
<1> QED
  BY <1>1 DEF QueueOK

LEMMA EmptiedQueue ==
  ASSUME QueueOK, GotIp \/ Reset
  PROVE  QueueOK'
<1>1. \/ UNCHANGED <<queue, pending>>
      \/ queue' = <<>> /\ pending' = "none"
  BY DEF GotIp, MQTT_Init, Reset, clientVars
<1> QED
  BY <1>1, EmptyFits DEF QueueOK, Room

LEMMA NextQueue == IInv /\ QueueOK /\ [Next]_vars => QueueOK'
<1> SUFFICES ASSUME IInv, QueueOK, [Next]_vars PROVE QueueOK'
  OBVIOUS
<1>1. ClientOK /\ SdkOK
  BY DEF IInv
<1>2. CASE ClientStep
  <2>1. CASE Answers
    BY <1>1, <2>1, RecvQueue, OtherQueue DEF Answers
  <2> QED
    BY <1>1, <1>2, <2>1, OtherQueue, TaskQueue, SensorQueue DEF ClientStep
<1> QED
  BY <1>1, <1>2, OtherQueue, EmptiedQueue DEF Next

(* Every variable keeps its type: the ticks of mqtt_timer (mqtt.c:389) stay *)
(* within their limits, and msgQueue within its room, whatever MQTT_Publish *)
(* drops from it (mqtt.c:523) and however many messages a segment holds.    *)
THEOREM EveryStateTyped == Spec => []TypeOK
<1>1. Init => QueueOK
  BY EmptyFits DEF Init, ClientInit, QueueOK, Room
<1>2. IInv /\ QueueOK => TypeOK
  BY DEF IInv, TypeOK
<1> QED
  BY <1>1, <1>2, InitIInv, NextIInv, NextQueue, PTL DEF Spec
=============================================================================
