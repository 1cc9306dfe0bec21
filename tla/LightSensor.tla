---------------------------- MODULE LightSensor -----------------------------
(***************************************************************************)
(* src/light_sensor.c and mqtt_data_cb of clock_update.c: who sets the     *)
(* brightness of the display.  The sensor sets it when the light changes   *)
(* and publishes it on BRIGHTNESS_TOPIC.  The clock is subscribed to that  *)
(* topic, so the broker sends every value back, in order with what users   *)
(* publish there, and mqtt_data_cb sets it once more when it comes.        *)
(***************************************************************************)
EXTENDS Integers, Sequences, SequencesExt

CONSTANTS AdcValues,   \* what system_adc_read returns
          BehindTable, \* the numbers the word behind pwm_level may hold
          UserValues,  \* the numbers users publish
          ReportCycle, \* 60, the ticks between two reports of the sensor's value
          MaxInFlight  \* bound on the messages on their way

light_level_max == 11
light_level_bounds == <<200, 300, 400, 500, 600, 700, 785, 830, 900, 990, 1023>>
pwm_level == <<32, 32, 32, 32, 32, 22, 16, 8, 6, 4, 2>>

\* A message on a topic the clock is not subscribed to: AMBIENT_LIGHT_TOPIC,
\* SENSOR_VALUE_TOPIC or OUTPUT_TOPIC.  One on BRIGHTNESS_TOPIC is its value.
Elsewhere == -1000

ASSUME SensorAssumption ==
  /\ AdcValues \subseteq Nat /\ AdcValues # {}
  /\ BehindTable \subseteq Int \ {Elsewhere} /\ BehindTable # {}
  /\ UserValues \subseteq Int \ {Elsewhere}
  /\ ReportCycle \in Nat \ {0} /\ MaxInFlight \in Nat

VARIABLES
  adc,                  \* the light that falls on the sensor
  current_light_level,  \* 0..light_level_max: an index of C's arrays
  cycle,
  clock_display_brightness,
  toBroker,    \* messages the clock has published
  fromBroker,  \* values on their way to the subscribed clock
  disturbed,   \* history: a user's or a lost message may decide the brightness
  quiet        \* the light has stopped changing and users have stopped publishing

vars == <<adc, current_light_level, cycle, clock_display_brightness, toBroker, fromBroker,
          disturbed, quiet>>

\* The brightness starts at 30, the level at 0, whose brightness is 32.
Init ==
  /\ adc \in AdcValues
  /\ current_light_level = 0 /\ cycle = 0
  /\ clock_display_brightness = 30
  /\ toBroker = <<>> /\ fromBroker = <<>>
  /\ disturbed = TRUE /\ quiet = FALSE

Bounds(i, value) == light_level_bounds[i + 1] >= value

map_adc_to_level(value) ==
  LET levels == {i \in 0..light_level_max-1 : Bounds(i, value)}
  IN IF levels = {} THEN light_level_max
     ELSE CHOOSE i \in levels : \A j \in levels : i <= j

Empty == toBroker = <<>> /\ fromBroker = <<>>

\* What pwm_level[level] may read: behind the array's end, whatever lies there.
PwmLevel(level) == IF level < Len(pwm_level) THEN {pwm_level[level + 1]} ELSE BehindTable

\* Faulty variant of Announced: the level is published in place of the brightness.
AnnouncedLevel(level, brightness) == <<Elsewhere, level>>

Announced(level, brightness) == <<Elsewhere, brightness>>

light_sensor_tick ==
  LET level == map_adc_to_level(adc)
      changed == level # current_light_level
      reports == cycle + 1 = ReportCycle
  IN /\ current_light_level' = level
     /\ \E brightness \in PwmLevel(level) :
          /\ clock_display_brightness' =
               IF changed THEN brightness ELSE clock_display_brightness
          /\ toBroker' =
               toBroker \o (IF changed THEN Announced(level, brightness) ELSE <<>>)
                        \o (IF reports THEN <<Elsewhere>> ELSE <<>>)
     /\ cycle' = IF reports THEN 0 ELSE cycle + 1
     /\ Len(toBroker') + Len(fromBroker) <= MaxInFlight
     /\ disturbed' = (disturbed /\ ~(changed /\ Empty))
     /\ UNCHANGED <<adc, fromBroker, quiet>>

\* Faulty variant of Logged: the answer goes out on the topic it came in on.
LoggedBack(value) == <<value>>

Logged(value) == <<Elsewhere>>

\* A message on BRIGHTNESS_TOPIC, the only topic the clock is subscribed to.
mqtt_data_cb ==
  /\ fromBroker # <<>>
  /\ clock_display_brightness' = Head(fromBroker)
  /\ fromBroker' = Tail(fromBroker)
  /\ toBroker' = toBroker \o Logged(Head(fromBroker))
  /\ UNCHANGED <<adc, current_light_level, cycle, disturbed, quiet>>

\* The broker passes the oldest message on to its subscribers.
BrokerForwards ==
  /\ toBroker # <<>>
  /\ toBroker' = Tail(toBroker)
  /\ fromBroker' = IF Head(toBroker) = Elsewhere THEN fromBroker
                   ELSE Append(fromBroker, Head(toBroker))
  /\ UNCHANGED <<adc, current_light_level, cycle, clock_display_brightness, disturbed, quiet>>

UserPublishes ==
  /\ ~quiet /\ Len(toBroker) + Len(fromBroker) < MaxInFlight
  /\ \E value \in UserValues : fromBroker' = Append(fromBroker, value)
  /\ disturbed' = TRUE
  /\ UNCHANGED <<adc, current_light_level, cycle, clock_display_brightness, toBroker, quiet>>

\* The outbound queue throws a packet away, or a connection breaks: QoS 0.
MessageLost ==
  /\ \/ \E i \in DOMAIN toBroker :
          /\ toBroker' = RemoveAt(toBroker, i)
          /\ disturbed' = (disturbed \/ toBroker[i] # Elsewhere)
          /\ UNCHANGED fromBroker
     \/ \E i \in DOMAIN fromBroker :
          /\ fromBroker' = RemoveAt(fromBroker, i)
          /\ disturbed' = TRUE
          /\ UNCHANGED toBroker
  /\ UNCHANGED <<adc, current_light_level, cycle, clock_display_brightness, quiet>>

LightChanges ==
  /\ ~quiet
  /\ adc' \in AdcValues
  /\ UNCHANGED <<current_light_level, cycle, clock_display_brightness, toBroker, fromBroker,
                 disturbed, quiet>>

CalmsDown ==
  /\ ~quiet /\ quiet' = TRUE
  /\ UNCHANGED <<adc, current_light_level, cycle, clock_display_brightness, toBroker, fromBroker,
                 disturbed>>

Next ==
  \/ light_sensor_tick \/ mqtt_data_cb \/ BrokerForwards
  \/ UserPublishes \/ MessageLost \/ LightChanges \/ CalmsDown

\* The sensor's timer is periodic (strong, because MaxInFlight may hold it up),
\* and messages that are not lost arrive.
Spec ==
  /\ Init /\ [][Next]_vars
  /\ SF_vars(light_sensor_tick) /\ WF_vars(mqtt_data_cb) /\ WF_vars(BrokerForwards)
-----------------------------------------------------------------------------
\* b is the brightness the display ends up with if nothing new is sent: the last
\* value on its way to the clock or, with none, the one in use.
NewestIs(b) ==
  LET way == fromBroker \o toBroker
  IN \/ \E i \in DOMAIN way :
          /\ way[i] = b /\ b # Elsewhere
          /\ \A j \in i+1..Len(way) : way[j] = Elsewhere
     \/ /\ clock_display_brightness = b
        /\ \A i \in DOMAIN way : way[i] = Elsewhere

\* Unless users or losses decide the brightness, the newest one, on its way or in
\* use, is one that pwm_level gives for the sensor's level, whatever older values of
\* the clock's own are still coming back (light_sensor_tick sets and publishes it,
\* mqtt_data_cb sets what returns).
NewestFollowsLight ==
  ~disturbed => \E b \in PwmLevel(current_light_level) : NewestIs(b)

\* After the light has settled the display comes to stay at the brightness of
\* that light: values the clock set before and gets back late may override a
\* newer one for a while, but not for good, and a number read behind the end of
\* pwm_level (45) goes with the sensor value that led there.  Nothing is promised
\* after a user's message, nor when a message on the topic was lost
\* (light_sensor.c:49-52 and clock_update.c:175-177 set the same variable).
LightFollowed ==
  quiet ~> [](disturbed \/ clock_display_brightness \in PwmLevel(map_adc_to_level(adc)))

\* The clock answers a value that comes back with a log message only: the echo
\* does not feed itself, and after the last change no brightness stays on its way.
EchoesEnd ==
  quiet ~> [](fromBroker = <<>> /\ \A i \in DOMAIN toBroker : toBroker[i] = Elsewhere)
=============================================================================
