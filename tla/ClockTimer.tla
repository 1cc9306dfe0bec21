----------------------------- MODULE ClockTimer -----------------------------
(***************************************************************************)
(* src/clock_timer.c: the time, the moving dot, and the bytes of the       *)
(* display.  seconds_tick runs four times a second; clock_timer_display    *)
(* stores the bytes one at a time (digits points to bytes, which may alias *)
(* anything, so the compiler keeps the stores in order), and the display   *)
(* interrupt sees the array between any two of them.  The timers' callbacks*)
(* and sys_init_cb do not interrupt one another.                           *)
(***************************************************************************)
EXTENDS Integers

CONSTANTS Hours, Minutes, Seconds,  \* 24, 60 and 60
          FirstTimes  \* the quarters of the day in which SNTP may first answer

ASSUME TimeAssumption ==
  /\ Hours \in 1..100 /\ Minutes \in 1..100  \* two digits show them
  /\ Seconds \in Nat \ {0}
  /\ FirstTimes \subseteq 0..4 * Hours * Minutes * Seconds - 1

DISPLAY_DIGIT_MAX == 4
Digit == 0..DISPLAY_DIGIT_MAX-1

\* A byte of the display: which segments of lcd_seg are lit (10: none, 0xff),
\* the dot's bit, and whether all bits were flipped.  os_malloc leaves Garbage.
Blank == 10
Pattern(glyph, dot) == [glyph |-> glyph, dot |-> dot, inverted |-> FALSE]
Garbage == Pattern(11, FALSE)

VARIABLES
  clock_display_invert,
  tm,            \* my_clock_timer->tm: [hour, min, sec]
  dot_position,
  digits,
  next_store,    \* the store clock_timer_display makes next, Idle when it is done
  synced, now    \* history: SNTP has answered; the true time in quarter seconds

timeVars == <<tm, dot_position, synced, now>>
timerVars == <<clock_display_invert, timeVars, digits, next_store>>

Time == [hour : 0..Hours-1, min : 0..Minutes-1, sec : 0..Seconds-1]
Idle == 9
Writing == next_store < Idle

SecondOf(t) == (t.hour * Minutes + t.min) * Seconds + t.sec
SecondsPerDay == Hours * Minutes * Seconds

\* localtime of a number of seconds within the day
localtime(s) ==
  [hour |-> s \div (Minutes * Seconds),
   min |-> (s \div Seconds) % Minutes,
   sec |-> s % Seconds]

\* os_zalloc'ed, and clock_timer_init starts to write the first face.
TimerInit ==
  /\ clock_display_invert \in BOOLEAN
  /\ tm = [hour |-> 0, min |-> 0, sec |-> 0]
  /\ dot_position = 0
  /\ digits = [p \in Digit |-> Garbage]
  /\ next_store = 0
  /\ synced = FALSE /\ now = 0

\* Faulty variant of Carries: the unit runs one past its limit.
CarriesLate(n, limit) == n = limit

Carries(n, limit) == n + 1 = limit
Counted(n, limit) == IF Carries(n, limit) THEN 0 ELSE n + 1

\* Faulty variant of increment_second: a full hour leaves the minutes as they are.
increment_secondStuck(t) ==
  [sec |-> Counted(t.sec, Seconds),
   min |-> IF Carries(t.sec, Seconds) /\ ~Carries(t.min, Minutes) THEN t.min + 1 ELSE t.min,
   hour |-> IF Carries(t.sec, Seconds) /\ Carries(t.min, Minutes)
            THEN Counted(t.hour, Hours) ELSE t.hour]

increment_second(t) ==
  [sec |-> Counted(t.sec, Seconds),
   min |-> IF Carries(t.sec, Seconds) THEN Counted(t.min, Minutes) ELSE t.min,
   hour |-> IF Carries(t.sec, Seconds) /\ Carries(t.min, Minutes)
            THEN Counted(t.hour, Hours) ELSE t.hour]

\* The ten, the one of the hour and of the minute.
Glyph(t, p) ==
  CASE p = 0 -> IF t.hour \div 10 = 0 THEN Blank ELSE t.hour \div 10
    [] p = 1 -> t.hour % 10
    [] p = 2 -> t.min \div 10
    [] OTHER -> t.min % 10

\* Faulty variant of Stored: a digit's store spares the bits it does not need.
StoredPartly(n) ==
  CASE n \in Digit -> [digits EXCEPT ![n].glyph = Glyph(tm, n)]
    [] n = 4 -> [digits EXCEPT ![dot_position].dot = TRUE]
    [] OTHER -> [digits EXCEPT ![n - 5].inverted = ~@]

\* The n-th store of clock_timer_display: four digits, the dot, and with
\* clock_display_invert the four inversions.
Stored(n) ==
  CASE n \in Digit -> [digits EXCEPT ![n] = Pattern(Glyph(tm, n), FALSE)]
    [] n = 4 -> [digits EXCEPT ![dot_position].dot = TRUE]
    [] OTHER -> [digits EXCEPT ![n - 5].inverted = ~@]

clock_timer_display ==
  /\ Writing
  /\ digits' = Stored(next_store)
  /\ next_store' = IF next_store = 4 /\ ~clock_display_invert THEN Idle ELSE next_store + 1
  /\ UNCHANGED <<clock_display_invert, timeVars>>

\* Faulty variant of SecondIsOver: the dot leaves the display.
SecondIsOverLate == dot_position + 1 > DISPLAY_DIGIT_MAX

SecondIsOver == dot_position + 1 = DISPLAY_DIGIT_MAX

\* A quarter of a second has passed; the face is written by the steps that follow.
seconds_tick ==
  /\ ~Writing
  /\ IF SecondIsOver THEN dot_position' = 0 /\ tm' = increment_second(tm)
                     ELSE dot_position' = dot_position + 1 /\ UNCHANGED tm
  /\ now' = IF synced THEN (now + 1) % (4 * SecondsPerDay) ELSE now
  /\ next_store' = 0
  /\ UNCHANGED <<clock_display_invert, digits, synced>>

\* user_check_sntp_stamp (clock_update.c) copies the time of day into tm.  The
\* first answer finds some true time t; later ones find it where it has got to.
TrueTimes == IF synced THEN {now} ELSE FirstTimes

SetTime(t) ==
  /\ ~Writing
  /\ now' = t /\ synced' = TRUE
  /\ tm' = localtime(t \div 4)
  /\ UNCHANGED <<clock_display_invert, dot_position, digits, next_store>>

TimerNext ==
  \/ clock_timer_display
  \/ seconds_tick
  \/ \E t \in TrueTimes : SetTime(t)

TimerSpec == TimerInit /\ [][TimerNext]_timerVars
-----------------------------------------------------------------------------
TypeOK ==
  /\ clock_display_invert \in BOOLEAN
  /\ tm \in Time
  /\ dot_position \in Digit
  /\ digits \in [Digit -> [glyph : 0..11, dot : BOOLEAN, inverted : BOOLEAN]]
  /\ next_store \in 0..Idle
  /\ synced \in BOOLEAN /\ now \in 0..4 * SecondsPerDay - 1

Face(t, dot) ==
  [p \in Digit |-> [glyph |-> Glyph(t, p), dot |-> p = dot, inverted |-> clock_display_invert]]

\* When clock_timer_display is done the four bytes show the time, one dot and
\* one polarity, whatever the face before looked like (the stores, the &= of the
\* dot and the ^= of the inversion work on what earlier ones left).
FaceComplete ==
  [][Writing /\ next_store' = Idle => digits' = Face(tm, dot_position)]_timerVars

Quarters == 4 * SecondOf(tm) + dot_position

\* Two times of the day that are at most three quarter seconds apart.
Near(a, b) ==
  LET off == (a - b) % (4 * SecondsPerDay)
  IN off <= 3 \/ off >= 4 * SecondsPerDay - 3

\* Once set, the clock is less than a second away from the true time for ever:
\* setting it leaves the dot where it is, so up to three quarters of a second
\* remain (clock_update.c:92 copies tm and not dot_position).
Drift == synced => Near(Quarters, now)

Wall == INSTANCE WallClock WITH quarters <- Quarters

\* seconds_tick with its three carries counts quarter seconds through the day,
\* and a set time is the time of some second of a day.
ImplementsWallClock == Wall!WallSpec
=============================================================================
