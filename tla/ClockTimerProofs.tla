-------------------------- MODULE ClockTimerProofs ---------------------------
(***************************************************************************)
(* Proofs about ClockTimer for every length of day, hour and minute: the   *)
(* three carries of increment_second count seconds through the day, a set  *)
(* clock stays within a second of the true time, and each face is complete *)
(* when its last byte is stored.                                           *)
(***************************************************************************)
EXTENDS ClockTimer, TLAPS

-----------------------------------------------------------------------------
(* Arithmetic.  Products of unknowns are beyond the provers unless each    *)
(* is met in a step of its own.                                            *)

LEMMA DivMod ==
  ASSUME NEW a \in Nat, NEW b \in Nat \ {0}
  PROVE  a \div b \in Nat /\ a % b \in 0..b-1 /\ a = (a \div b) * b + (a % b)
OBVIOUS

LEMMA DivUnique ==
  ASSUME NEW q \in Nat, NEW b \in Nat \ {0}, NEW r \in 0..b-1
  PROVE  (q * b + r) \div b = q
OBVIOUS

LEMMA ProductBound ==
  ASSUME NEW m \in Nat, NEW a \in Nat, NEW b \in Nat, m <= a
  PROVE  m * b \in Nat /\ m * b <= a * b
OBVIOUS

\* (a, b) as one number in base b: it stays below the product.
LEMMA PairBound ==
  ASSUME NEW A \in Nat \ {0}, NEW B \in Nat \ {0}, NEW a \in 0..A-1, NEW b \in 0..B-1
  PROVE  a * B + b \in 0..A * B - 1
<1>1. a * B \in Nat /\ a * B <= (A - 1) * B
  BY ProductBound
<1>2. (A - 1) * B = A * B - B
  OBVIOUS
<1> QED BY <1>1, <1>2

SPD == SecondsPerDay

Day4 == 4 * SecondsPerDay

LEMMA Day == SPD \in Nat \ {0} /\ Hours * Minutes \in Nat \ {0} /\ SPD = Hours * Minutes * Seconds
<1>1. Hours * Minutes \in Nat \ {0}
  BY TimeAssumption
<1> QED BY <1>1, TimeAssumption DEF SPD, SecondsPerDay

-----------------------------------------------------------------------------
(* The time of day as a number.                                            *)

LEMMA SecondInRange ==
  ASSUME NEW t \in Time
  PROVE  SecondOf(t) \in 0..SPD-1
<1>1. t.hour \in 0..Hours-1 /\ t.min \in 0..Minutes-1 /\ t.sec \in 0..Seconds-1
  BY DEF Time
<1>2. t.hour * Minutes + t.min \in 0..Hours * Minutes - 1
  BY <1>1, TimeAssumption, PairBound
<1>3. (t.hour * Minutes + t.min) * Seconds + t.sec \in 0..(Hours * Minutes) * Seconds - 1
  BY <1>1, <1>2, TimeAssumption, Day, PairBound
<1> QED BY <1>3, Day DEF SecondOf

\* localtime is the inverse of SecondOf.
LEMMA LocaltimeInverts ==
  ASSUME NEW s \in 0..SPD-1
  PROVE  localtime(s) \in Time /\ SecondOf(localtime(s)) = s
<1> DEFINE q == s \div Seconds
           r == s % Seconds
           h == q \div Minutes
           m == q % Minutes
<1>1. s \in Nat /\ s < SPD /\ Seconds \in Nat \ {0} /\ Minutes \in Nat \ {0}
  BY TimeAssumption, Day
<1>2. q \in Nat /\ r \in 0..Seconds-1 /\ s = q * Seconds + r
  BY ONLY <1>1, DivMod
<1>3. h \in Nat /\ m \in 0..Minutes-1 /\ q = h * Minutes + m
  <2> HIDE DEF q
  <2> QED BY ONLY <1>1, <1>2, DivMod
<1> HIDE DEF q, r, h, m
<1>4. m * Seconds + r \in 0..Minutes * Seconds - 1
  BY <1>1, <1>2, <1>3, PairBound
<1>5. Minutes * Seconds \in Nat \ {0}
  BY <1>1
<1>6. s = h * (Minutes * Seconds) + (m * Seconds + r)
  <2>1. (h * Minutes + m) * Seconds = h * (Minutes * Seconds) + m * Seconds
    BY <1>1, <1>3
  <2>2. m * Seconds \in Nat /\ h * (Minutes * Seconds) \in Nat
    BY <1>1, <1>3, <1>5
  <2> QED BY <1>2, <1>3, <2>1, <2>2
<1>7. s \div (Minutes * Seconds) = h
  BY <1>3, <1>4, <1>5, <1>6, DivUnique
<1>8. h < Hours
  <2>1. SUFFICES ASSUME h >= Hours PROVE FALSE
    BY <1>3, TimeAssumption
  <2>2. Hours * (Minutes * Seconds) <= h * (Minutes * Seconds)
    BY <1>3, <1>5, <2>1, TimeAssumption, ProductBound
  <2>3. Hours * (Minutes * Seconds) = SPD
    BY TimeAssumption, Day
  <2>4. h * (Minutes * Seconds) <= s
    BY <1>3, <1>4, <1>5, <1>6
  <2> QED BY <1>1, <1>3, <1>5, <2>2, <2>3, <2>4, Day
<1>9. localtime(s) = [hour |-> h, min |-> m, sec |-> r]
  BY <1>7 DEF localtime, q, r, m
<1>10. h \in 0..Hours-1
  BY <1>3, <1>8, TimeAssumption
<1>11. SecondOf(localtime(s)) = s
  BY <1>2, <1>3, <1>9 DEF SecondOf
<1> QED BY <1>2, <1>3, <1>9, <1>10, <1>11 DEF Time

\* The three carries together add one second, modulo the day.
LEMMA IncrementCounts ==
  ASSUME NEW t \in Time
  PROVE  /\ increment_second(t) \in Time
         /\ SecondOf(increment_second(t)) = IF SecondOf(t) + 1 = SPD THEN 0 ELSE SecondOf(t) + 1
<1> DEFINE h == t.hour
           m == t.min
           s == t.sec
           u == increment_second(t)
<1> USE TimeAssumption, Day
<1>1. h \in 0..Hours-1 /\ m \in 0..Minutes-1 /\ s \in 0..Seconds-1
  BY DEF Time
<1>2. SecondOf(t) = (h * Minutes + m) * Seconds + s /\ SecondOf(t) \in 0..SPD-1
  BY SecondInRange DEF SecondOf
<1>3. u \in Time
  BY <1>1 DEF increment_second, Counted, Carries, Time
<1>4. CASE s + 1 # Seconds
  <2>1. u = [hour |-> h, min |-> m, sec |-> s + 1]
    BY <1>1, <1>4 DEF increment_second, Counted, Carries
  <2>2. (h * Minutes + m) * Seconds \in Nat
    BY <1>1
  <2>3. SecondOf(u) = SecondOf(t) + 1
    BY <1>1, <1>2, <2>1, <2>2 DEF SecondOf
  <2>4. SecondOf(u) \in 0..SPD-1
    BY <1>3, SecondInRange
  <2> QED BY <1>2, <1>3, <2>3, <2>4
<1>5. CASE s + 1 = Seconds /\ m + 1 # Minutes
  <2>1. u = [hour |-> h, min |-> m + 1, sec |-> 0]
    BY <1>1, <1>5 DEF increment_second, Counted, Carries
  <2>2. (h * Minutes + (m + 1)) * Seconds = (h * Minutes + m) * Seconds + Seconds
    BY <1>1
  <2>3. (h * Minutes + m) * Seconds \in Nat
    BY <1>1
  <2>4. SecondOf(u) = SecondOf(t) + 1
    BY <1>1, <1>2, <1>5, <2>1, <2>2, <2>3 DEF SecondOf
  <2>5. SecondOf(u) \in 0..SPD-1
    BY <1>3, SecondInRange
  <2> QED BY <1>2, <1>3, <2>4, <2>5
<1>6. CASE s + 1 = Seconds /\ m + 1 = Minutes /\ h + 1 # Hours
  <2>1. u = [hour |-> h + 1, min |-> 0, sec |-> 0]
    BY <1>1, <1>6 DEF increment_second, Counted, Carries
  <2>2. (h + 1) * Minutes = (h * Minutes + m) + 1
    BY <1>1, <1>6
  <2>3. ((h * Minutes + m) + 1) * Seconds = (h * Minutes + m) * Seconds + Seconds
    BY <1>1
  <2>4. (h * Minutes + m) * Seconds \in Nat
    BY <1>1
  <2>5. SecondOf(u) = ((h + 1) * Minutes + 0) * Seconds + 0
    BY <2>1 DEF SecondOf
  <2>6. SecondOf(u) = SecondOf(t) + 1
    BY <1>1, <1>2, <1>6, <2>2, <2>3, <2>4, <2>5
  <2>7. SecondOf(u) \in 0..SPD-1
    BY <1>3, SecondInRange
  <2> QED BY <1>2, <1>3, <2>6, <2>7
<1>7. CASE s + 1 = Seconds /\ m + 1 = Minutes /\ h + 1 = Hours
  <2>1. u = [hour |-> 0, min |-> 0, sec |-> 0]
    BY <1>1, <1>7 DEF increment_second, Counted, Carries
  <2>2. SecondOf(u) = 0
    BY <2>1 DEF SecondOf
  <2>3. h * Minutes + m = Hours * Minutes - 1
    BY <1>1, <1>7
  <2>4. (Hours * Minutes - 1) * Seconds = Hours * Minutes * Seconds - Seconds
    OBVIOUS
  <2>5. SecondOf(t) + 1 = SPD
    BY <1>1, <1>2, <1>7, <2>3, <2>4
  <2> QED BY <1>3, <2>2, <2>5
<1> QED BY <1>1, <1>4, <1>5, <1>6, <1>7

-----------------------------------------------------------------------------
(* Quarter seconds: what the dot adds to the time.                         *)

LEMMA DayQuarters == SPD \in Nat \ {0} /\ Day4 = 4 * SPD /\ Day4 \in Nat \ {0}
  BY Day DEF Day4, SPD

LEMMA QuartersInRange == TypeOK => Quarters \in 0..Day4-1 /\ now \in 0..Day4-1
  BY SecondInRange, DayQuarters DEF TypeOK, Digit, DISPLAY_DIGIT_MAX, Quarters, Day4

\* seconds_tick adds a quarter, modulo the day.
LEMMA TickCounts ==
  ASSUME TypeOK, seconds_tick
  PROVE  /\ tm' \in Time /\ dot_position' \in Digit
         /\ Quarters' = IF Quarters + 1 = Day4 THEN 0 ELSE Quarters + 1
<1>1. tm \in Time /\ dot_position \in 0..3 /\ SecondOf(tm) \in 0..SPD-1
  BY SecondInRange DEF TypeOK, Digit, DISPLAY_DIGIT_MAX
<1>2. CASE SecondIsOver
  <2>1. dot_position = 3 /\ dot_position' = 0 /\ tm' = increment_second(tm)
    BY <1>1, <1>2 DEF seconds_tick, SecondIsOver, DISPLAY_DIGIT_MAX
  <2>2. /\ increment_second(tm) \in Time
        /\ SecondOf(increment_second(tm)) = IF SecondOf(tm) + 1 = SPD THEN 0 ELSE SecondOf(tm) + 1
    BY <1>1, IncrementCounts
  <2>3. Quarters' = 4 * SecondOf(increment_second(tm)) + 0
    BY <2>1 DEF Quarters
  <2> QED BY <1>1, <2>1, <2>2, <2>3, DayQuarters DEF Quarters, Digit, DISPLAY_DIGIT_MAX
<1>3. CASE ~SecondIsOver
  <2>1. dot_position < 3 /\ dot_position' = dot_position + 1 /\ tm' = tm
    BY <1>1, <1>3 DEF seconds_tick, SecondIsOver, DISPLAY_DIGIT_MAX
  <2> QED BY <1>1, <2>1, DayQuarters DEF Quarters, Digit, DISPLAY_DIGIT_MAX
<1> QED BY <1>2, <1>3

\* Setting the clock keeps the quarter of the second.
LEMMA SetCounts ==
  ASSUME TypeOK, NEW t \in 0..Day4-1, SetTime(t)
  PROVE  /\ tm' \in Time /\ dot_position' = dot_position
         /\ Quarters' = 4 * (t \div 4) + dot_position
<1>1. t \div 4 \in 0..SPD-1
  BY DayQuarters
<1>2. tm' = localtime(t \div 4) /\ dot_position' = dot_position
  BY DEF SetTime
<1> QED BY <1>1, <1>2, LocaltimeInverts DEF Quarters

LEMMA TimesInRange == TypeOK => TrueTimes \subseteq 0..Day4-1
  BY TimeAssumption, Day DEF TrueTimes, TypeOK, Day4, SPD, SecondsPerDay

-----------------------------------------------------------------------------
(* Type correctness.                                                       *)

LEMMA GlyphType ==
  ASSUME NEW t \in Time, NEW p \in Digit
  PROVE  Glyph(t, p) \in 0..11
  BY TimeAssumption DEF Glyph, Time, Digit, DISPLAY_DIGIT_MAX, Blank

Byte == [glyph : 0..11, dot : BOOLEAN, inverted : BOOLEAN]

LEMMA StoredType ==
  ASSUME TypeOK, Writing
  PROVE  Stored(next_store) \in [Digit -> Byte]
<1>1. digits \in [Digit -> Byte] /\ tm \in Time /\ next_store \in 0..8
  BY DEF TypeOK, Byte, Writing, Idle
<1>2. CASE next_store \in Digit
  <2>1. Pattern(Glyph(tm, next_store), FALSE) \in Byte
    BY <1>1, <1>2, GlyphType DEF Pattern, Byte
  <2>2. Stored(next_store) = [digits EXCEPT ![next_store] = Pattern(Glyph(tm, next_store), FALSE)]
    BY <1>2 DEF Stored, Digit, DISPLAY_DIGIT_MAX
  <2> QED BY <1>1, <1>2, <2>1, <2>2
<1>3. CASE next_store = 4
  <2>1. Stored(next_store) = [digits EXCEPT ![dot_position].dot = TRUE]
    BY <1>3 DEF Stored, Digit, DISPLAY_DIGIT_MAX
  <2>2. dot_position \in Digit
    BY DEF TypeOK
  <2>3. [digits[dot_position] EXCEPT !.dot = TRUE] \in Byte
    BY <1>1, <2>2 DEF Byte
  <2> QED BY <1>1, <2>1, <2>2, <2>3
<1>4. CASE next_store \in 5..8
  <2>1. next_store - 5 \in Digit
    BY <1>4 DEF Digit, DISPLAY_DIGIT_MAX
  <2>2. Stored(next_store)
          = [digits EXCEPT ![next_store - 5].inverted = ~digits[next_store - 5].inverted]
    BY <1>4 DEF Stored, Digit, DISPLAY_DIGIT_MAX
  <2>3. [digits[next_store - 5] EXCEPT !.inverted = ~digits[next_store - 5].inverted] \in Byte
    BY <1>1, <2>1 DEF Byte
  <2> QED BY <1>1, <2>1, <2>2, <2>3
<1> QED BY <1>1, <1>2, <1>3, <1>4 DEF Digit, DISPLAY_DIGIT_MAX

LEMMA InitTyped == TimerInit => TypeOK
<1> SUFFICES ASSUME TimerInit PROVE TypeOK
  OBVIOUS
<1>1. tm \in Time
  BY TimeAssumption DEF TimerInit, Time
<1>2. Garbage \in Byte
  BY DEF Garbage, Pattern, Byte
<1>3. 0 \in 0..4 * SecondsPerDay - 1
  BY Day DEF SPD
<1>4. digits \in [Digit -> Byte]
  BY <1>2 DEF TimerInit
<1>5. dot_position \in Digit /\ next_store \in 0..Idle
  BY DEF TimerInit, Digit, DISPLAY_DIGIT_MAX, Idle
<1> QED BY <1>1, <1>3, <1>4, <1>5 DEF TimerInit, TypeOK, Byte

LEMMA NextTyped == TypeOK /\ [TimerNext]_timerVars => TypeOK'
<1> SUFFICES ASSUME TypeOK, [TimerNext]_timerVars PROVE TypeOK'
  OBVIOUS
<1>1. ASSUME clock_timer_display PROVE TypeOK'
  <2>1. digits' \in [Digit -> Byte]
    BY <1>1, StoredType DEF clock_timer_display
  <2>2. next_store' \in 0..Idle
    BY <1>1 DEF clock_timer_display, TypeOK, Writing, Idle
  <2> QED BY <1>1, <2>1, <2>2 DEF clock_timer_display, TypeOK, Byte, timeVars
<1>2. ASSUME seconds_tick PROVE TypeOK'
  <2>1. now' \in 0..4 * SecondsPerDay - 1
    BY <1>2, Day DEF seconds_tick, TypeOK, SPD
  <2> QED BY <1>2, <2>1, TickCounts DEF seconds_tick, TypeOK, Idle
<1>3. ASSUME NEW t \in TrueTimes, SetTime(t) PROVE TypeOK'
  <2>1. t \in 0..Day4-1
    BY TimesInRange
  <2> QED BY <1>3, <2>1, SetCounts DEF SetTime, TypeOK, Day4
<1>4. CASE UNCHANGED timerVars
  BY <1>4 DEF timerVars, timeVars, TypeOK
<1> QED BY <1>1, <1>2, <1>3, <1>4 DEF TimerNext

\* tm never leaves the times of a day, whatever SNTP sets it to and whenever: the
\* carries compare with == (clock_timer.c:12-16) and would run past a value out of
\* range.
THEOREM TimeStaysInRange == TimerSpec => []TypeOK
  BY InitTyped, NextTyped, PTL DEF TimerSpec

-----------------------------------------------------------------------------
(* A set clock and the true time advance together.                         *)

LEMMA ModUnique ==
  ASSUME NEW n \in Nat \ {0}, NEW q \in Int, NEW r \in 0..n-1
  PROVE  (q * n + r) % n = r
OBVIOUS

LEMMA ModDifference ==
  ASSUME NEW n \in Nat \ {0}, NEW a \in 0..n-1, NEW b \in 0..n-1
  PROVE  (a - b) % n = IF a >= b THEN a - b ELSE a - b + n
<1>1. CASE a >= b
  BY <1>1
<1>2. CASE a < b
  <2>1. ((-1) * n + (a - b + n)) % n = a - b + n
    BY <1>2, ModUnique
  <2>2. (-1) * n + (a - b + n) = a - b
    OBVIOUS
  <2> QED BY <1>2, <2>1, <2>2
<1> QED BY <1>1, <1>2

LEMMA NearMeans ==
  ASSUME NEW a \in 0..Day4-1, NEW b \in 0..Day4-1
  PROVE  Near(a, b) <=> (\/ /\ a >= b
                            /\ a - b <= 3 \/ a - b >= Day4 - 3
                         \/ /\ a < b
                            /\ a - b + Day4 <= 3 \/ b - a <= 3)
<1>1. Day4 \in Nat \ {0} /\ (a - b) % Day4 = IF a >= b THEN a - b ELSE a - b + Day4
  BY DayQuarters, ModDifference
<1>2. Near(a, b) <=> ((a - b) % Day4 <= 3 \/ (a - b) % Day4 >= Day4 - 3)
  BY Zenon DEF Near, Day4
<1> QED BY <1>1, <1>2

LEMMA NearOnward ==
  ASSUME NEW a \in 0..Day4-1, NEW b \in 0..Day4-1, Near(a, b)
  PROVE  Near(IF a + 1 = Day4 THEN 0 ELSE a + 1, IF b + 1 = Day4 THEN 0 ELSE b + 1)
<1>1. Day4 \in Nat /\ Day4 >= 4
  BY DayQuarters
<1>2. /\ (IF a + 1 = Day4 THEN 0 ELSE a + 1) \in 0..Day4-1
      /\ (IF b + 1 = Day4 THEN 0 ELSE b + 1) \in 0..Day4-1
  BY <1>1
<1> QED BY <1>1, <1>2, NearMeans

LEMMA NearOnSet ==
  ASSUME NEW t \in 0..Day4-1, NEW d \in 0..3
  PROVE  Near(4 * (t \div 4) + d, t)
<1>1. Day4 = 4 * SPD /\ SPD \in Nat \ {0}
  BY DayQuarters
<1>2. t \in Nat /\ 4 * (t \div 4) + d \in 0..Day4-1
  BY <1>1
<1>3. t - (4 * (t \div 4) + d) \in -3..3
  BY <1>2
<1> QED BY <1>1, <1>2, <1>3, NearMeans

\* Once set, the clock stays within three quarter seconds of the true time.
THEOREM ClockKeepsTime == TimerSpec => []Drift
<1>1. TimerInit => Drift
  BY DEF TimerInit, Drift
<1>2. TypeOK /\ Drift /\ [TimerNext]_timerVars => Drift'
  <2> SUFFICES ASSUME TypeOK, Drift, [TimerNext]_timerVars PROVE Drift'
    OBVIOUS
  <2>1. SUFFICES (synced => Near(Quarters, now))'
    BY DEF Drift
  <2>2. Quarters \in 0..Day4-1 /\ now \in 0..Day4-1
    BY QuartersInRange
  <2>3. synced => Near(Quarters, now)
    BY DEF Drift
  <2>4. ASSUME clock_timer_display PROVE (synced => Near(Quarters, now))'
    BY <2>3, <2>4 DEF clock_timer_display, timeVars, Quarters, Near
  <2>5. ASSUME seconds_tick PROVE (synced => Near(Quarters, now))'
    <3>1. SUFFICES ASSUME synced PROVE Near(Quarters', now')
      BY <2>5 DEF seconds_tick, Near
    <3>2. now' = IF now + 1 = Day4 THEN 0 ELSE now + 1
      BY <2>2, <2>5, <3>1, Day DEF seconds_tick, Day4, SPD
    <3> QED BY <2>2, <2>3, <2>5, <3>1, <3>2, TickCounts, NearOnward
  <2>6. ASSUME NEW t \in TrueTimes, SetTime(t) PROVE (synced => Near(Quarters, now))'
    <3>1. t \in 0..Day4-1 /\ dot_position \in 0..3
      BY TimesInRange DEF TypeOK, Digit, DISPLAY_DIGIT_MAX
    <3>2. Quarters' = 4 * (t \div 4) + dot_position /\ now' = t
      BY <2>6, <3>1, SetCounts DEF SetTime
    <3>3. Near(Quarters', now')
      BY <3>1, <3>2, NearOnSet
    <3> QED BY <3>3 DEF Near
  <2>7. CASE UNCHANGED timerVars
    BY <2>3, <2>7 DEF timerVars, timeVars, Quarters, Near
  <2> QED BY <2>4, <2>5, <2>6, <2>7 DEF TimerNext
<1> QED BY <1>1, <1>2, TimeStaysInRange, PTL DEF TimerSpec

-----------------------------------------------------------------------------
(* The clock timer implements the clock that counts quarter seconds.       *)

LEMMA TickIsModular ==
  ASSUME NEW a \in 0..Day4-1
  PROVE  (IF a + 1 = Day4 THEN 0 ELSE a + 1) = (a + 1) % Day4
<1>1. Day4 \in Nat \ {0}
  BY DayQuarters
<1>2. CASE a + 1 = Day4
  BY <1>1, <1>2
<1>3. CASE a + 1 # Day4
  BY <1>1, <1>3
<1> QED BY <1>2, <1>3

\* Every step of clock_timer.c counts a quarter second, sets the clock, or
\* leaves the time alone.
THEOREM TimerImplementsWallClock == TimerSpec => ImplementsWallClock
<1>1. TimerInit => Wall!WallInit
  BY TimeAssumption DEF TimerInit, Wall!WallInit, Quarters, SecondOf
<1>2. TypeOK /\ [TimerNext]_timerVars => [Wall!Tick \/ Wall!Set]_Quarters
  <2> SUFFICES ASSUME TypeOK, [TimerNext]_timerVars
               PROVE  [Wall!Tick \/ Wall!Set]_Quarters
    OBVIOUS
  <2>1. Quarters \in 0..Day4-1
    BY QuartersInRange
  <2>2. ASSUME clock_timer_display PROVE UNCHANGED Quarters
    BY <2>2 DEF clock_timer_display, timeVars, Quarters
  <2>3. ASSUME seconds_tick PROVE Wall!Tick
    <3>1. Quarters' = (Quarters + 1) % Day4
      BY <2>1, <2>3, TickCounts, TickIsModular
    <3> QED BY <3>1 DEF Wall!Tick, Day4
  <2>4. ASSUME NEW t \in TrueTimes, SetTime(t) PROVE Wall!Set
    <3>1. t \in 0..Day4-1 /\ dot_position \in 0..3 /\ SecondOf(tm) \in Nat
      BY TimesInRange, SecondInRange, DayQuarters DEF TypeOK, Digit, DISPLAY_DIGIT_MAX
    <3>2. Quarters' = 4 * (t \div 4) + dot_position
      BY <2>4, <3>1, SetCounts
    <3>3. Quarters' \in 0..Day4-1
      BY <3>1, <3>2, DayQuarters
    <3>4. Quarters' % 4 = dot_position /\ Quarters % 4 = dot_position
      BY <3>1, <3>2 DEF Quarters
    <3> QED BY <3>3, <3>4 DEF Wall!Set, Day4
  <2>5. CASE UNCHANGED timerVars
    BY <2>5 DEF timerVars, timeVars, Quarters
  <2> QED BY <2>2, <2>3, <2>4, <2>5 DEF TimerNext
<1> QED
  BY <1>1, <1>2, TimeStaysInRange, PTL DEF TimerSpec, ImplementsWallClock, Wall!WallSpec

-----------------------------------------------------------------------------
(* A face is complete when its last byte is stored.  The stores build on   *)
(* one another, so the invariant says how far each byte has got.           *)

\* How far byte p has got when its digit has been stored and next_store is next.
Progress(p) ==
  /\ digits[p].glyph = Glyph(tm, p)
  /\ digits[p].dot <=> (next_store > 4 /\ p = dot_position)
  /\ digits[p].inverted <=> p + 5 < next_store

FaceSoFar ==
  Writing => /\ next_store > 4 => clock_display_invert
             /\ \A p \in Digit : p < next_store => Progress(p)

LEMMA FaceOfFields ==
  ASSUME TypeOK, NEW ds \in [Digit -> Byte],
         \A p \in Digit : /\ ds[p].glyph = Glyph(tm, p)
                          /\ ds[p].dot <=> (p = dot_position)
                          /\ ds[p].inverted <=> clock_display_invert
  PROVE  ds = Face(tm, dot_position)
<1>1. ASSUME NEW p \in Digit
      PROVE  ds[p] = [glyph |-> Glyph(tm, p), dot |-> p = dot_position,
                      inverted |-> clock_display_invert]
  <2>1. ds[p] \in Byte /\ clock_display_invert \in BOOLEAN
    BY DEF TypeOK
  <2>2. ds[p] = [glyph |-> ds[p].glyph, dot |-> ds[p].dot, inverted |-> ds[p].inverted]
    BY <2>1 DEF Byte
  <2>3. ds[p].glyph = Glyph(tm, p)
    OBVIOUS
  <2>4. ds[p].dot = (p = dot_position)
    BY <2>1 DEF Byte
  <2>5. ds[p].inverted = clock_display_invert
    BY <2>1 DEF Byte
  <2> QED BY <2>2, <2>3, <2>4, <2>5
<1> QED BY <1>1 DEF Face

LEMMA GlyphKept == ASSUME tm' = tm, NEW p \in Digit PROVE Glyph(tm, p)' = Glyph(tm, p)
BY DEF Glyph

LEMMA StoreProgresses ==
  ASSUME TypeOK, FaceSoFar, clock_timer_display
  PROVE  /\ FaceSoFar'
         /\ next_store' = Idle => digits' = Face(tm, dot_position)
<1>1. /\ next_store \in 0..8 /\ digits \in [Digit -> Byte] /\ Digit = 0..3
      /\ dot_position \in Digit /\ clock_display_invert \in BOOLEAN
      /\ digits' = Stored(next_store) /\ digits' \in [Digit -> Byte]
      /\ next_store' = IF next_store = 4 /\ ~clock_display_invert THEN 9 ELSE next_store + 1
      /\ clock_display_invert' = clock_display_invert
      /\ tm' = tm /\ dot_position' = dot_position
  BY StoredType DEF clock_timer_display, TypeOK, Byte, Writing, Idle, Digit, DISPLAY_DIGIT_MAX, timeVars
<1>2. /\ next_store > 4 => clock_display_invert
      /\ \A p \in Digit : p < next_store => Progress(p)
  BY DEF FaceSoFar, clock_timer_display
<1>3. CASE next_store \in Digit
  <2>1. digits' = [digits EXCEPT ![next_store] = Pattern(Glyph(tm, next_store), FALSE)]
    BY <1>1, <1>3 DEF Stored
  <2>2. next_store' = next_store + 1 /\ next_store' <= 4
    BY <1>1, <1>3
  <2>3. ASSUME NEW p \in Digit, p < next_store' PROVE Progress(p)'
    <3>1. CASE p = next_store
      <4>1. digits'[p] = Pattern(Glyph(tm, p), FALSE)
        BY <1>1, <2>1, <3>1
      <4> QED BY <1>1, <2>2, <2>3, <4>1, GlyphKept DEF Progress, Pattern
    <3>2. CASE p # next_store
      <4>1. digits'[p] = digits[p]
        BY <1>1, <2>1, <3>2
      <4>2. p < next_store
        BY <1>1, <2>2, <2>3, <3>2
      <4> QED BY <1>1, <1>2, <1>3, <2>2, <4>1, <4>2, GlyphKept DEF Progress
    <3> QED BY <3>1, <3>2
  <2>4. FaceSoFar'
    BY <2>2, <2>3 DEF FaceSoFar
  <2> QED BY <2>2, <2>4 DEF Idle
<1>4. CASE next_store = 4
  <2>1. digits' = [digits EXCEPT ![dot_position].dot = TRUE]
    BY <1>1, <1>4 DEF Stored
  <2>2. ASSUME NEW p \in Digit
        PROVE  /\ digits'[p].glyph = Glyph(tm, p)
               /\ digits'[p].dot <=> (p = dot_position)
               /\ ~digits'[p].inverted
    <3>1. digits[p].glyph = Glyph(tm, p) /\ ~digits[p].dot /\ ~digits[p].inverted
      BY <1>1, <1>2, <1>4 DEF Progress
    <3> QED BY <1>1, <2>1, <3>1 DEF Byte
  <2>3. CASE clock_display_invert
    <3>1. next_store' = 5
      BY <1>1, <1>4, <2>3
    <3>2. ASSUME NEW p \in Digit PROVE Progress(p)'
      BY <1>1, <2>2, <3>1, GlyphKept DEF Progress
    <3> QED BY <1>1, <2>3, <3>1, <3>2 DEF FaceSoFar, Idle
  <2>4. CASE ~clock_display_invert
    <3>1. next_store' = 9
      BY <1>1, <1>4, <2>4
    <3>2. digits' = Face(tm, dot_position)
      BY <1>1, <2>2, <2>4, FaceOfFields
    <3> QED BY <3>1, <3>2 DEF FaceSoFar, Writing, Idle
  <2> QED BY <1>1, <2>3, <2>4
<1>5. CASE next_store \in 5..8
  <2> DEFINE n == next_store - 5
  <2>1. digits' = [digits EXCEPT ![n].inverted = ~digits[n].inverted]
    BY <1>1, <1>5 DEF Stored
  <2>2. n \in Digit /\ next_store' = next_store + 1 /\ clock_display_invert
    BY <1>1, <1>2, <1>5
  <2>3. ASSUME NEW p \in Digit
        PROVE  /\ digits'[p].glyph = Glyph(tm, p)
               /\ digits'[p].dot <=> (p = dot_position)
               /\ digits'[p].inverted <=> p <= n
    <3>1. /\ digits[p].glyph = Glyph(tm, p)
          /\ digits[p].dot <=> (p = dot_position)
          /\ digits[p].inverted <=> p < n
      BY <1>1, <1>2, <1>5 DEF Progress
    <3>2. CASE p = n
      <4>1. digits'[p] = [digits[p] EXCEPT !.inverted = ~digits[p].inverted] /\ digits[p] \in Byte
        BY <1>1, <2>1, <2>2, <3>2
      <4> QED BY <1>1, <2>2, <3>1, <3>2, <4>1 DEF Byte
    <3>3. CASE p # n
      <4>1. digits'[p] = digits[p]
        BY <1>1, <2>1, <2>2, <3>3
      <4> QED BY <1>1, <2>2, <3>1, <3>3, <4>1
    <3> QED BY <3>2, <3>3
  <2>4. CASE next_store < 8
    <3>1. ASSUME NEW p \in Digit PROVE Progress(p)'
      BY <1>1, <1>5, <2>2, <2>3, GlyphKept DEF Progress
    <3> QED BY <1>1, <2>2, <2>4, <3>1 DEF FaceSoFar, Idle
  <2>5. CASE next_store = 8
    <3>1. next_store' = 9
      BY <2>2, <2>5
    <3>2. \A p \in Digit : p <= n
      BY <1>1, <2>5
    <3>3. digits' = Face(tm, dot_position)
      BY <1>1, <2>2, <2>3, <3>2, FaceOfFields
    <3> QED BY <3>1, <3>3 DEF FaceSoFar, Writing, Idle
  <2> QED BY <1>5, <2>4, <2>5
<1> QED BY <1>1, <1>3, <1>4, <1>5

LEMMA FaceInvariant == TimerSpec => [](TypeOK /\ FaceSoFar)
<1>1. TimerInit => FaceSoFar
  BY DEF TimerInit, FaceSoFar, Digit, DISPLAY_DIGIT_MAX
<1>2. TypeOK /\ FaceSoFar /\ [TimerNext]_timerVars => FaceSoFar'
  <2> SUFFICES ASSUME TypeOK, FaceSoFar, [TimerNext]_timerVars PROVE FaceSoFar'
    OBVIOUS
  <2>1. ASSUME clock_timer_display PROVE FaceSoFar'
    BY <2>1, StoreProgresses
  <2>2. ASSUME seconds_tick PROVE FaceSoFar'
    BY <2>2 DEF seconds_tick, FaceSoFar, Digit, DISPLAY_DIGIT_MAX
  <2>3. ASSUME NEW t \in TrueTimes, SetTime(t) PROVE FaceSoFar'
    BY <2>3 DEF SetTime, FaceSoFar, Writing
  <2>4. CASE UNCHANGED timerVars
    BY <2>4 DEF timerVars, timeVars, FaceSoFar, Writing, Progress, Glyph
  <2> QED BY <2>1, <2>2, <2>3, <2>4 DEF TimerNext
<1> QED BY <1>1, <1>2, TimeStaysInRange, PTL DEF TimerSpec

\* Whatever the digits held before, garbage of os_malloc or a face in the other
\* polarity, clock_timer_display leaves exactly the face of the time.
THEOREM FaceIsComplete == TimerSpec => FaceComplete
<1>1. TypeOK /\ FaceSoFar /\ [TimerNext]_timerVars
        => [Writing /\ next_store' = Idle => digits' = Face(tm, dot_position)]_timerVars
  <2> SUFFICES ASSUME TypeOK, FaceSoFar, [TimerNext]_timerVars, Writing, next_store' = Idle
               PROVE  digits' = Face(tm, dot_position)
    OBVIOUS
  <2>1. clock_timer_display
    BY DEF TimerNext, seconds_tick, SetTime, timerVars, Writing, Idle
  <2> QED BY <2>1, StoreProgresses
<1> QED BY <1>1, FaceInvariant, PTL DEF TimerSpec, FaceComplete
=============================================================================
