------------------------- MODULE LightSensorProofs --------------------------
(***************************************************************************)
(* Proofs about LightSensor for every set of sensor values and of values   *)
(* users publish, whatever lies behind pwm_level, every report cycle and   *)
(* any number of messages on their way: which sensor values lead behind    *)
(* the end of pwm_level, and that the newest brightness is one it gives    *)
(* for the sensor's level.                                                 *)
(***************************************************************************)
EXTENDS LightSensor, SequenceTheorems, TLAPS

-----------------------------------------------------------------------------
(* The tables.                                                             *)
LEMMA LevelOf ==
  ASSUME NEW value \in Nat
  PROVE  /\ map_adc_to_level(value) \in 0..11
         /\ (map_adc_to_level(value) < Len(pwm_level)) <=> (value <= 1023)
<1> DEFINE levels == {i \in 0..light_level_max-1 : Bounds(i, value)}
<1>1. levels \subseteq 0..10
  BY DEF light_level_max
<1>2. Len(pwm_level) = 11
  BY DEF pwm_level
<1>3. CASE value <= 1023
  <2>1. 10 \in levels
    BY <1>3 DEF Bounds, light_level_bounds, light_level_max
  <2>2. map_adc_to_level(value) = CHOOSE i \in levels : \A j \in levels : i <= j
    BY <2>1, Zenon DEF map_adc_to_level
  <2> HIDE DEF levels
  <2>3. \E i \in levels : \A j \in levels : i <= j
    <3>1. /\ (0 \in levels) \/ (1 \in levels) \/ (2 \in levels) \/ (3 \in levels)
             \/ (4 \in levels) \/ (5 \in levels) \/ (6 \in levels) \/ (7 \in levels)
             \/ (8 \in levels) \/ (9 \in levels) \/ (10 \in levels)
      BY <2>1
    <3>2. QED
      BY <1>1, <3>1
  <2>4. map_adc_to_level(value) \in 0..10
    BY <1>1, <2>2, <2>3
  <2>5. QED
    BY <1>2, <1>3, <2>4
<1>4. CASE value > 1023
  <2>1. ASSUME NEW i \in levels PROVE FALSE
    <3>1. i \in 0..10 /\ light_level_bounds[i + 1] >= value
      BY <1>1, <2>1 DEF Bounds
    <3>2. i = 0 \/ i = 1 \/ i = 2 \/ i = 3 \/ i = 4 \/ i = 5 \/ i = 6 \/ i = 7 \/ i = 8
          \/ i = 9 \/ i = 10
      BY <3>1
    <3>3. light_level_bounds[i + 1] <= 1023
      BY <3>2 DEF light_level_bounds
    <3>4. light_level_bounds[i + 1] \in Nat
      BY <3>2 DEF light_level_bounds
    <3>5. QED
      BY <1>4, <3>1, <3>3, <3>4
  <2>2. map_adc_to_level(value) = 11
    BY <2>1, Zenon DEF map_adc_to_level, light_level_max
  <2>3. QED
    BY <1>2, <1>4, <2>2
<1>5. QED
  BY <1>3, <1>4

LEMMA BrightnessOf ==
  ASSUME NEW level \in 0..11
  PROVE  /\ PwmLevel(level) # {}
         /\ \A b \in PwmLevel(level) : b \in Int /\ b # Elsewhere
<1>1. CASE level < 11
  <2>1. Len(pwm_level) = 11
    BY DEF pwm_level
  <2>2. level = 0 \/ level = 1 \/ level = 2 \/ level = 3 \/ level = 4 \/ level = 5
        \/ level = 6 \/ level = 7 \/ level = 8 \/ level = 9 \/ level = 10
    BY <1>1
  <2>3. pwm_level[level + 1] \in {32, 22, 16, 8, 6, 4, 2}
    BY <2>2 DEF pwm_level
  <2>4. PwmLevel(level) = {pwm_level[level + 1]}
    BY <1>1, <2>1, Zenon DEF PwmLevel
  <2>5. QED
    BY <2>3, <2>4 DEF Elsewhere
<1>2. CASE level = 11
  <2>1. PwmLevel(level) = BehindTable
    BY <1>2 DEF PwmLevel, pwm_level
  <2>2. QED
    BY <2>1, SensorAssumption
<1>3. QED
  BY <1>1, <1>2

LEMMA ElsewhereType == Elsewhere \in Int
BY DEF Elsewhere

-----------------------------------------------------------------------------
(* Sequences of messages.                                                  *)
LEMMA Pair ==
  ASSUME NEW T, NEW x \in T, NEW y \in T
  PROVE  <<x, y>> = <<x>> \o <<y>>
<1>1. PICK r, s, t : r = <<x>> /\ s = <<y>> /\ t = <<x, y>>
  BY Zenon
<1>2. /\ r \in Seq(T) /\ s \in Seq(T) /\ t \in Seq(T)
      /\ Len(r) = 1 /\ Len(s) = 1 /\ Len(t) = 2
      /\ r[1] = x /\ s[1] = y /\ t[1] = x /\ t[2] = y
  BY <1>1
<1>3. /\ Len(r \o s) = 2 /\ r \o s \in Seq(T)
      /\ (r \o s)[1] = x /\ (r \o s)[2] = y
  <2>1. /\ r \o s \in Seq(T) /\ Len(r \o s) = Len(r) + Len(s)
        /\ \A i \in 1..Len(r) + Len(s) :
             (r \o s)[i] = IF i <= Len(r) THEN r[i] ELSE s[i - Len(r)]
    BY <1>2, ConcatProperties, Zenon
  <2>2. Len(r) + Len(s) = 2 /\ 1 <= Len(r) /\ ~ (2 <= Len(r)) /\ 2 - Len(r) = 1
    BY <1>2
  <2>3. 1 \in 1..2 /\ 2 \in 1..2
    OBVIOUS
  <2>4. QED
    BY <1>2, <2>1, <2>2, <2>3, Zenon
<1>4. r \o s = t
  BY <1>2, <1>3, SeqEqual
<1>5. QED
  BY <1>1, <1>4, Zenon

(* Three, and four, that follow one another, taken together from either end. *)
Following(T, p, q, r, x, y) ==
  p \in Seq(T) /\ q \in Seq(T) /\ r \in Seq(T) /\ x = p \o q /\ y = q \o r

LEMMA Regrouped ==
  ASSUME NEW T, NEW p, NEW q, NEW r, NEW x, NEW y, Following(T, p, q, r, x, y)
  PROVE  x \o r = p \o y
BY DEF Following

(* What stands where in two that follow one another.                       *)
Joins(T, r, s, x, n, m) ==
  r \in Seq(T) /\ s \in Seq(T) /\ x = r \o s /\ n = Len(r) /\ m = Len(s)

Joint(T, r, s, x, n, m) ==
  /\ x \in Seq(T) /\ Len(x) = n + m
  /\ \A k \in 1..n : x[k] = r[k]
  /\ \A k \in 1..m : x[n + k] = s[k]

LEMMA Concatenated ==
  ASSUME NEW T, NEW r, NEW s, NEW x, NEW n, NEW m, Joins(T, r, s, x, n, m)
  PROVE  Joint(T, r, s, x, n, m)
<1>1. /\ r \o s \in Seq(T) /\ Len(r \o s) = Len(r) + Len(s)
      /\ \A k \in 1..Len(r) : (r \o s)[k] = r[k]
      /\ \A k \in 1..Len(s) : (r \o s)[Len(r) + k] = s[k]
  BY DEF Joins
<1>2. QED
  BY <1>1, Zenon DEF Joins, Joint

(* Without the first, the second still follows.                            *)
LEMMA FirstLeaves ==
  ASSUME NEW T, NEW p \in Seq(T), NEW q \in Seq(T), p # <<>>
  PROVE  /\ p \o q \in Seq(T) /\ p \o q # <<>>
         /\ Head(p \o q) = Head(p) /\ Tail(p \o q) = Tail(p) \o q
<1>1. PICK w, t, z : w = p \o q /\ t = Tail(p) /\ z = t \o q
  BY Zenon
<1>2. PICK n \in Nat, m \in Nat : Len(p) = n + 1 /\ Len(q) = m
  <2>1. Len(p) \in Nat /\ Len(p) # 0 /\ Len(q) \in Nat
    OBVIOUS
  <2>2. Len(p) - 1 \in Nat /\ Len(p) = (Len(p) - 1) + 1
    BY <2>1
  <2>3. QED
    BY <2>1, <2>2, Zenon
<1>3. t \in Seq(T) /\ Len(t) = n /\ \A k \in 1..n : t[k] = p[k + 1]
  BY <1>1, <1>2
<1>4. /\ w \in Seq(T) /\ Len(w) = (n + 1) + m
      /\ \A k \in 1..n+1 : w[k] = p[k]
      /\ \A k \in 1..m : w[(n + 1) + k] = q[k]
  <2>1. PICK l : l = n + 1
    BY Zenon
  <2>2. Joins(T, p, q, w, l, m)
    BY <1>1, <1>2, <2>1, Zenon DEF Joins
  <2>3. Joint(T, p, q, w, l, m)
    BY <2>2, Concatenated
  <2>4. QED
    BY <2>1, <2>3, Zenon DEF Joint
<1>5. /\ z \in Seq(T) /\ Len(z) = n + m
      /\ \A k \in 1..n : z[k] = t[k]
      /\ \A k \in 1..m : z[n + k] = q[k]
  <2>1. Joins(T, t, q, z, n, m)
    BY <1>1, <1>2, <1>3, Zenon DEF Joins
  <2>2. Joint(T, t, q, z, n, m)
    BY <2>1, Concatenated
  <2>3. QED
    BY <2>2, Zenon DEF Joint
<1>6. PICK u : u = Tail(w)
  BY Zenon
<1>7. w # <<>> /\ Head(w) = w[1]
  BY <1>4
<1>8. /\ u \in Seq(T) /\ Len(u) = n + m
      /\ \A k \in 1..n+m : u[k] = w[k + 1]
  BY <1>4, <1>6, <1>7
<1>9. ASSUME NEW k \in 1..n+m PROVE u[k] = z[k]
  <2>1. CASE k <= n
    <3>1. k \in 1..n /\ k + 1 \in 1..n+1
      BY <2>1
    <3>2. u[k] = w[k + 1]
      BY <1>8
    <3>3. w[k + 1] = p[k + 1]
      BY <1>4, <3>1
    <3>4. t[k] = p[k + 1] /\ z[k] = t[k]
      BY <1>3, <1>5, <3>1
    <3>5. QED
      BY <3>2, <3>3, <3>4, Zenon
  <2>2. CASE k > n
    <3>1. PICK i \in 1..m : k = n + i
      <4>1. k - n \in 1..m /\ k = n + (k - n)
        BY <2>2
      <4>2. QED
        BY <4>1, Zenon
    <3>2. k + 1 = (n + 1) + i
      BY <3>1
    <3>3. QED
      BY <1>4, <1>5, <1>8, <3>1, <3>2, Zenon
  <2>3. QED
    BY <2>1, <2>2
<1>10. u = z
  BY <1>5, <1>8, <1>9, SeqEqual
<1>11. Head(w) = Head(p)
  BY <1>2, <1>4, <1>7
<1>12. QED
  BY <1>1, <1>4, <1>6, <1>7, <1>10, <1>11, Zenon

Four(T, p, q, r, s) == p \in Seq(T) /\ q \in Seq(T) /\ r \in Seq(T) /\ s \in Seq(T)

OneByOne(T, p, q, r, s) ==
  /\ (p \o q) \o r \in Seq(T)
  /\ p \o (q \o (r \o s)) = ((p \o q) \o r) \o s

LEMMA Behind ==
  ASSUME NEW T, NEW p, NEW q, NEW r, NEW s, Four(T, p, q, r, s)
  PROVE  OneByOne(T, p, q, r, s)
<1>1. p \o q \in Seq(T) /\ r \o s \in Seq(T)
  BY ConcatProperties, Zenon DEF Four
<1>2. (p \o q) \o r \in Seq(T)
  BY <1>1, ConcatProperties, Zenon DEF Four
<1>3. PICK x, y, z, v : x = p \o q /\ y = r \o s /\ z = q \o y /\ v = x \o r
  BY Zenon
<1>4. x \in Seq(T) /\ y \in Seq(T)
  BY <1>1, <1>3, Zenon
<1>5. Following(T, p, q, y, x, z)
  BY <1>3, <1>4, Zenon DEF Following, Four
<1>6. Following(T, x, r, s, v, y)
  BY <1>3, <1>4, Zenon DEF Following, Four
<1>7. x \o y = p \o z
  BY <1>5, Regrouped
<1>8. v \o s = x \o y
  BY <1>6, Regrouped
<1>9. p \o (q \o (r \o s)) = p \o z
  BY <1>3, Zenon
<1>10. ((p \o q) \o r) \o s = v \o s
  BY <1>3, Zenon
<1>11. p \o (q \o (r \o s)) = ((p \o q) \o r) \o s
  BY <1>7, <1>8, <1>9, <1>10, Zenon
<1>12. QED
  BY <1>2, <1>11, Zenon DEF OneByOne

-----------------------------------------------------------------------------
(* The newest brightness among the messages w on their way, or the one     *)
(* shown.                                                                  *)
Newest(w, shown, b) ==
  \/ \E i \in DOMAIN w : /\ w[i] = b /\ b # Elsewhere
                         /\ \A j \in i+1..Len(w) : w[j] = Elsewhere
  \/ /\ shown = b
     /\ \A i \in DOMAIN w : w[i] = Elsewhere

LEMMA NewestBrightness == ASSUME NEW b
  PROVE  NewestIs(b) <=> Newest(fromBroker \o toBroker, clock_display_brightness, b)
BY Zenon DEF NewestIs, Newest

(* It is what was said last,                                               *)
LEMMA Said ==
  ASSUME NEW w \in Seq(Int), NEW shown, NEW b \in Int, b # Elsewhere
  PROVE  Newest(w \o <<b>>, shown, b)
<1>1. PICK n \in Nat : n = Len(w)
  OBVIOUS
<1>2. PICK u : u = w \o <<b>>
  BY Zenon
<1>3. DOMAIN u = 1..n+1 /\ Len(u) = n + 1 /\ u[n + 1] = b
  BY <1>1, <1>2
<1>4. n + 1 \in 1..n+1 /\ \A j \in (n+1)+1..n+1 : FALSE
  OBVIOUS
<1>5. QED
  BY <1>2, <1>3, <1>4, Zenon DEF Newest

(* and stays it while messages on other topics follow.                     *)
LEMMA NothingSaid ==
  ASSUME NEW w \in Seq(Int), NEW shown, NEW b, Newest(w, shown, b)
  PROVE  Newest(w \o <<Elsewhere>>, shown, b)
<1>1. PICK n \in Nat : n = Len(w)
  OBVIOUS
<1>2. PICK u : u = w \o <<Elsewhere>>
  BY Zenon
<1>3. /\ DOMAIN w = 1..n /\ DOMAIN u = 1..n+1 /\ Len(u) = n + 1
      /\ u[n + 1] = Elsewhere /\ \A k \in 1..n : u[k] = w[k]
  BY <1>1, <1>2, ElsewhereType
<1>4. CASE \E i \in DOMAIN w : /\ w[i] = b /\ b # Elsewhere
                               /\ \A j \in i+1..Len(w) : w[j] = Elsewhere
  <2>1. PICK i \in 1..n : w[i] = b /\ b # Elsewhere /\ \A j \in i+1..n : w[j] = Elsewhere
    BY <1>1, <1>3, <1>4
  <2>2. i \in 1..n+1 /\ \A j \in i+1..n+1 : j \in i+1..n \/ j = n + 1
    OBVIOUS
  <2>3. \A j \in i+1..n : j \in 1..n
    OBVIOUS
  <2>4. QED
    BY <1>2, <1>3, <2>1, <2>2, <2>3, Zenon DEF Newest
<1>5. CASE shown = b /\ \A i \in DOMAIN w : w[i] = Elsewhere
  <2>1. \A j \in 1..n+1 : j \in 1..n \/ j = n + 1
    OBVIOUS
  <2>2. QED
    BY <1>2, <1>3, <1>5, <2>1, Zenon DEF Newest
<1>6. QED
  BY <1>4, <1>5, Zenon DEF Newest

(* A value that arrives is shown; the newest is still the newest.          *)
LEMMA Arrived ==
  ASSUME NEW w \in Seq(Int), NEW shown, NEW b, w # <<>>, Head(w) # Elsewhere,
         Newest(w, shown, b)
  PROVE  Newest(Tail(w), Head(w), b)
<1>1. PICK n \in Nat : n + 1 = Len(w)
  <2>1. Len(w) - 1 \in Nat /\ (Len(w) - 1) + 1 = Len(w)
    OBVIOUS
  <2>2. QED
    BY <2>1, Zenon
<1>2. PICK u, h : u = Tail(w) /\ h = Head(w)
  BY Zenon
<1>3. /\ DOMAIN w = 1..n+1 /\ DOMAIN u = 1..n /\ Len(u) = n /\ h = w[1]
      /\ \A k \in 1..n : u[k] = w[k + 1]
  BY <1>1, <1>2
<1>4. 1 \in 1..n+1
  OBVIOUS
<1>5. PICK i \in 1..n+1 : w[i] = b /\ b # Elsewhere /\ \A j \in i+1..n+1 : w[j] = Elsewhere
  BY <1>1, <1>2, <1>3, <1>4 DEF Newest
<1>6. CASE i = 1
  <2>1. \A j \in 1..n : j + 1 \in 1+1..n+1
    OBVIOUS
  <2>2. QED
    BY <1>2, <1>3, <1>5, <1>6, <2>1, Zenon DEF Newest
<1>7. CASE i # 1
  <2>1. PICK k \in 1..n : i = k + 1
    BY <1>7
  <2>2. \A j \in k+1..n : j \in 1..n /\ j + 1 \in i+1..n+1
    BY <2>1
  <2>3. QED
    BY <1>2, <1>3, <1>5, <2>1, <2>2, Zenon DEF Newest
<1>8. QED
  BY <1>6, <1>7

(* So it is when a message on another topic leaves or is lost.             *)
Without(w, i, u) ==
  /\ u \in Seq(Int) /\ i \in 1..Len(w) /\ Len(w) = Len(u) + 1
  /\ \A k \in 1..Len(u) : u[k] = IF k < i THEN w[k] ELSE w[k + 1]

LEMMA Left ==
  ASSUME NEW w \in Seq(Int), NEW shown, NEW b, NEW i, NEW u, Without(w, i, u),
         w[i] = Elsewhere, Newest(w, shown, b)
  PROVE  Newest(u, shown, b)
<1>1. PICK n \in Nat : n = Len(u)
  BY DEF Without
<1>2. /\ DOMAIN u = 1..n /\ DOMAIN w = 1..n+1 /\ Len(w) = n + 1 /\ i \in 1..n+1
      /\ \A k \in 1..n : u[k] = IF k < i THEN w[k] ELSE w[k + 1]
  BY <1>1 DEF Without
<1>3. CASE \E k \in DOMAIN w : /\ w[k] = b /\ b # Elsewhere
                               /\ \A j \in k+1..Len(w) : w[j] = Elsewhere
  <2>1. PICK k \in 1..n+1 : w[k] = b /\ b # Elsewhere /\ \A j \in k+1..n+1 : w[j] = Elsewhere
    BY <1>2, <1>3
  <2>2. CASE k < i
    <3>1. k \in 1..n /\ u[k] = b
      BY <1>2, <2>1, <2>2
    <3>2. ASSUME NEW j \in k+1..n PROVE u[j] = Elsewhere
      <4>1. j \in 1..n /\ j \in k+1..n+1 /\ j + 1 \in k+1..n+1
        BY <2>2
      <4>2. QED
        BY <1>2, <2>1, <4>1, Zenon
    <3>3. QED
      BY <1>1, <1>2, <2>1, <3>1, <3>2, Zenon DEF Newest
  <2>3. CASE k > i
    <3>1. k - 1 \in 1..n /\ u[k - 1] = b
      BY <1>2, <2>1, <2>3
    <3>2. \A j \in (k-1)+1..n : u[j] = Elsewhere
      BY <1>2, <2>1, <2>3
    <3>3. QED
      BY <1>1, <1>2, <2>1, <3>1, <3>2, Zenon DEF Newest
  <2>4. k # i
    BY <2>1
  <2>5. QED
    BY <1>2, <2>2, <2>3, <2>4
<1>4. CASE shown = b /\ \A k \in DOMAIN w : w[k] = Elsewhere
  <2>1. ASSUME NEW k \in 1..n PROVE u[k] = Elsewhere
    <3>1. k \in 1..n+1 /\ k + 1 \in 1..n+1
      OBVIOUS
    <3>2. w[k] = Elsewhere /\ w[k + 1] = Elsewhere
      BY <1>2, <1>4, <3>1
    <3>3. u[k] = IF k < i THEN w[k] ELSE w[k + 1]
      BY <1>2
    <3>4. QED
      BY <3>2, <3>3, Zenon
  <2>2. QED
    BY <1>2, <1>4, <2>1, Zenon DEF Newest
<1>5. QED
  BY <1>3, <1>4, Zenon DEF Newest

LEMMA TwoPieces ==
  ASSUME NEW T, NEW p \in Seq(T), NEW q \in Seq(T), NEW l, NEW r, l = Len(p), r = Len(q)
  PROVE  /\ p \o q \in Seq(T) /\ Len(p \o q) = l + r
         /\ \A k \in 1..l : (p \o q)[k] = p[k]
         /\ \A k \in 1..r : (p \o q)[l + k] = q[k]
OBVIOUS

LEMMA Removed ==
  ASSUME NEW w \in Seq(Int), NEW i \in DOMAIN w, NEW u, u = RemoveAt(w, i)
  PROVE  Without(w, i, u)
<1>1. PICK p, q : p = SubSeq(w, 1, i - 1) /\ q = SubSeq(w, i + 1, Len(w))
  BY Zenon
<1>2. PICK n \in Nat : n = Len(w) /\ DOMAIN w = 1..n
  OBVIOUS
<1>3. PICK l \in Nat, r \in Nat : l = i - 1 /\ r = n - i
  BY <1>2
<1>4. p \in Seq(Int) /\ Len(p) = l /\ \A k \in 1..l : p[k] = w[k]
  <2>1. p = SubSeq(w, 1, l)
    BY <1>1, <1>3, Zenon
  <2>2. 1 \in Int /\ \A k \in 1..l : w[k] \in Int
    BY <1>2, <1>3
  <2>3. /\ SubSeq(w, 1, l) \in Seq(Int)
        /\ Len(SubSeq(w, 1, l)) = IF 1 <= l THEN l - 1 + 1 ELSE 0
        /\ \A k \in 1..l-1+1 : SubSeq(w, 1, l)[k] = w[1 + k - 1]
    BY <2>2, SubSeqProperties
  <2>4. (IF 1 <= l THEN l - 1 + 1 ELSE 0) = l /\ l - 1 + 1 = l
        /\ \A k \in 1..l : 1 + k - 1 = k
    OBVIOUS
  <2>5. QED
    BY <2>1, <2>3, <2>4, Zenon
<1>5. q \in Seq(Int) /\ Len(q) = r /\ \A k \in 1..r : q[k] = w[i + k]
  <2>1. q = SubSeq(w, i + 1, n)
    BY <1>1, <1>2, Zenon
  <2>2. i + 1 \in Int /\ \A k \in i+1..n : w[k] \in Int
    BY <1>2
  <2>3. /\ SubSeq(w, i + 1, n) \in Seq(Int)
        /\ Len(SubSeq(w, i + 1, n)) = IF i + 1 <= n THEN n - (i + 1) + 1 ELSE 0
        /\ \A k \in 1..n-(i+1)+1 : SubSeq(w, i + 1, n)[k] = w[(i + 1) + k - 1]
    <3>1. n \in Int
      BY <1>2
    <3>2. QED
      BY <2>2, <3>1, SubSeqProperties
  <2>4. (IF i + 1 <= n THEN n - (i + 1) + 1 ELSE 0) = r /\ n - (i + 1) + 1 = r
        /\ \A k \in 1..r : (i + 1) + k - 1 = i + k
    <3>1. i \in 1..n /\ r = n - i
      BY <1>2, <1>3, Zenon
    <3>2. QED
      BY <3>1
  <2>5. QED
    BY <2>1, <2>3, <2>4, Zenon
<1>6. /\ p \o q \in Seq(Int) /\ Len(p \o q) = l + r
      /\ \A k \in 1..l : (p \o q)[k] = p[k]
      /\ \A k \in 1..r : (p \o q)[l + k] = q[k]
  <2>1. p \in Seq(Int) /\ q \in Seq(Int) /\ l = Len(p) /\ r = Len(q)
    BY <1>4, <1>5, Zenon
  <2>2. QED
    BY <2>1, TwoPieces
<1>7. u = p \o q
  BY <1>1, Zenon DEF RemoveAt
<1>8. u \in Seq(Int) /\ Len(u) = l + r /\ n = (l + r) + 1 /\ i = l + 1
  <2>1. n = (l + r) + 1 /\ i = l + 1
    BY <1>2, <1>3
  <2>2. QED
    BY <1>6, <1>7, <2>1, Zenon
<1>9. ASSUME NEW k \in 1..l+r PROVE u[k] = IF k < i THEN w[k] ELSE w[k + 1]
  <2>1. CASE k < i
    <3>1. k \in 1..l
      BY <1>8, <2>1
    <3>2. QED
      BY <1>4, <1>6, <1>7, <2>1, <3>1, Zenon
  <2>2. CASE ~ (k < i)
    <3>1. PICK j \in 1..r : k = l + j
      <4>1. k - l \in 1..r /\ k = l + (k - l)
        BY <1>8, <2>2
      <4>2. QED
        BY <4>1, Zenon
    <3>2. i + j = k + 1
      BY <1>8, <3>1
    <3>3. u[k] = q[j] /\ q[j] = w[i + j]
      BY <1>5, <1>6, <1>7, <3>1, Zenon
    <3>4. u[k] = w[k + 1]
      BY <3>2, <3>3, Zenon
    <3>5. QED
      BY <2>2, <3>4, Zenon
  <2>3. QED
    BY <2>1, <2>2
<1>10. QED
  BY <1>2, <1>8, <1>9, Zenon DEF Without

(* Behind others, too.                                                     *)
LEMMA WithoutBehind ==
  ASSUME NEW f \in Seq(Int), NEW g \in Seq(Int), NEW i, NEW u, Without(g, i, u)
  PROVE  /\ f \o g \in Seq(Int) /\ (f \o g)[Len(f) + i] = g[i]
         /\ Without(f \o g, Len(f) + i, f \o u)
<1>1. PICK m \in Nat, n \in Nat : m = Len(f) /\ n = Len(u)
  <2>1. Len(f) \in Nat /\ Len(u) \in Nat
    BY DEF Without
  <2>2. QED
    BY <2>1, Zenon
<1>2. /\ u \in Seq(Int) /\ i \in 1..n+1 /\ Len(g) = n + 1
      /\ \A k \in 1..n : u[k] = IF k < i THEN g[k] ELSE g[k + 1]
  BY <1>1 DEF Without
<1>3. PICK w, v : w = f \o g /\ v = f \o u
  BY Zenon
<1>4. /\ w \in Seq(Int) /\ Len(w) = m + (n + 1)
      /\ \A k \in 1..m : w[k] = f[k]
      /\ \A k \in 1..n+1 : w[m + k] = g[k]
  BY <1>1, <1>2, <1>3, TwoPieces
<1>5. /\ v \in Seq(Int) /\ Len(v) = m + n
      /\ \A k \in 1..m : v[k] = f[k]
      /\ \A k \in 1..n : v[m + k] = u[k]
  BY <1>1, <1>2, <1>3, TwoPieces
<1>6. m + i \in 1..m+(n+1) /\ m + (n + 1) = (m + n) + 1
  <2>1. i \in 1..n+1
    BY <1>2
  <2>2. QED
    BY <2>1
<1>7. ASSUME NEW k \in 1..m+n PROVE v[k] = IF k < m + i THEN w[k] ELSE w[k + 1]
  <2>1. CASE k <= m
    <3>1. k \in 1..m /\ k < m + i
      BY <1>2, <2>1
    <3>2. QED
      BY <1>4, <1>5, <3>1, Zenon
  <2>2. CASE ~ (k <= m)
    <3>1. PICK j \in 1..n : k = m + j
      <4>1. k - m \in 1..n /\ k = m + (k - m)
        BY <2>2
      <4>2. QED
        BY <4>1, Zenon
    <3>2. /\ j \in 1..n+1 /\ j + 1 \in 1..n+1 /\ m + (j + 1) = k + 1
          /\ (k < m + i <=> j < i)
      BY <1>2, <3>1
    <3>3. w[k] = g[j] /\ w[k + 1] = g[j + 1] /\ v[k] = u[j]
      BY <1>4, <1>5, <3>1, <3>2, Zenon
    <3>4. QED
      BY <1>2, <3>2, <3>3, Zenon
  <2>3. QED
    BY <2>1, <2>2
<1>8. Without(w, m + i, v)
  BY <1>4, <1>5, <1>6, <1>7, Zenon DEF Without
<1>9. QED
  BY <1>1, <1>2, <1>3, <1>4, <1>8, Zenon

-----------------------------------------------------------------------------
(* The invariant.                                                          *)
InTable(level) == (\A value \in AdcValues : value <= 1023) => level < Len(pwm_level)

Typed ==
  /\ adc \in AdcValues /\ current_light_level \in 0..11
  /\ InTable(current_light_level)
  /\ clock_display_brightness \in Int
  /\ toBroker \in Seq(Int) /\ fromBroker \in Seq(Int)
  /\ \A i \in DOMAIN fromBroker : fromBroker[i] # Elsewhere

Followed == ~disturbed => \E b \in PwmLevel(current_light_level) : NewestIs(b)

\* What a tick publishes: the level and the brightness if the level is another one,
\* the sensor's value if the cycle is over.
LEMMA TickStep ==
  ASSUME Typed, Followed, light_sensor_tick
  PROVE  Typed' /\ Followed'
<1>1. PICK level : level = map_adc_to_level(adc)
  BY Zenon
<1>2. PICK changed, reports :
        /\ changed = (level # current_light_level) /\ reports = (cycle + 1 = ReportCycle)
  BY Zenon
<1>3. PICK d \in PwmLevel(level) :
        /\ clock_display_brightness' = IF changed THEN d ELSE clock_display_brightness
        /\ toBroker' = toBroker \o (IF changed THEN <<Elsewhere, d>> ELSE <<>>)
                                \o (IF reports THEN <<Elsewhere>> ELSE <<>>)
  BY <1>1, <1>2, Zenon DEF light_sensor_tick, Announced
<1>4. PICK b \in PwmLevel(level) :
        /\ changed => b = d
        /\ ~changed /\ ~disturbed =>
             Newest(fromBroker \o toBroker, clock_display_brightness, b)
  <2>1. CASE changed \/ disturbed
    BY <1>3, <2>1, Zenon
  <2>2. CASE ~changed /\ ~disturbed
    <3>1. PICK b \in PwmLevel(level) : NewestIs(b)
      BY <1>2, <2>2, Zenon DEF Followed
    <3>2. QED
      BY <2>2, <3>1, NewestBrightness, Zenon
  <2>3. QED
    BY <1>2, <2>1, <2>2, Zenon
<1>5. /\ level \in 0..11 /\ b \in Int /\ b # Elsewhere
      /\ InTable(level)
  <2>1. adc \in AdcValues /\ adc \in Nat
    BY SensorAssumption DEF Typed
  <2>2. level \in 0..11 /\ ((level < Len(pwm_level)) <=> (adc <= 1023))
    BY <1>1, <2>1, LevelOf
  <2>3. InTable(level)
    BY <2>1, <2>2 DEF InTable
  <2>4. b \in Int /\ b # Elsewhere
    <3>1. \A v \in 0..11 : \A c \in PwmLevel(v) : c \in Int /\ c # Elsewhere
      BY BrightnessOf
    <3>2. level \in 0..11
      BY <2>2
    <3>3. QED
      BY <1>4, <3>1, <3>2, Zenon
  <2>5. QED
    BY <2>2, <2>3, <2>4
<1>6. PICK a, r : /\ a = IF changed THEN <<Elsewhere, b>> ELSE <<>>
                  /\ r = IF reports THEN <<Elsewhere>> ELSE <<>>
  BY Zenon
<1>7. /\ current_light_level' = level
      /\ clock_display_brightness' = IF changed THEN b ELSE clock_display_brightness
      /\ toBroker' = toBroker \o a \o r
      /\ disturbed' = (disturbed /\ ~(changed /\ Empty))
      /\ adc' = adc /\ fromBroker' = fromBroker
  <2>1. a = IF changed THEN <<Elsewhere, d>> ELSE <<>>
    BY <1>4, <1>2, <1>6, Zenon
  <2>2. /\ current_light_level' = level
        /\ disturbed' = (disturbed /\ ~(changed /\ Empty))
        /\ adc' = adc /\ fromBroker' = fromBroker
    BY <1>1, <1>2, Zenon DEF light_sensor_tick
  <2>3. clock_display_brightness' = IF changed THEN b ELSE clock_display_brightness
    BY <1>4, <1>2, <1>3, Zenon
  <2>4. QED
    BY <1>6, <1>3, <2>1, <2>2, <2>3, Zenon
<1>8. a \in Seq(Int) /\ r \in Seq(Int) /\ toBroker \in Seq(Int) /\ fromBroker \in Seq(Int)
  BY <1>5, <1>6, ElsewhereType DEF Typed
<1>9. Typed'
  <2>1. clock_display_brightness' \in Int
    BY <1>5, <1>7, Zenon DEF Typed
  <2>2. toBroker \o a \in Seq(Int)
    BY <1>8, ConcatProperties, Zenon
  <2>3. toBroker' \in Seq(Int)
    BY <1>7, <1>8, <2>2, ConcatProperties, Zenon
  <2>4. QED
    BY <1>5, <1>7, <2>1, <2>3, Zenon DEF Typed
<1>10. PICK w : w = fromBroker \o (toBroker \o a)
  BY Zenon
<1>11. w \in Seq(Int) /\ fromBroker' \o toBroker' = w \o r
  <2>1. PICK t : t = toBroker \o a
    BY Zenon
  <2>2. t \in Seq(Int) /\ w = fromBroker \o t
    BY <1>8, <1>10, <2>1, ConcatProperties, Zenon
  <2>3. w \in Seq(Int)
    BY <1>8, <2>2, ConcatProperties, Zenon
  <2>4. PICK y : y = t \o r
    BY Zenon
  <2>5. w \o r = fromBroker \o y
    <3>1. Following(Int, fromBroker, t, r, w, y)
      BY <1>8, <2>2, <2>4, Zenon DEF Following
    <3>2. QED
      BY <3>1, Regrouped
  <2>6. QED
    BY <1>7, <2>1, <2>3, <2>4, <2>5, Zenon
<1>12. ASSUME ~disturbed' PROVE Newest(w, clock_display_brightness', b)
  <2>1. CASE changed
    <3>1. PICK v : v = (fromBroker \o toBroker) \o <<Elsewhere>>
      BY Zenon
    <3>2. <<Elsewhere>> \in Seq(Int) /\ <<b>> \in Seq(Int)
          /\ <<Elsewhere, b>> = <<Elsewhere>> \o <<b>>
      BY <1>5, ElsewhereType, Pair
    <3>3. PICK e, f : e = <<Elsewhere>> /\ f = <<b>>
      BY Zenon
    <3>4. /\ (fromBroker \o toBroker) \o e \in Seq(Int)
          /\ fromBroker \o (toBroker \o (e \o f)) = ((fromBroker \o toBroker) \o e) \o f
      <4>1. Four(Int, fromBroker, toBroker, e, f)
        BY <1>8, <3>2, <3>3, Zenon DEF Four
      <4>2. OneByOne(Int, fromBroker, toBroker, e, f)
        BY <4>1, Behind, Zenon
      <4>3. QED
        BY <4>2, Zenon DEF OneByOne
    <3>5. v \in Seq(Int) /\ w = v \o <<b>>
      BY <1>6, <1>10, <2>1, <3>1, <3>2, <3>3, <3>4, Zenon
    <3>6. QED
      BY <1>5, <3>5, Said, Zenon
  <2>2. CASE ~ changed
    <3>1. ~disturbed
      BY <1>7, <1>12, <2>2, Zenon
    <3>2. Newest(fromBroker \o toBroker, clock_display_brightness, b)
      BY <1>4, <2>2, <3>1, Zenon
    <3>3. toBroker \o <<>> = toBroker
      BY <1>8, ConcatEmptySeq
    <3>4. w = fromBroker \o toBroker /\ clock_display_brightness' = clock_display_brightness
      BY <1>6, <1>7, <1>10, <2>2, <3>3, Zenon
    <3>5. QED
      BY <3>2, <3>4, Zenon
  <2>3. QED
    BY <1>2, <2>1, <2>2, Zenon
<1>13. ASSUME ~disturbed' PROVE Newest(w \o r, clock_display_brightness', b)
  <2>1. CASE reports
    BY <1>6, <1>11, <1>12, <1>13, <2>1, NothingSaid, Zenon
  <2>2. CASE ~ reports
    <3>1. w \o <<>> = w
      BY <1>11, ConcatEmptySeq
    <3>2. QED
      BY <1>6, <1>12, <1>13, <2>2, <3>1, Zenon
  <2>3. QED
    BY <2>1, <2>2
<1>14. Followed'
  <2>1. ASSUME ~disturbed' PROVE (\E c \in PwmLevel(current_light_level) : NewestIs(c))'
    <3>1. Newest(fromBroker' \o toBroker', clock_display_brightness', b)
      BY <1>11, <1>13, <2>1, Zenon
    <3>2. b \in PwmLevel(current_light_level)'
      BY <1>4, <1>7, Zenon DEF PwmLevel
    <3>3. QED
      BY <3>1, <3>2, Zenon DEF NewestIs, Newest
  <2>2. QED
    BY <2>1, Zenon DEF Followed
<1>15. QED
  BY <1>9, <1>14

\* The clock's own value comes back, or a user's: it is shown, and its log message is
\* no brightness.
LEMMA DataStep ==
  ASSUME Typed, Followed, mqtt_data_cb
  PROVE  Typed' /\ Followed'
<1>1. PICK h, t, s : h = Head(fromBroker) /\ t = Tail(fromBroker) /\ s = <<Elsewhere>>
  BY Zenon
<1>2. /\ fromBroker # <<>> /\ clock_display_brightness' = h /\ fromBroker' = t
      /\ toBroker' = toBroker \o s
      /\ UNCHANGED <<adc, current_light_level, disturbed>>
  BY <1>1, Zenon DEF mqtt_data_cb, Logged
<1>3. toBroker \in Seq(Int) /\ fromBroker \in Seq(Int) /\ s \in Seq(Int)
  BY <1>1, ElsewhereType DEF Typed
<1>4. PICK n \in Nat : n + 1 = Len(fromBroker)
  <2>1. Len(fromBroker) - 1 \in Nat /\ (Len(fromBroker) - 1) + 1 = Len(fromBroker)
    BY <1>2, <1>3
  <2>2. QED
    BY <2>1, Zenon
<1>5. /\ h \in Int /\ t \in Seq(Int) /\ h = fromBroker[1]
      /\ DOMAIN fromBroker = 1..n+1 /\ DOMAIN t = 1..n
      /\ \A k \in 1..n : t[k] = fromBroker[k + 1]
  BY <1>1, <1>2, <1>3, <1>4
<1>6. 1 \in 1..n+1 /\ \A k \in 1..n : k + 1 \in 1..n+1
  OBVIOUS
<1>7. h # Elsewhere /\ \A k \in DOMAIN t : t[k] # Elsewhere
  BY <1>5, <1>6, Zenon DEF Typed
<1>8. Typed'
  <2>1. toBroker' \in Seq(Int)
    BY <1>2, <1>3, ConcatProperties, Zenon
  <2>2. QED
    BY <1>2, <1>5, <1>7, <2>1, Zenon DEF Typed
<1>9. PICK w : w = fromBroker \o toBroker
  BY Zenon
<1>10. w \in Seq(Int) /\ w # <<>> /\ Head(w) = h /\ Tail(w) = t \o toBroker
  <2>1. PICK p, y : p = fromBroker /\ y = toBroker
    BY Zenon
  <2>2. p \in Seq(Int) /\ y \in Seq(Int) /\ p # <<>>
    BY <1>2, <1>3, <2>1, Zenon
  <2>3. /\ p \o y \in Seq(Int) /\ p \o y # <<>>
        /\ Head(p \o y) = Head(p) /\ Tail(p \o y) = Tail(p) \o y
    BY <2>2, FirstLeaves, Zenon
  <2>4. w = p \o y /\ h = Head(p) /\ t = Tail(p)
    BY <1>1, <1>9, <2>1, Zenon
  <2>5. QED
    BY <2>1, <2>3, <2>4, Zenon
<1>11. fromBroker' \o toBroker' = Tail(w) \o s
  <2>1. PICK x, y : x = t \o toBroker /\ y = toBroker \o s
    BY Zenon
  <2>2. Following(Int, t, toBroker, s, x, y)
    BY <1>3, <1>5, <2>1, Zenon DEF Following
  <2>3. x \o s = t \o y
    BY <2>2, Regrouped
  <2>4. QED
    BY <1>2, <1>10, <2>1, <2>3, Zenon
<1>12. ASSUME ~disturbed' PROVE (\E c \in PwmLevel(current_light_level) : NewestIs(c))'
  <2>1. PICK b \in PwmLevel(current_light_level) : NewestIs(b)
    BY <1>2, <1>12, Zenon DEF Followed
  <2>2. Newest(w, clock_display_brightness, b)
    BY <1>9, <2>1, NewestBrightness, Zenon
  <2>3. Tail(w) \in Seq(Int)
    BY <1>10
  <2>4. Newest(Tail(w), h, b)
    BY <1>7, <1>10, <2>2, Arrived, Zenon
  <2>5. Newest(Tail(w) \o s, h, b)
    BY <1>1, <2>3, <2>4, NothingSaid, Zenon
  <2>6. Newest(fromBroker' \o toBroker', clock_display_brightness', b)
    BY <1>2, <1>11, <2>5, Zenon
  <2>7. b \in PwmLevel(current_light_level)'
    BY <1>2, <2>1, Zenon DEF PwmLevel
  <2>8. QED
    BY <2>6, <2>7, Zenon DEF NewestIs, Newest
<1>13. QED
  BY <1>8, <1>12, Zenon DEF Followed

\* What is on its way stays as it is.
LEMMA StillFollowed ==
  ASSUME Followed, UNCHANGED <<current_light_level, clock_display_brightness, disturbed>>,
         (fromBroker \o toBroker)' = fromBroker \o toBroker
  PROVE  Followed'
<1>1. ASSUME ~disturbed' PROVE (\E c \in PwmLevel(current_light_level) : NewestIs(c))'
  <2>1. PICK b \in PwmLevel(current_light_level) : NewestIs(b)
    BY <1>1, Zenon DEF Followed
  <2>2. Newest(fromBroker \o toBroker, clock_display_brightness, b)
    BY <2>1, NewestBrightness, Zenon
  <2>3. Newest((fromBroker \o toBroker)', clock_display_brightness', b)
    BY <2>2, Zenon
  <2>4. b \in PwmLevel(current_light_level)'
    BY <2>1, Zenon DEF PwmLevel
  <2>5. QED
    BY <2>3, <2>4, Zenon DEF NewestIs, Newest
<1>2. QED
  BY <1>1, Zenon DEF Followed

\* One less of the messages on their way, and it was no brightness.
LEMMA LeavingStep ==
  ASSUME Followed, UNCHANGED <<current_light_level, clock_display_brightness>>,
         ~disturbed' => ~disturbed,
         fromBroker \o toBroker \in Seq(Int),
         NEW i, Without(fromBroker \o toBroker, i, (fromBroker \o toBroker)'),
         (fromBroker \o toBroker)[i] = Elsewhere
  PROVE  Followed'
<1>1. PICK w, u : w = fromBroker \o toBroker /\ u = (fromBroker \o toBroker)'
  BY Zenon
<1>2. ASSUME ~disturbed' PROVE (\E c \in PwmLevel(current_light_level) : NewestIs(c))'
  <2>1. PICK b \in PwmLevel(current_light_level) : NewestIs(b)
    BY <1>2, Zenon DEF Followed
  <2>2. Newest(w, clock_display_brightness, b)
    BY <1>1, <2>1, NewestBrightness, Zenon
  <2>3. Newest(u, clock_display_brightness, b)
    BY <1>1, <2>2, Left, Zenon
  <2>4. b \in PwmLevel(current_light_level)'
    BY <2>1, Zenon DEF PwmLevel
  <2>5. QED
    BY <1>1, <2>3, <2>4, Zenon DEF NewestIs, Newest
<1>3. QED
  BY <1>2, Zenon DEF Followed

\* The broker keeps the order, so what is on its way stays as it is but for the
\* messages of other topics, which end here.
LEMMA ForwardStep ==
  ASSUME Typed, Followed, BrokerForwards
  PROVE  Typed' /\ Followed'
<1>1. PICK f, g, h, t : f = fromBroker /\ g = toBroker /\ h = Head(toBroker) /\ t = Tail(toBroker)
  BY Zenon
<1>2. /\ g # <<>> /\ toBroker' = t
      /\ fromBroker' = IF h = Elsewhere THEN f ELSE Append(f, h)
      /\ UNCHANGED <<adc, current_light_level, clock_display_brightness, disturbed>>
  BY <1>1, Zenon DEF BrokerForwards
<1>3. g \in Seq(Int) /\ f \in Seq(Int) /\ \A k \in DOMAIN f : f[k] # Elsewhere
  BY <1>1, Zenon DEF Typed
<1>4. h \in Int /\ t \in Seq(Int) /\ g = <<h>> \o t
  BY <1>1, <1>2, <1>3
<1>5. CASE h = Elsewhere
  <2>1. Typed'
    BY <1>1, <1>2, <1>4, <1>5, Zenon DEF Typed
  <2>2. PICK m \in Nat : m = Len(f)
    BY <1>3
  <2>3. Without(f \o g, m + 1, f \o t) /\ (f \o g)[m + 1] = h /\ f \o g \in Seq(Int)
    BY <1>1, <1>2, <1>3, <1>4, <2>2 DEF Without
  <2>4. (fromBroker \o toBroker)' = f \o t
    BY <1>2, <1>5, Zenon
  <2>5. Followed'
    BY <1>1, <1>2, <1>5, <2>3, <2>4, LeavingStep, Zenon
  <2>6. QED
    BY <2>1, <2>5
<1>6. CASE h # Elsewhere
  <2>1. fromBroker' = f \o <<h>> /\ <<h>> \in Seq(Int)
    BY <1>2, <1>3, <1>4, <1>6
  <2>2. fromBroker' \in Seq(Int) /\ \A k \in DOMAIN fromBroker' : fromBroker'[k] # Elsewhere
    BY <1>3, <1>4, <1>6, <2>1
  <2>3. Typed'
    BY <1>1, <1>2, <1>4, <2>2, Zenon DEF Typed
  <2>4. (fromBroker \o toBroker)' = fromBroker \o toBroker
    <3>1. PICK e, x : e = <<h>> /\ x = f \o e
      BY Zenon
    <3>2. Following(Int, f, e, t, x, g)
      BY <1>3, <1>4, <2>1, <3>1, Zenon DEF Following
    <3>3. x \o t = f \o g
      BY <3>2, Regrouped
    <3>4. QED
      BY <1>1, <1>2, <2>1, <3>1, <3>3, Zenon
  <2>5. Followed'
    BY <1>2, <2>4, StillFollowed, Zenon
  <2>6. QED
    BY <2>3, <2>5
<1>7. QED
  BY <1>5, <1>6

\* The loss of a brightness, or of anything that is coming back, disturbs; that of
\* another message does not.
LEMMA LossStep ==
  ASSUME Typed, Followed, MessageLost
  PROVE  Typed' /\ Followed'
<1>1. PICK f, g : f = fromBroker /\ g = toBroker
  BY Zenon
<1>2. g \in Seq(Int) /\ f \in Seq(Int) /\ \A k \in DOMAIN f : f[k] # Elsewhere
  BY <1>1, Zenon DEF Typed
<1>3. UNCHANGED <<adc, current_light_level, clock_display_brightness>>
  BY Zenon DEF MessageLost
<1>4. ASSUME NEW i \in DOMAIN g, toBroker' = RemoveAt(g, i), fromBroker' = f,
             disturbed' = (disturbed \/ g[i] # Elsewhere)
      PROVE  Typed' /\ Followed'
  <2>1. PICK u : u = RemoveAt(g, i)
    BY Zenon
  <2>2. Without(g, i, u)
    BY <1>2, <2>1, Removed, Zenon
  <2>3. Typed'
    BY <1>1, <1>3, <1>4, <2>1, <2>2, Zenon DEF Typed, Without
  <2>4. PICK m : m = Len(f)
    BY Zenon
  <2>5. Without(f \o g, m + i, f \o u) /\ (f \o g)[m + i] = g[i] /\ f \o g \in Seq(Int)
    BY <1>2, <2>2, <2>4, WithoutBehind, Zenon
  <2>6. (fromBroker \o toBroker)' = f \o u
    BY <1>4, <2>1, Zenon
  <2>7. CASE g[i] = Elsewhere
    BY <1>1, <1>3, <1>4, <2>3, <2>5, <2>6, <2>7, LeavingStep, Zenon
  <2>8. CASE g[i] # Elsewhere
    BY <1>4, <2>3, <2>8, Zenon DEF Followed
  <2>9. QED
    BY <2>7, <2>8
<1>5. ASSUME NEW i \in DOMAIN f, fromBroker' = RemoveAt(f, i), toBroker' = g, disturbed' = TRUE
      PROVE  Typed' /\ Followed'
  <2>1. PICK u : u = RemoveAt(f, i)
    BY Zenon
  <2>2. Without(f, i, u)
    BY <1>2, <2>1, Removed, Zenon
  <2>3. u \in Seq(Int) /\ \A k \in DOMAIN u : u[k] # Elsewhere
    <3>1. PICK n \in Nat : n = Len(u)
      BY <2>2 DEF Without
    <3>2. /\ u \in Seq(Int) /\ DOMAIN u = 1..n /\ DOMAIN f = 1..n+1
          /\ \A k \in 1..n : u[k] = IF k < i THEN f[k] ELSE f[k + 1]
      BY <1>2, <2>2, <3>1 DEF Without
    <3>3. \A k \in 1..n : k \in 1..n+1 /\ k + 1 \in 1..n+1
      OBVIOUS
    <3>4. QED
      BY <1>2, <3>2, <3>3, Zenon
  <2>4. Typed'
    BY <1>1, <1>3, <1>5, <2>1, <2>3, Zenon DEF Typed
  <2>5. QED
    BY <1>5, <2>4, Zenon DEF Followed
<1>6. QED
  BY <1>1, <1>4, <1>5, Zenon DEF MessageLost

LEMMA UserStep ==
  ASSUME Typed, Followed, UserPublishes
  PROVE  Typed' /\ Followed'
<1>1. PICK value \in UserValues : fromBroker' = Append(fromBroker, value)
  BY Zenon DEF UserPublishes
<1>2. value \in Int /\ value # Elsewhere
  BY SensorAssumption
<1>3. /\ fromBroker' \in Seq(Int)
      /\ \A k \in DOMAIN fromBroker' : fromBroker'[k] # Elsewhere
  BY <1>1, <1>2 DEF Typed
<1>4. /\ disturbed' = TRUE
      /\ UNCHANGED <<adc, current_light_level, clock_display_brightness, toBroker>>
  BY Zenon DEF UserPublishes
<1>5. QED
  BY <1>3, <1>4, Zenon DEF Typed, Followed

LEMMA SensorStep ==
  ASSUME Typed /\ Followed, [Next]_vars
  PROVE  Typed' /\ Followed'
<1>1. CASE light_sensor_tick
  BY <1>1, TickStep
<1>2. CASE mqtt_data_cb
  BY <1>2, DataStep
<1>3. CASE BrokerForwards
  BY <1>3, ForwardStep
<1>4. CASE UserPublishes
  BY <1>4, UserStep
<1>5. CASE MessageLost
  BY <1>5, LossStep
<1>6. ASSUME adc' \in AdcValues,
             UNCHANGED <<current_light_level, clock_display_brightness, toBroker, fromBroker,
                         disturbed>>
      PROVE  Typed' /\ Followed'
  <2>1. Typed'
    BY <1>6, Zenon DEF Typed
  <2>2. (fromBroker \o toBroker)' = fromBroker \o toBroker
    BY <1>6, Zenon
  <2>3. Followed'
    BY <1>6, <2>2, StillFollowed, Zenon
  <2>4. QED
    BY <2>1, <2>3
<1>7. CASE LightChanges
  BY <1>6, <1>7, Zenon DEF LightChanges
<1>8. CASE CalmsDown \/ UNCHANGED vars
  <2>1. adc' \in AdcValues
    BY <1>8, Zenon DEF CalmsDown, vars, Typed
  <2>2. QED
    BY <1>6, <1>8, <2>1, Zenon DEF CalmsDown, vars
<1>9. QED
  BY <1>1, <1>2, <1>3, <1>4, <1>5, <1>7, <1>8, Zenon DEF Next

LEMMA SensorInvariant == Spec => [](Typed /\ Followed)
<1>1. Init => Typed /\ Followed
  BY DEF Init, Typed, Followed, InTable, pwm_level
<1>2. QED
  BY <1>1, SensorStep, PTL DEF Spec

(* Whatever the sensor reads and however late the clock's own messages come *)
(* back, the brightness it will end up with is one that pwm_level gives    *)
(* for the last level light_sensor_tick has set.                           *)
THEOREM NewestIsFollowed == Spec => []NewestFollowsLight
<1>1. Typed /\ Followed => NewestFollowsLight
  BY Zenon DEF Followed, NewestFollowsLight
<1>2. QED
  BY <1>1, SensorInvariant, PTL

(* Which sensor values lead light_sensor_tick behind the end of pwm_level   *)
(* (light_sensor.c:45): exactly those above 1023, which map_adc_to_level   *)
(* has a return of its own for (25) and nothing clamps.  A sensor that     *)
(* never reads more keeps every index within the array.                    *)
THEOREM LevelsInRange ==
  /\ \A value \in Nat : (map_adc_to_level(value) < Len(pwm_level)) <=> (value <= 1023)
  /\ Spec => []((\A value \in AdcValues : value <= 1023) =>
                  current_light_level < Len(pwm_level))
<1>1. \A value \in Nat : (map_adc_to_level(value) < Len(pwm_level)) <=> (value <= 1023)
  BY LevelOf
<1>2. Typed => ((\A value \in AdcValues : value <= 1023) =>
                  current_light_level < Len(pwm_level))
  BY Zenon DEF Typed, InTable
<1>3. Spec => []((\A value \in AdcValues : value <= 1023) =>
                  current_light_level < Len(pwm_level))
  BY <1>2, SensorInvariant, PTL
<1>4. QED
  BY <1>1, <1>3
=============================================================================
