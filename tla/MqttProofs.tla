----------------------------- MODULE MqttProofs -----------------------------
(***************************************************************************)
(* What the readers of mqtt_msg.c get out of what its builders put in, for *)
(* every topic, payload and identifier and every length that fits the      *)
(* buffer: on both sides of 127, where the header grows by a byte.  And    *)
(* what a broker reads from a CONNECT: the strings its flags announce, in  *)
(* the order of the body, for every configuration of the connection.       *)
(***************************************************************************)
EXTENDS MqttBuild, MqttRecv, SequenceTheorems, WellFoundedInduction, TLAPS

(* The lesser and the greater of two.                                      *)
LEMMA MinOf ==
  ASSUME NEW S, NEW x \in S, S \subseteq Int, \A y \in S : x <= y
  PROVE  Min(S) = x
<1>1. \A z \in S : (\A y \in S : z <= y) => z = x
  OBVIOUS
<1>2. QED
  BY <1>1 DEF Min

LEMMA MaxOf ==
  ASSUME NEW S, NEW x \in S, S \subseteq Int, \A y \in S : x >= y
  PROVE  Max(S) = x
<1>1. \A z \in S : (\A y \in S : z >= y) => z = x
  OBVIOUS
<1>2. QED
  BY <1>1 DEF Max

-----------------------------------------------------------------------------
(* The bytes s stand in b from the offset i on.                            *)
Holds(b, i, s) ==
  /\ i + Len(s) <= Len(b)
  /\ \A k \in 1..Len(s) : b[i + k] = s[k]

(* What follows one another is as long as the two.                         *)
LEMMA Joined ==
  ASSUME NEW T, NEW r \in Seq(T), NEW s \in Seq(T)
  PROVE  r \o s \in Seq(T) /\ Len(r \o s) = Len(r) + Len(s)
OBVIOUS

(* What stands behind one another can be read one after the other.         *)
LEMMA HoldsJoined ==
  ASSUME NEW b \in Seq(Byte), NEW i \in Nat, NEW r \in Seq(Byte), NEW s \in Seq(Byte),
         Holds(b, i, r \o s)
  PROVE  /\ Holds(b, i, r) /\ Holds(b, i + Len(r), s)
         /\ r \o s \in Seq(Byte) /\ Len(r \o s) = Len(r) + Len(s)
<1>1. /\ r \o s \in Seq(Byte) /\ Len(r \o s) = Len(r) + Len(s)
      /\ \A k \in 1..Len(r) : (r \o s)[k] = r[k]
      /\ \A k \in 1..Len(s) : (r \o s)[Len(r) + k] = s[k]
      /\ Len(r) \in Nat /\ Len(s) \in Nat /\ Len(b) \in Nat
  OBVIOUS
<1>2. /\ i + (Len(r) + Len(s)) <= Len(b)
      /\ \A k \in 1..Len(r) + Len(s) : b[i + k] = (r \o s)[k]
  BY <1>1 DEF Holds
<1>3. Holds(b, i, r)
  <2>1. i + Len(r) <= Len(b)
    BY <1>1, <1>2
  <2>2. ASSUME NEW k \in 1..Len(r) PROVE b[i + k] = r[k]
    <3>1. k \in 1..Len(r) + Len(s)
      BY <1>1
    <3>2. QED
      BY <1>1, <1>2, <3>1, Zenon
  <2>3. QED
    BY <2>1, <2>2, Zenon DEF Holds
<1>4. ASSUME NEW k \in 1..Len(s) PROVE b[(i + Len(r)) + k] = s[k]
  <2>1. Len(r) + k \in 1..Len(r) + Len(s) /\ i + (Len(r) + k) = (i + Len(r)) + k
    BY <1>1
  <2>2. QED
    BY <1>1, <1>2, <2>1
<1>5. Holds(b, i + Len(r), s)
  BY <1>1, <1>2, <1>4 DEF Holds
<1>6. QED
  BY <1>1, <1>3, <1>5

(* A piece of the buffer is what stands there.                             *)
LEMMA HoldsPiece ==
  ASSUME NEW b \in Seq(Byte), NEW i \in Nat, NEW s \in Seq(Byte), Holds(b, i, s)
  PROVE  SubSeq(b, i + 1, i + Len(s)) = s
<1>1. /\ Len(s) \in Nat /\ Len(b) \in Nat /\ i + Len(s) <= Len(b)
      /\ \A k \in 1..Len(s) : b[i + k] = s[k]
  BY DEF Holds
<1> DEFINE p == SubSeq(b, i + 1, i + Len(s))
<1>2. p \in Seq(Byte) /\ Len(p) = Len(s) /\ \A k \in 1..Len(s) : p[k] = b[i + k]
  BY <1>1
<1> HIDE DEF p
<1>3. \A k \in 1..Len(s) : p[k] = s[k]
  BY <1>1, <1>2
<1>4. p = s
  BY <1>2, <1>3, SeqEqual
<1>5. QED
  BY <1>4 DEF p

LEMMA ByteIs == \A v \in Int : v \in Byte <=> (v >= 0 /\ v <= 255)
BY DEF Byte

(* A number of 16 bits, and a string whose length is one.                  *)
IsWord(n) == n < 65536
Short(s) == IsWord(Len(s))

(* A 16-bit number in two bytes.                                           *)
LEMMA U16Bytes ==
  ASSUME NEW n \in Nat, IsWord(n)
  PROVE  U16(n) \in Seq(Byte) /\ Len(U16(n)) = 2
<1>1. n \div 256 \in Int /\ n \div 256 >= 0 /\ n \div 256 <= 255
  BY DEF IsWord
<1>2. (n % 256) \in Int /\ (n % 256) >= 0 /\ (n % 256) <= 255
  OBVIOUS
<1>3. n \div 256 \in Byte /\ (n % 256) \in Byte
  BY <1>1, <1>2, ByteIs
<1>4. QED
  BY <1>3 DEF U16

LEMMA HoldsU16 ==
  ASSUME NEW b \in Seq(Byte), NEW i \in Nat, NEW n \in Nat, Holds(b, i, U16(n))
  PROVE  At16(b, i) = n
<1> DEFINE hi == n \div 256
           lo == n % 256
<1>1. hi * 256 + lo = n
  OBVIOUS
<1>2. U16(n) = <<hi, lo>>
  BY DEF U16
<1> HIDE DEF hi, lo
<1>3. b[i + 1] = hi /\ b[i + 2] = lo
  BY <1>2 DEF Holds
<1>4. QED
  BY <1>1, <1>3 DEF At16

(* A string with its length before it.                                     *)
LEMMA HoldsString ==
  ASSUME NEW b \in Seq(Byte), NEW i \in Nat, NEW s \in Seq(Byte), Short(s),
         Holds(b, i, String(s))
  PROVE  /\ At16(b, i) = Len(s)
         /\ SubSeq(b, i + 3, i + 2 + Len(s)) = s
<1> DEFINE u == U16(Len(s))
<1>1. Len(s) \in Nat
  OBVIOUS
<1>2. u \in Seq(Byte) /\ Len(u) = 2 /\ String(s) = u \o s
  BY <1>1, U16Bytes DEF String, Short
<1>3. Holds(b, i, u) /\ Holds(b, i + 2, s)
  <2> HIDE DEF u
  <2>1. Holds(b, i, u \o s)
    BY <1>2
  <2>2. u \in Seq(Byte)
    BY <1>2
  <2>3. Holds(b, i, u) /\ Holds(b, i + Len(u), s)
    BY <2>1, <2>2, HoldsJoined
  <2>4. QED
    BY <1>2, <2>3
<1>4. At16(b, i) = Len(s)
  BY <1>1, <1>3, HoldsU16
<1>5. SubSeq(b, (i + 2) + 1, (i + 2) + Len(s)) = s
  BY <1>3, HoldsPiece
<1>6. (i + 2) + 1 = i + 3
  OBVIOUS
<1>7. QED
  BY <1>4, <1>5, <1>6

LEMMA StringType ==
  ASSUME NEW s \in Seq(Byte), Short(s)
  PROVE  String(s) \in Seq(Byte) /\ Len(String(s)) = 2 + Len(s)
<1> DEFINE u == U16(Len(s))
<1>1. Len(s) \in Nat
  OBVIOUS
<1>2. u \in Seq(Byte) /\ Len(u) = 2 /\ String(s) = u \o s
  BY <1>1, U16Bytes DEF String, Short
<1> HIDE DEF u
<1>3. u \o s \in Seq(Byte) /\ Len(u \o s) = 2 + Len(s)
  <2>1. u \in Seq(Byte)
    BY <1>2
  <2>2. u \o s \in Seq(Byte) /\ Len(u \o s) = Len(u) + Len(s)
    BY <2>1, Joined
  <2>3. QED
    BY <1>2, <2>2
<1>4. QED
  BY <1>2, <1>3

-----------------------------------------------------------------------------
(* The recursive function of Sevens, once a function is known that         *)
(* satisfies its equation.                                                 *)
SumsSevens(b, n, f) ==
  f = [i \in 1..n+1 |-> IF i > n THEN 0 ELSE (b[i + 1] % 128) + 128 * f[i + 1]]

LEMMA SevensUnfolded ==
  ASSUME NEW b, NEW n, NEW w, SumsSevens(b, n, w)
  PROVE  \E f : SumsSevens(b, n, f) /\ Sevens(b, n) = f[1]
<1> DEFINE from[i \in 1..n+1] == IF i > n THEN 0 ELSE (b[i + 1] % 128) + 128 * from[i + 1]
<1>1. SumsSevens(b, n, from)
  BY ZenonT(60) DEF SumsSevens
<1>2. Sevens(b, n) = from[1]
  BY Zenon DEF Sevens
<1> HIDE DEF from
<1>3. QED
  BY <1>1, <1>2

(* The sums of up to four length bytes.                                    *)
Seven(v, r) == (v % 128) + 128 * r

LEMMA SevensAre ==
  ASSUME NEW b, NEW n, NEW w, SumsSevens(b, n, w)
  PROVE  \E f : /\ Sevens(b, n) = f[1]
               /\ \A i \in 1..n+1 : f[i] = IF i > n THEN 0 ELSE Seven(b[i + 1], f[i + 1])
<1>1. PICK f : SumsSevens(b, n, f) /\ Sevens(b, n) = f[1]
  BY SevensUnfolded, Zenon
<1>2. f = [i \in 1..n+1 |-> IF i > n THEN 0 ELSE (b[i + 1] % 128) + 128 * f[i + 1]]
  BY <1>1, Zenon DEF SumsSevens
<1>3. \A i \in 1..n+1 : f[i] = IF i > n THEN 0 ELSE (b[i + 1] % 128) + 128 * f[i + 1]
  BY <1>2, Zenon
<1>4. QED
  BY <1>1, <1>3, ZenonT(30) DEF Seven

LEMMA OneSeven ==
  ASSUME NEW b, b[2] \in Nat
  PROVE  Sevens(b, 1) = Seven(b[2], 0)
<1> DEFINE w == [i \in 1..1+1 |-> IF i = 1 THEN b[2] % 128 ELSE 0]
<1>1. SumsSevens(b, 1, w)
  BY DEF SumsSevens
<1> HIDE DEF w
<1>2. PICK f : /\ Sevens(b, 1) = f[1]
               /\ \A i \in 1..1+1 : f[i] = IF i > 1 THEN 0 ELSE Seven(b[i + 1], f[i + 1])
  BY <1>1, SevensAre
<1>3. f[2] = 0 /\ f[1] = Seven(b[2], f[2])
  BY <1>2
<1>4. QED
  BY <1>2, <1>3, Zenon

LEMMA TwoSevens ==
  ASSUME NEW b, b[2] \in Nat, b[3] \in Nat
  PROVE  Sevens(b, 2) = Seven(b[2], Seven(b[3], 0))
<1> DEFINE y == b[3] % 128
           w == [i \in 1..2+1 |-> IF i = 1 THEN (b[2] % 128) + 128 * y
                                  ELSE IF i = 2 THEN y ELSE 0]
<1>1. SumsSevens(b, 2, w)
  BY DEF SumsSevens
<1> HIDE DEF w
<1>2. PICK f : /\ Sevens(b, 2) = f[1]
               /\ \A i \in 1..2+1 : f[i] = IF i > 2 THEN 0 ELSE Seven(b[i + 1], f[i + 1])
  BY <1>1, SevensAre
<1>3. f[3] = 0 /\ f[2] = Seven(b[3], f[3]) /\ f[1] = Seven(b[2], f[2])
  BY <1>2
<1>4. QED
  BY <1>2, <1>3, Zenon

LEMMA ThreeSevens ==
  ASSUME NEW b, b[2] \in Nat, b[3] \in Nat, b[4] \in Nat
  PROVE  Sevens(b, 3) = Seven(b[2], Seven(b[3], Seven(b[4], 0)))
<1> DEFINE z == b[4] % 128
           y == (b[3] % 128) + 128 * z
           w == [i \in 1..3+1 |-> IF i = 1 THEN (b[2] % 128) + 128 * y
                                  ELSE IF i = 2 THEN y ELSE IF i = 3 THEN z ELSE 0]
<1>1. SumsSevens(b, 3, w)
  BY DEF SumsSevens
<1> HIDE DEF w
<1>2. PICK f : /\ Sevens(b, 3) = f[1]
               /\ \A i \in 1..3+1 : f[i] = IF i > 3 THEN 0 ELSE Seven(b[i + 1], f[i + 1])
  BY <1>1, SevensAre
<1>3. /\ f[4] = 0 /\ f[3] = Seven(b[4], f[4])
      /\ f[2] = Seven(b[3], f[3]) /\ f[1] = Seven(b[2], f[2])
  BY <1>2
<1>4. QED
  BY <1>2, <1>3, Zenon

LEMMA FourSevens ==
  ASSUME NEW b, b[2] \in Nat, b[3] \in Nat, b[4] \in Nat, b[5] \in Nat
  PROVE  Sevens(b, 4) = Seven(b[2], Seven(b[3], Seven(b[4], Seven(b[5], 0))))
<1> DEFINE u == b[5] % 128
           z == (b[4] % 128) + 128 * u
           y == (b[3] % 128) + 128 * z
           w == [i \in 1..4+1 |-> IF i = 1 THEN (b[2] % 128) + 128 * y
                                  ELSE IF i = 2 THEN y ELSE IF i = 3 THEN z
                                  ELSE IF i = 4 THEN u ELSE 0]
<1>1. SumsSevens(b, 4, w)
  BY DEF SumsSevens
<1> HIDE DEF w
<1>2. PICK f : /\ Sevens(b, 4) = f[1]
               /\ \A i \in 1..4+1 : f[i] = IF i > 4 THEN 0 ELSE Seven(b[i + 1], f[i + 1])
  BY <1>1, SevensAre
<1>3. /\ f[5] = 0 /\ f[4] = Seven(b[5], f[5]) /\ f[3] = Seven(b[4], f[4])
      /\ f[2] = Seven(b[3], f[3]) /\ f[1] = Seven(b[2], f[2])
  BY <1>2
<1>4. QED
  BY <1>2, <1>3, Zenon

(* The remaining length in one byte, and in two.                           *)
LEMMA OneLengthByte ==
  ASSUME NEW b, NEW length, HeaderEnd(b, length) = 2, b[2] \in Nat, b[2] < 128
  PROVE  RemainingLength(b, length) = b[2]
<1>1. Seven(b[2], 0) = b[2]
  BY DEF Seven
<1>2. Sevens(b, 1) = b[2]
  BY <1>1, OneSeven
<1>3. QED
  BY <1>2 DEF RemainingLength

LEMMA TwoLengthBytes ==
  ASSUME NEW b, NEW length, HeaderEnd(b, length) = 3,
         b[2] \in Nat, b[2] >= 128, b[2] < 256, b[3] \in Nat, b[3] < 128
  PROVE  RemainingLength(b, length) = (b[2] - 128) + 128 * b[3]
<1>1. Seven(b[2], Seven(b[3], 0)) = (b[2] - 128) + 128 * b[3]
  <2>1. Seven(b[3], 0) = b[3]
    BY DEF Seven
  <2>2. Seven(b[2], b[3]) = (b[2] - 128) + 128 * b[3]
    BY DEF Seven
  <2>3. QED
    BY <2>1, <2>2, Zenon
<1>2. Sevens(b, 2) = (b[2] - 128) + 128 * b[3]
  BY <1>1, TwoSevens
<1>3. QED
  BY <1>2 DEF RemainingLength

(* A finished message: its header gives back type, QoS, retain flag and    *)
(* length, and its body stands behind the header.                          *)
Finished(b, type, qos, retain, body) ==
  LET e == HeaderEnd(b, Len(b))
  IN  /\ b \in Seq(Byte) /\ b # <<>>
      /\ (e = 2 \/ e = 3) /\ Len(b) = e + Len(body)
      /\ mqtt_get_type(b) = type /\ mqtt_get_qos(b) = qos
      /\ mqtt_get_retain(b) = retain
      /\ mqtt_get_total_length(b, Len(b)) = Len(b)
      /\ Holds(b, e, body)
      /\ Len(body) <= 127 => e = 2 /\ b[2] = Len(body)

LEMMA MessageBuilt ==
  ASSUME NEW type \in Nat, type < 16, NEW qos \in Nat, qos < 4, NEW retain \in Nat, retain < 2,
         NEW body \in Seq(Byte), Fits(body)
  PROVE  Finished(fini_message(type, qos, retain, body), type, qos, retain, body)
<1> DEFINE n == Len(body)
           b == fini_message(type, qos, retain, body)
           h == type * 16 + (qos % 4) * 2 + (retain % 2)
           ends == {i \in 1..Len(b)-1 : b[i + 1] < 128}
<1>1. n \in Nat /\ n <= 16383
  BY BuildAssumption DEF Fits
<1>2. /\ h = type * 16 + qos * 2 + retain /\ h \in Byte
      /\ h \div 16 = type /\ (h % 8) \div 2 = qos /\ h % 2 = retain
  BY DEF Byte
<1> HIDE DEF h
<1>3. CASE n <= 127
  <2>1. b = <<h>> \o <<n>> \o body
    BY <1>3 DEF fini_message, LengthBytes, h
  <2>2. n \in Byte
    BY <1>1, <1>3, ByteIs
  <2>3. /\ b \in Seq(Byte) /\ Len(b) = 2 + n /\ b[1] = h /\ b[2] = n
        /\ \A k \in 1..n : b[2 + k] = body[k]
    BY <1>2, <2>1, <2>2
  <2> HIDE DEF b, n
  <2>4. ends \subseteq Int /\ 1 \in ends /\ \A y \in ends : 1 <= y
    BY <1>1, <1>3, <2>3
  <2>5. HeaderEnd(b, Len(b)) = 2
    <3>1. HeaderEnd(b, Len(b)) = IF ends = {} THEN Max({1, Len(b)}) ELSE Min(ends) + 1
      BY Zenon DEF HeaderEnd
    <3> HIDE DEF ends
    <3>2. Min(ends) = 1 /\ ends # {}
      BY <2>4, MinOf
    <3>3. QED
      BY <3>1, <3>2
  <2>6. RemainingLength(b, Len(b)) = n
    BY <1>1, <1>3, <2>3, <2>5, OneLengthByte
  <2>7. QED
    BY <1>1, <1>2, <1>3, <2>3, <2>5, <2>6
       DEF mqtt_get_type, mqtt_get_qos, mqtt_get_retain, mqtt_get_total_length, Holds, n, b, Finished
<1>4. CASE n > 127
  <2> DEFINE lo == 128 + (n % 128)
             hi == n \div 128
  <2>1. b = <<h>> \o <<lo, hi>> \o body
    BY <1>4 DEF fini_message, LengthBytes, h
  <2>2. /\ lo \in Nat /\ lo >= 128 /\ lo < 256 /\ hi \in Nat /\ hi < 128
        /\ (lo - 128) + 128 * hi = n
    BY <1>1, <1>4
  <2> HIDE DEF lo, hi
  <2>3. lo \in Byte /\ hi \in Byte
    BY <2>2, ByteIs
  <2>4. /\ b \in Seq(Byte) /\ Len(b) = 3 + n /\ b[1] = h /\ b[2] = lo /\ b[3] = hi
        /\ \A k \in 1..n : b[3 + k] = body[k]
    BY <1>2, <2>1, <2>3
  <2> HIDE DEF b, n
  <2>5. ends \subseteq Int /\ 2 \in ends /\ \A y \in ends : 2 <= y
    <3>1. 1 \notin ends
      BY <2>2, <2>4
    <3>2. QED
      BY <1>1, <2>2, <2>4, <3>1
  <2>6. HeaderEnd(b, Len(b)) = 3
    <3>1. Min(ends) = 2
      BY <2>5, MinOf
    <3>2. HeaderEnd(b, Len(b)) = Min(ends) + 1
      BY <2>5 DEF HeaderEnd
    <3>3. QED
      BY <3>1, <3>2
  <2>7. RemainingLength(b, Len(b)) = n
    <3>1. /\ b[2] \in Nat /\ b[2] >= 128 /\ b[2] < 256
          /\ b[3] \in Nat /\ b[3] < 128
      BY <2>2, <2>4
    <3>2. RemainingLength(b, Len(b)) = (b[2] - 128) + 128 * b[3]
      BY <2>6, <3>1, TwoLengthBytes
    <3>3. QED
      BY <2>2, <2>4, <3>2
  <2>8. QED
    BY <1>1, <1>2, <1>4, <2>4, <2>6, <2>7
       DEF mqtt_get_type, mqtt_get_qos, mqtt_get_retain, mqtt_get_total_length, Holds, n, b, Finished
<1>5. QED
  BY <1>1, <1>3, <1>4

-----------------------------------------------------------------------------
(* A string is two bytes longer with its length before it; what holds a    *)
(* string and fits the buffer holds one whose length is a word.            *)
LEMMA StringLen ==
  ASSUME NEW s \in Seq(Byte)
  PROVE  String(s) \in Seq(Nat) /\ Len(String(s)) = 2 + Len(s)
<1>1. Len(s) \in Nat
  OBVIOUS
<1>2. PICK u : u = U16(Len(s))
  BY Zenon
<1>3. u \in Seq(Nat) /\ Len(u) = 2
  BY <1>1, <1>2 DEF U16
<1>4. s \in Seq(Nat)
  <2>1. Byte \subseteq Nat
    BY DEF Byte
  <2>2. QED
    BY <2>1, SeqMonotonic
<1>5. u \o s \in Seq(Nat) /\ Len(u \o s) = Len(u) + Len(s)
  BY <1>3, <1>4, Joined, Zenon
<1>6. String(s) \in Seq(Nat) /\ Len(String(s)) = Len(u) + Len(s)
  BY <1>2, <1>5, Zenon DEF String
<1>7. QED
  BY <1>3, <1>6, Zenon

LEMMA FittingString ==
  ASSUME NEW n \in Nat, NEW s \in Seq(Byte), NEW body, Fits(body),
         Len(body) = n + Len(s)
  PROVE  Short(s)
<1>1. 3 + (n + Len(s)) <= BufferLength
  BY DEF Fits
<1>2. Len(s) \in Nat
  OBVIOUS
<1>3. QED
  BY <1>1, <1>2, BuildAssumption DEF Short, IsWord

(* Identifiers: the counter stays below 2^16, and the next is never 0.     *)
IdTyped == message_id \in Nat /\ message_id < IdWord

LEMMA NextIdTyped ==
  ASSUME IdTyped
  PROVE  NextId \in Nat /\ NextId > 0 /\ NextId < IdWord /\ IsWord(NextId)
<1>1. IdWord \in Nat /\ IdWord > 1 /\ IdWord <= 65536 /\ message_id \in Nat
      /\ message_id + 1 <= IdWord
  BY BuildAssumption DEF IdTyped
<1>2. CASE message_id + 1 < IdWord
  <2>1. (message_id + 1) % IdWord = message_id + 1
    BY <1>1, <1>2
  <2>2. QED
    BY <1>1, <1>2, <2>1 DEF NextId, IsWord
<1>3. CASE message_id + 1 = IdWord
  <2>1. (message_id + 1) % IdWord = 0
    BY <1>1, <1>3
  <2>2. QED
    BY <1>1, <2>1 DEF NextId, IsWord
<1>4. QED
  BY <1>1, <1>2, <1>3

-----------------------------------------------------------------------------
(* Three pieces behind one another.                                        *)
LEMMA ThreePieces ==
  ASSUME NEW b \in Seq(Byte), NEW e \in Nat,
         NEW r \in Seq(Byte), NEW s \in Seq(Byte), NEW t \in Seq(Byte),
         Holds(b, e, r \o s \o t)
  PROVE  /\ r \o s \o t \in Seq(Byte)
         /\ Len(r \o s \o t) = Len(r) + Len(s) + Len(t)
         /\ Holds(b, e, r) /\ Holds(b, e + Len(r), s) /\ Holds(b, e + Len(r) + Len(s), t)
<1>1. Len(r) \in Nat /\ Len(s) \in Nat /\ Len(t) \in Nat
  OBVIOUS
<1> DEFINE front == r \o s
<1>2. front \in Seq(Byte) /\ Len(front) = Len(r) + Len(s)
  BY Joined
<1>3. Holds(b, e, front) => Holds(b, e, r) /\ Holds(b, e + Len(r), s)
  BY HoldsJoined
<1> HIDE DEF front
<1>4. Holds(b, e, front \o t)
  BY DEF front
<1>5. Holds(b, e, front) /\ Holds(b, e + Len(front), t)
  BY <1>2, <1>4, HoldsJoined
<1>6. front \o t \in Seq(Byte) /\ Len(front \o t) = Len(front) + Len(t)
  BY <1>2, Joined
<1>7. e + Len(front) = e + Len(r) + Len(s)
  BY <1>1, <1>2
<1>8. front \o t \in Seq(Byte) /\ Len(front \o t) = Len(r) + Len(s) + Len(t)
  BY <1>2, <1>6
<1>9. QED
  BY <1>3, <1>5, <1>7, <1>8 DEF front

(* The readers of a PUBLISH, over a buffer in which the topic begins behind *)
(* e + 2, the identifier at j and the payload at k.                         *)
PublishAt(b, total, e, j, k) ==
  /\ HeaderEnd(b, total) = e /\ mqtt_get_total_length(b, total) = total
  /\ e + 2 < j /\ e + 2 + At16(b, e) = j /\ j + IdSize(b) = k /\ k <= total

LEMMA PublishParsed ==
  ASSUME NEW b, NEW total \in Nat, NEW e \in Nat, NEW j \in Nat, NEW k \in Nat,
         PublishAt(b, total, e, j, k), mqtt_get_type(b) = PUBLISH
  PROVE  /\ mqtt_get_publish_topic(b, total) = Piece(b, e + 2, At16(b, e))
         /\ mqtt_get_publish_data(b, total)
              = IF k = total THEN Null ELSE Piece(b, k, total - k)
         /\ mqtt_get_id(b, total) = IF IdSize(b) > 0 /\ k < total THEN At16(b, j) ELSE 0
<1>1. /\ HeaderEnd(b, total) = e /\ mqtt_get_total_length(b, total) = total
      /\ e + 2 < j /\ e + 2 + At16(b, e) = j /\ j + IdSize(b) = k /\ k <= total
  BY DEF PublishAt
<1>2. IdSize(b) = 0 \/ IdSize(b) = 2
  BY DEF IdSize
<1>3. /\ e + 2 < total /\ j <= total /\ ~ (total < k)
      /\ (IdSize(b) > 0 => k = j + 2) /\ (IdSize(b) = 0 => k = j)
  BY <1>1, <1>2
<1>4. mqtt_get_publish_topic(b, total) = Piece(b, e + 2, At16(b, e))
  BY <1>1, <1>3 DEF mqtt_get_publish_topic
<1>5. Min({total, total}) = total
  <2> DEFINE S == {total, total}
  <2>1. S \subseteq Int /\ total \in S /\ \A y \in S : total <= y
    OBVIOUS
  <2> HIDE DEF S
  <2>2. Min(S) = total
    BY <2>1, MinOf
  <2>3. QED
    BY <2>2 DEF S
<1>6. mqtt_get_publish_data(b, total)
        = IF k = total THEN Null ELSE Piece(b, k, total - k)
  <2>1. CASE k = total
    BY <1>1, <1>2, <1>3, <2>1 DEF mqtt_get_publish_data, PublishData
  <2>2. CASE k < total
    <3>1. ~ (e + 2 >= total) /\ ~ (j >= total) /\ ~ (IdSize(b) > 0 /\ j + 2 >= total)
      BY <1>1, <1>2, <1>3, <2>2
    <3>2. mqtt_get_publish_data(b, total)
            = Piece(b, k, Min({mqtt_get_total_length(b, total), total}) - k)
      BY <1>1, <1>3, <3>1 DEF mqtt_get_publish_data, PublishData
    <3>3. QED
      BY <1>1, <1>5, <2>2, <3>2
  <2>3. QED
    BY <1>1, <2>1, <2>2
<1>7. mqtt_get_id(b, total) = IF IdSize(b) > 0 /\ k < total THEN At16(b, j) ELSE 0
  <2>1. mqtt_get_id(b, total) =
          IF e + 2 >= total THEN 0
          ELSE IF j >= total \/ IdSize(b) = 0 \/ j + 2 >= total THEN 0 ELSE At16(b, j)
    <3>1. total >= 1 /\ ~ (total < 1)
      BY <1>3
    <3>2. QED
      BY <1>1, <3>1 DEF mqtt_get_id, PUBLISH, PUBACK, PUBREC, PUBREL, PUBCOMP, SUBACK,
                        UNSUBACK, SUBSCRIBE
  <2>2. QED
    BY <1>1, <1>2, <1>3, <2>1
<1>8. QED
  BY <1>4, <1>6, <1>7

(* The pieces of a PUBLISH: topic with its length, identifier, payload.    *)
InPieces(b, e, topic, mid, data) ==
  /\ Len(String(topic) \o mid \o data) = 2 + Len(topic) + Len(mid) + Len(data)
  /\ Holds(b, e, String(topic)) /\ Holds(b, e + 2 + Len(topic), mid)
  /\ Holds(b, e + 2 + Len(topic) + Len(mid), data)

LEMMA PublishPieces ==
  ASSUME NEW b, NEW e, NEW topic, NEW mid, NEW data,
         Holds(b, e, String(topic) \o mid \o data), b \in Seq(Byte), e \in Nat,
         topic \in Seq(Byte), Short(topic), mid \in Seq(Byte), data \in Seq(Byte)
  PROVE  InPieces(b, e, topic, mid, data)
<1>1. /\ String(topic) \in Seq(Byte) /\ Len(String(topic)) = 2 + Len(topic)
      /\ Len(topic) \in Nat /\ Len(mid) \in Nat /\ Len(data) \in Nat
  BY StringType
<1>2. /\ Len(String(topic) \o mid \o data) = Len(String(topic)) + Len(mid) + Len(data)
      /\ Holds(b, e, String(topic)) /\ Holds(b, e + Len(String(topic)), mid)
      /\ Holds(b, e + Len(String(topic)) + Len(mid), data)
  <2>1. PICK str : str = String(topic)
    BY Zenon
  <2>2. str \in Seq(Byte) /\ Holds(b, e, str \o mid \o data)
    BY <1>1, <2>1, Zenon
  <2>3. /\ Len(str \o mid \o data) = Len(str) + Len(mid) + Len(data)
        /\ Holds(b, e, str) /\ Holds(b, e + Len(str), mid)
        /\ Holds(b, e + Len(str) + Len(mid), data)
    BY <2>2, ThreePieces
  <2>4. QED
    BY <2>1, <2>3, Zenon
<1>3. e + Len(String(topic)) = e + 2 + Len(topic)
  BY <1>1
<1>4. QED
  BY <1>1, <1>2, <1>3, Zenon DEF InPieces

LEMMA LessOrEqual == \A i, n \in Nat : i <= n => (i < n <=> ~ (i = n))
OBVIOUS


LEMMA SameSum ==
  \A e, L, m, D, j, k, n, total \in Nat :
    j = e + 2 + L /\ k = j + m /\ n = 2 + L + m + D /\ total = e + n => total = k + D
OBVIOUS

(* What the three readers return.                                          *)
PartsRead(b, total, topic, data, j) ==
  /\ mqtt_get_publish_topic(b, total) = [null |-> FALSE, bytes |-> topic]
  /\ mqtt_get_publish_data(b, total).bytes = data
  /\ mqtt_get_id(b, total) = IF IdSize(b) > 0 /\ data # <<>> THEN At16(b, j) ELSE 0

(* The same with the places named.                                         *)
Placed(b, total, e, topic, L, data, D, j, k) ==
  /\ total \in Nat /\ e \in Nat /\ L \in Nat /\ D \in Nat /\ j \in Nat /\ k \in Nat
  /\ b \in Seq(Byte) /\ topic \in Seq(Byte) /\ data \in Seq(Byte)
  /\ HeaderEnd(b, total) = e
  /\ mqtt_get_total_length(b, total) = total /\ mqtt_get_type(b) = PUBLISH
  /\ topic # <<>> /\ L = Len(topic) /\ Short(topic) /\ D = Len(data)
  /\ j = e + 2 + L /\ k = j + IdSize(b) /\ total = k + D
  /\ Holds(b, e, String(topic)) /\ Holds(b, k, data)

LEMMA PublishPlaced ==
  ASSUME NEW b, NEW total, NEW e, NEW topic, NEW L, NEW data, NEW D, NEW j, NEW k,
         Placed(b, total, e, topic, L, data, D, j, k)
  PROVE  PartsRead(b, total, topic, data, j)
<1>1. /\ total \in Nat /\ e \in Nat /\ L \in Nat /\ D \in Nat /\ j \in Nat /\ k \in Nat
      /\ topic \in Seq(Byte) /\ data \in Seq(Byte)
  BY Zenon DEF Placed
<1>2. b \in Seq(Byte) /\ Short(topic) /\ Holds(b, e, String(topic)) /\ Holds(b, k, data)
  BY Zenon DEF Placed
<1>3. L = Len(topic) /\ D = Len(data) /\ topic # <<>>
  BY Zenon DEF Placed
<1>4. HeaderEnd(b, total) = e /\ mqtt_get_total_length(b, total) = total
      /\ mqtt_get_type(b) = PUBLISH
  BY Zenon DEF Placed
<1>5. j = e + 2 + L /\ k = j + IdSize(b) /\ total = k + D
  BY Zenon DEF Placed
<1>6. L > 0 /\ (D = 0 <=> data = <<>>)
  BY <1>1, <1>3
<1>7. PICK m \in Nat : m = IdSize(b)
  <2>1. IdSize(b) \in Nat
    BY DEF IdSize
  <2>2. QED
    BY <2>1, Zenon
<1>8. /\ e + 2 < j /\ k <= total /\ (k = total <=> D = 0) /\ total - k = D
      /\ (e + 2) + 1 = e + 3
  <2>1. j = e + 2 + L /\ k = j + m /\ total = k + D
    BY <1>5, <1>7, Zenon
  <2>2. L > 0
    BY <1>6
  <2>3. QED
    BY <1>1, <2>1, <2>2
<1>9. At16(b, e) = L
  BY <1>1, <1>2, <1>3, HoldsString, Zenon
<1>10. SubSeq(b, e + 3, e + 2 + L) = topic
  BY <1>1, <1>2, <1>3, HoldsString, Zenon
<1>11. SubSeq(b, k + 1, k + D) = data
  BY <1>1, <1>2, <1>3, HoldsPiece, Zenon
<1>12. PublishAt(b, total, e, j, k)
  BY <1>4, <1>5, <1>8, <1>9, Zenon DEF PublishAt
<1>13. /\ mqtt_get_publish_topic(b, total) = Piece(b, e + 2, At16(b, e))
       /\ mqtt_get_publish_data(b, total)
            = IF k = total THEN Null ELSE Piece(b, k, total - k)
       /\ mqtt_get_id(b, total) = IF IdSize(b) > 0 /\ k < total THEN At16(b, j) ELSE 0
  BY <1>1, <1>4, <1>12, PublishParsed
<1>14. mqtt_get_publish_topic(b, total) = [null |-> FALSE, bytes |-> topic]
  BY <1>8, <1>9, <1>10, <1>13, Zenon DEF Piece
<1>15. mqtt_get_publish_data(b, total).bytes = data
  <2>1. CASE k = total
    <3>1. mqtt_get_publish_data(b, total) = Null /\ data = <<>>
      BY <1>6, <1>8, <1>13, <2>1, Zenon
    <3>2. QED
      BY <3>1 DEF Null
  <2>2. CASE k # total
    <3>1. mqtt_get_publish_data(b, total) = Piece(b, k, D)
      BY <1>8, <1>13, <2>2, Zenon
    <3>2. Piece(b, k, D) = [null |-> FALSE, bytes |-> data]
      BY <1>11, Zenon DEF Piece
    <3>3. QED
      BY <3>1, <3>2
  <2>3. QED
    BY <2>1, <2>2, Zenon
<1>16. k < total <=> data # <<>>
  <2>1. k < total <=> ~ (k = total)
    BY <1>1, <1>8, LessOrEqual
  <2>2. QED
    BY <1>6, <1>8, <2>1, Zenon
<1>17. QED
  BY <1>13, <1>14, <1>15, <1>16, Zenon DEF PartsRead

(* What a PUBLISH that carries topic, identifier and payload reads back.   *)
PublishReads(b, topic, data, qos, retain, id) ==
  /\ mqtt_get_type(b) = PUBLISH /\ mqtt_get_qos(b) = qos /\ mqtt_get_retain(b) = retain
  /\ mqtt_get_total_length(b, Len(b)) = Len(b)
  /\ mqtt_get_publish_topic(b, Len(b)) = [null |-> FALSE, bytes |-> topic]
  /\ mqtt_get_publish_data(b, Len(b)).bytes = data
  /\ mqtt_get_id(b, Len(b)) = IF qos > 0 /\ data # <<>> THEN id ELSE 0
  /\ qos > 0 => At16(b, HeaderEnd(b, Len(b)) + 2 + Len(topic)) = id

LEMMA PublishRead ==
  ASSUME NEW topic \in Seq(Byte), topic # <<>>, NEW data \in Seq(Byte),
         NEW qos \in Nat, qos < 3, NEW retain \in Nat, retain < 2,
         NEW id \in Nat, IsWord(id), NEW mid, mid = IF qos > 0 THEN U16(id) ELSE <<>>,
         NEW body, body = String(topic) \o mid \o data, Fits(body),
         NEW b, b = fini_message(PUBLISH, qos, retain, body)
  PROVE  PublishReads(b, topic, data, qos, retain, id) /\ Fits(String(topic))
<1>1. mid \in Seq(Byte) /\ Len(mid) = IF qos > 0 THEN 2 ELSE 0
  <2>1. U16(id) \in Seq(Byte) /\ Len(U16(id)) = 2
    BY U16Bytes
  <2>2. CASE qos > 0
    BY <2>1, <2>2
  <2>3. CASE ~ (qos > 0)
    BY <2>3
  <2>4. QED
    BY <2>2, <2>3, Zenon
<1>2. Short(topic)
  <2>1. Byte \subseteq Nat
    BY DEF Byte
  <2>2. mid \in Seq(Nat) /\ data \in Seq(Nat)
    BY <1>1, <2>1, SeqMonotonic, Zenon
  <2>3. PICK str : str = String(topic)
    BY Zenon
  <2>4. str \in Seq(Nat) /\ Len(str) = 2 + Len(topic)
    BY <2>3, StringLen
  <2>5. PICK front : front = str \o mid
    BY Zenon
  <2>6. front \in Seq(Nat) /\ Len(front) = Len(str) + Len(mid)
    BY <2>2, <2>4, <2>5, Joined, Zenon
  <2>7. Len(body) = Len(front) + Len(data)
    BY <2>2, <2>3, <2>5, <2>6, Joined, Zenon
  <2>8. Len(topic) \in Nat /\ Len(mid) \in Nat /\ Len(data) \in Nat
    BY <1>1
  <2>9. PICK t \in Nat, m \in Nat, d \in Nat :
          t = Len(topic) /\ m = Len(mid) /\ d = Len(data)
    BY <2>8, Zenon
  <2>10. Len(body) = (2 + m + d) + Len(topic) /\ 2 + m + d \in Nat
    <3>1. Len(body) = ((2 + t) + m) + d
      BY <2>4, <2>6, <2>7, <2>9, Zenon
    <3>2. ((2 + t) + m) + d = (2 + m + d) + t /\ 2 + m + d \in Nat
      OBVIOUS
    <3>3. QED
      BY <2>9, <3>1, <3>2, Zenon
  <2>11. QED
    BY <2>10, FittingString, Zenon
<1>3. body \in Seq(Byte)
  <2>1. String(topic) \in Seq(Byte)
    BY <1>2, StringType
  <2>2. String(topic) \o mid \in Seq(Byte)
    BY <1>1, <2>1, Joined
  <2>3. QED
    BY <2>2, Joined
<1>4. Finished(b, PUBLISH, qos, retain, body)
  <2>1. PUBLISH \in Nat /\ PUBLISH < 16 /\ qos < 4
    BY DEF PUBLISH
  <2>2. Finished(fini_message(PUBLISH, qos, retain, body), PUBLISH, qos, retain, body)
    BY <1>3, <2>1, MessageBuilt, Zenon
  <2>3. QED
    BY <2>2, Zenon
<1>5. PICK total, e : total = Len(b) /\ e = HeaderEnd(b, total)
  BY Zenon
<1>6. /\ b \in Seq(Byte) /\ b # <<>> /\ (e = 2 \/ e = 3) /\ total = e + Len(body)
      /\ mqtt_get_type(b) = PUBLISH /\ mqtt_get_qos(b) = qos
      /\ mqtt_get_retain(b) = retain /\ mqtt_get_total_length(b, total) = total
      /\ Holds(b, e, body)
  BY <1>4, <1>5, Zenon DEF Finished
<1>7. /\ Len(body) = 2 + Len(topic) + Len(mid) + Len(data)
      /\ Holds(b, e, String(topic)) /\ Holds(b, e + 2 + Len(topic), mid)
      /\ Holds(b, e + 2 + Len(topic) + Len(mid), data)
  <2>1. e \in Nat
    <3>1. 2 \in Nat /\ 3 \in Nat
      OBVIOUS
    <3>2. QED
      BY <1>6, <3>1, Zenon
  <2>2. b \in Seq(Byte) /\ Holds(b, e, String(topic) \o mid \o data)
    BY <1>6, Zenon
  <2>3. mid \in Seq(Byte)
    BY <1>1
  <2>4. InPieces(b, e, topic, mid, data)
    BY <1>2, <2>1, <2>2, <2>3, PublishPieces, Zenon
  <2>5. QED
    BY <2>4, Zenon DEF InPieces
<1>8. PICK L \in Nat, D \in Nat, M \in Nat : L = Len(topic) /\ D = Len(data) /\ M = Len(mid)
  <2>1. Len(topic) \in Nat /\ Len(data) \in Nat /\ Len(mid) \in Nat
    BY <1>1
  <2>2. QED
    BY <2>1, Zenon
<1>9. PICK j \in Nat, k \in Nat : j = e + 2 + L /\ k = j + M
  <2>1. \A i, m, n \in Nat : i + 2 + m \in Nat /\ i + 2 + m + n \in Nat
    OBVIOUS
  <2>2. 2 \in Nat /\ 3 \in Nat
    OBVIOUS
  <2>3. e + 2 + L \in Nat /\ e + 2 + L + M \in Nat
    BY <1>6, <2>1, <2>2, Zenon
  <2>4. QED
    BY <2>3, Zenon
<1>10. /\ Len(body) = 2 + L + M + D /\ Holds(b, j, mid) /\ Holds(b, k, data)
       /\ (qos > 0 => M = 2) /\ (~ (qos > 0) => M = 0)
  BY <1>1, <1>7, <1>8, <1>9, Zenon
<1>11. e \in Nat /\ total \in Nat /\ total = k + D
  <2>1. e \in Nat
    <3>1. 2 \in Nat /\ 3 \in Nat
      OBVIOUS
    <3>2. QED
      BY <1>6, <3>1, Zenon
  <2>2. Len(body) \in Nat /\ Len(b) \in Nat
    BY <1>3, <1>6
  <2>3. Len(body) = 2 + L + M + D /\ total = e + Len(body) /\ total \in Nat
    BY <1>5, <1>6, <1>10, <2>2, Zenon
  <2>4. j = e + 2 + L /\ k = j + M
    BY <1>9
  <2>5. QED
    BY <2>1, <2>2, <2>3, <2>4, SameSum
<1>12. IdSize(b) = M /\ (IdSize(b) > 0 <=> qos > 0)
  BY <1>6, <1>10 DEF IdSize
<1>13. HeaderEnd(b, total) = e /\ k = j + IdSize(b) /\ Holds(b, e, String(topic))
  BY <1>5, <1>7, <1>9, <1>12, Zenon
<1>14. /\ mqtt_get_publish_topic(b, total) = [null |-> FALSE, bytes |-> topic]
       /\ mqtt_get_publish_data(b, total).bytes = data
       /\ mqtt_get_id(b, total) = IF IdSize(b) > 0 /\ data # <<>> THEN At16(b, j) ELSE 0
  <2>1. Placed(b, total, e, topic, L, data, D, j, k)
    BY <1>2, <1>6, <1>8, <1>9, <1>10, <1>11, <1>13, Zenon DEF Placed
  <2>2. PartsRead(b, total, topic, data, j)
    BY <2>1, PublishPlaced, Zenon
  <2>3. QED
    BY <2>2, Zenon DEF PartsRead
<1>15. qos > 0 => At16(b, j) = id
  <2>1. qos > 0 => Holds(b, j, U16(id))
    BY <1>10, Zenon
  <2>2. QED
    BY <1>6, <2>1, HoldsU16
<1>16. mqtt_get_id(b, total) = IF qos > 0 /\ data # <<>> THEN id ELSE 0
  BY <1>12, <1>14, <1>15, Zenon
<1>17. Fits(String(topic))
  <2>1. Len(String(topic)) = 2 + L
    BY <1>2, <1>8, StringType
  <2>2. 2 + L <= 2 + L + M + D
    OBVIOUS
  <2>3. 3 + (2 + L + M + D) <= BufferLength
    BY <1>10 DEF Fits
  <2>4. 3 + (2 + L) <= BufferLength
    BY <2>2, <2>3, BuildAssumption
  <2>5. QED
    BY <2>1, <2>4, Zenon DEF Fits
<1>18. PublishReads(b, topic, data, qos, retain, id)
  BY <1>5, <1>6, <1>8, <1>9, <1>14, <1>15, <1>16, Zenon DEF PublishReads
<1>19. QED
  BY <1>17, <1>18

(* The identifier of a SUBSCRIBE or an UNSUBSCRIBE begins its body.        *)
LEMMA TopicRead ==
  ASSUME NEW type \in Nat, type < 16, NEW topic \in Seq(Byte), NEW end \in Seq(Byte),
         NEW id \in Nat, IsWord(id), NEW body, body = U16(id) \o String(topic) \o end,
         Fits(body)
  PROVE  LET b == fini_message(type, 1, 0, body) IN At16(b, HeaderEnd(b, Len(b))) = id
<1>1. PICK u : u = U16(id)
  BY Zenon
<1>2. u \in Seq(Byte) /\ Len(u) = 2
  BY <1>1, U16Bytes
<1>3. PICK str : str = String(topic)
  BY Zenon
<1>4. body = u \o str \o end
  BY <1>1, <1>3, Zenon
<1>5. Short(topic)
  <2>1. Byte \subseteq Nat
    BY DEF Byte
  <2>2. u \in Seq(Byte)
    BY <1>2
  <2>3. u \in Seq(Nat) /\ end \in Seq(Nat)
    BY <2>1, <2>2, SeqMonotonic, Zenon
  <2>4. str \in Seq(Nat) /\ Len(str) = 2 + Len(topic)
    BY <1>3, StringLen
  <2>5. PICK front : front = u \o str
    BY Zenon
  <2>6. front \in Seq(Nat) /\ Len(front) = Len(u) + Len(str)
    BY <2>3, <2>4, <2>5, Joined, Zenon
  <2>7. Len(body) = Len(front) + Len(end)
    BY <1>4, <2>3, <2>5, <2>6, Joined, Zenon
  <2>8. Len(topic) \in Nat /\ Len(end) \in Nat
    OBVIOUS
  <2>9. PICK t \in Nat, n \in Nat : t = Len(topic) /\ n = Len(end)
    BY <2>8, Zenon
  <2>10. Len(body) = (2 + (2 + t)) + n
    BY <1>2, <2>4, <2>6, <2>7, <2>9, Zenon
  <2>11. (2 + (2 + t)) + n = (4 + n) + t /\ 4 + n \in Nat
    OBVIOUS
  <2>12. Len(body) = (4 + n) + Len(topic)
    BY <2>9, <2>10, <2>11, Zenon
  <2>13. QED
    BY <2>11, <2>12, FittingString, Zenon
<1>6. str \in Seq(Byte)
  BY <1>3, <1>5, StringType
<1>7. body \in Seq(Byte)
  <2>1. u \in Seq(Byte)
    BY <1>2
  <2>2. u \o str \in Seq(Byte)
    BY <1>6, <2>1, Joined
  <2>3. QED
    BY <1>4, <2>2, Joined
<1>8. PICK b, e : b = fini_message(type, 1, 0, body) /\ e = HeaderEnd(b, Len(b))
  BY Zenon
<1>9. Finished(b, type, 1, 0, body)
  <2>1. 1 \in Nat /\ 1 < 4 /\ 0 \in Nat /\ 0 < 2
    OBVIOUS
  <2>2. Finished(fini_message(type, 1, 0, body), type, 1, 0, body)
    BY <1>7, <2>1, MessageBuilt
  <2>3. QED
    BY <1>8, <2>2, Zenon
<1>10. b \in Seq(Byte) /\ (e = 2 \/ e = 3) /\ Holds(b, e, body)
  BY <1>8, <1>9, Zenon DEF Finished
<1>11. e \in Nat /\ Holds(b, e, u \o str \o end)
  BY <1>4, <1>10
<1>12. Holds(b, e, u)
  <2>1. u \in Seq(Byte) /\ b \in Seq(Byte)
    BY <1>2, <1>10
  <2>2. QED
    BY <1>6, <1>11, <2>1, ThreePieces
<1>13. At16(b, e) = id
  BY <1>1, <1>10, <1>11, <1>12, HoldsU16
<1>14. QED
  BY <1>8, <1>13, Zenon

(* mqtt_get_id finds the identifier of an acknowledgement.                 *)
LEMMA AckRead ==
  ASSUME NEW type \in {PUBACK, PUBREC, PUBREL, PUBCOMP}, NEW qos \in Nat, qos < 2,
         NEW id \in Nat, IsWord(id), Fits(U16(id))
  PROVE  LET b == fini_message(type, qos, 0, U16(id)) IN mqtt_get_id(b, Len(b)) = id
<1>1. PICK u : u = U16(id)
  BY Zenon
<1>2. u \in Seq(Byte) /\ Len(u) = 2 /\ Fits(u)
  BY <1>1, U16Bytes
<1>3. PICK b : b = fini_message(type, qos, 0, u)
  BY Zenon
<1>4. Finished(b, type, qos, 0, u)
  <2>1. type \in Nat /\ type < 16 /\ qos < 4 /\ 0 \in Nat /\ 0 < 2
    BY DEF PUBACK, PUBREC, PUBREL, PUBCOMP
  <2>2. Finished(fini_message(type, qos, 0, u), type, qos, 0, u)
    BY <1>2, <2>1, MessageBuilt
  <2>3. QED
    BY <1>3, <2>2, Zenon
<1>5. /\ b \in Seq(Byte) /\ HeaderEnd(b, Len(b)) = 2 /\ Len(b) = 4 /\ b[2] = 2
      /\ mqtt_get_type(b) = type /\ Holds(b, 2, u)
  <2>1. Len(u) <= 127
    BY <1>2
  <2>2. /\ HeaderEnd(b, Len(b)) = 2 /\ b[2] = Len(u) /\ b \in Seq(Byte)
        /\ Len(b) = HeaderEnd(b, Len(b)) + Len(u)
        /\ mqtt_get_type(b) = type /\ Holds(b, HeaderEnd(b, Len(b)), u)
    BY <1>4, <2>1, Zenon DEF Finished
  <2>3. QED
    BY <1>2, <2>2
<1>6. At16(b, 2) = id
  BY <1>1, <1>5, HoldsU16
<1>7. mqtt_get_id(b, Len(b)) = At16(b, 2)
  BY <1>5 DEF mqtt_get_id, PUBLISH, PUBACK, PUBREC, PUBREL, PUBCOMP, SUBACK, UNSUBACK,
              SUBSCRIBE
<1>8. QED
  BY <1>1, <1>3, <1>6, <1>7, Zenon

-----------------------------------------------------------------------------
(* The steps.  Each sets call and message anew, so each establishes what   *)
(* is said of its own message and says nothing of another's.               *)
Readable == PublishReadsBack /\ IdsNotZero

(* A step that builds neither PUBLISH, SUBSCRIBE, UNSUBSCRIBE nor an       *)
(* acknowledgement.                                                        *)
LEMMA OtherStep ==
  ASSUME call'.name \notin {"MQTT_Publish", "MQTT_Subscribe", "MQTT_UnSubscribe",
                            "mqtt_msg_ack"}
  PROVE  Readable'
BY DEF Readable, PublishReadsBack, IdsNotZero, Built

LEMMA PublishStep ==
  ASSUME IdTyped, NEW topic \in Topics, NEW data \in Data, NEW qos \in 0..2,
         NEW retain \in 0..1, MQTT_Publish(topic, data, qos, retain)
  PROVE  IdTyped' /\ Readable'
<1>1. NextId \in Nat /\ NextId > 0 /\ NextId < IdWord /\ IsWord(NextId)
  BY NextIdTyped
<1>2. /\ topic \in Seq(Byte) /\ data \in Seq(Byte) /\ qos \in Nat /\ qos < 3
      /\ retain \in Nat /\ retain < 2
  BY BuildAssumption
<1>3. PICK mid : mid = IF qos > 0 THEN U16(NextId) ELSE <<>>
  BY Zenon
<1>4. PICK body : body = String(topic) \o mid \o data
  BY Zenon
<1>5. /\ message_id' = IF topic # <<>> /\ Fits(String(topic)) /\ qos > 0
                       THEN NextId ELSE message_id
      /\ message' = IF topic # <<>> /\ Fits(body)
                    THEN fini_message(PUBLISH, qos, retain, body) ELSE <<>>
  BY <1>3, <1>4, Zenon DEF MQTT_Publish, mqtt_msg_publish
<1>6. call' = [name |-> "MQTT_Publish", topic |-> topic, data |-> data, qos |-> qos,
               retain |-> retain]
  BY DEF MQTT_Publish
<1>7. IdTyped'
  BY <1>1, <1>5 DEF IdTyped
<1>8. ASSUME message' # <<>>
      PROVE  /\ PublishReads(message', topic, data, qos, retain, NextId)
             /\ qos > 0 => message_id' = NextId
  <2>1. topic # <<>> /\ Fits(body) /\ message' = fini_message(PUBLISH, qos, retain, body)
    BY <1>5, <1>8, Zenon
  <2>2. PublishReads(message', topic, data, qos, retain, NextId) /\ Fits(String(topic))
    BY <1>1, <1>2, <1>3, <1>4, <2>1, PublishRead, Zenon
  <2>3. QED
    BY <1>5, <2>1, <2>2, Zenon
<1>9. PublishReadsBack'
  <2>1. SUFFICES ASSUME message' # <<>>
                 PROVE  /\ mqtt_get_type(message') = PUBLISH
                        /\ mqtt_get_qos(message') = qos /\ mqtt_get_retain(message') = retain
                        /\ mqtt_get_total_length(message', Len(message')) = Len(message')
                        /\ mqtt_get_publish_topic(message', Len(message'))
                             = [null |-> FALSE, bytes |-> topic]
                        /\ mqtt_get_publish_data(message', Len(message')).bytes = data
                        /\ mqtt_get_id(message', Len(message'))
                             = IF qos > 0 /\ data # <<>> THEN message_id' ELSE 0
    BY <1>6 DEF PublishReadsBack, Built, len
  <2>2. QED
    BY <1>8, <2>1, Zenon DEF PublishReads
<1>10. IdsNotZero'
  <2>1. ASSUME message' # <<>>, qos > 0
        PROVE  At16(message', HeaderEnd(message', Len(message')) + 2 + Len(topic)) # 0
    <3>1. At16(message', HeaderEnd(message', Len(message')) + 2 + Len(topic)) = NextId
      BY <1>8, <2>1, Zenon DEF PublishReads
    <3>2. NextId # 0
      BY <1>1
    <3>3. QED
      BY <3>1, <3>2, Zenon
  <2>2. QED
    BY <1>6, <2>1 DEF IdsNotZero, Built, len
<1>11. QED
  BY <1>7, <1>9, <1>10 DEF Readable

(* MQTT_Subscribe and MQTT_UnSubscribe.                                    *)
LEMMA TopicStep ==
  ASSUME IdTyped, NEW topic \in Topics, NEW type \in Nat, type < 16, NEW end \in Seq(Byte),
         mqtt_msg_topic(type, topic, end),
         call'.name \in {"MQTT_Subscribe", "MQTT_UnSubscribe"}
  PROVE  IdTyped' /\ Readable'
<1>1. NextId \in Nat /\ NextId > 0 /\ NextId < IdWord /\ IsWord(NextId)
  BY NextIdTyped
<1>2. topic \in Seq(Byte)
  BY BuildAssumption
<1>3. PICK body : body = U16(NextId) \o String(topic) \o end
  BY Zenon
<1>4. /\ message_id' = IF topic # <<>> THEN NextId ELSE message_id
      /\ message' = IF topic # <<>> /\ Fits(body)
                    THEN fini_message(type, 1, 0, body) ELSE <<>>
  BY <1>3, Zenon DEF mqtt_msg_topic
<1>5. IdTyped'
  BY <1>1, <1>4 DEF IdTyped
<1>6. ASSUME message' # <<>>
      PROVE  /\ At16(message', HeaderEnd(message', Len(message'))) = message_id'
             /\ message_id' # 0
  <2>1. /\ topic # <<>> /\ Fits(body) /\ message' = fini_message(type, 1, 0, body)
        /\ message_id' = NextId
    BY <1>4, <1>6, Zenon
  <2>2. At16(message', HeaderEnd(message', Len(message'))) = NextId
    BY <1>1, <1>2, <1>3, <2>1, TopicRead, Zenon
  <2>3. NextId # 0
    BY <1>1
  <2>4. QED
    BY <2>1, <2>2, <2>3, Zenon
<1>7. Readable'
  BY <1>6 DEF Readable, PublishReadsBack, IdsNotZero, Built, len
<1>8. QED
  BY <1>5, <1>7

LEMMA AckStep ==
  ASSUME IdTyped, NEW type \in {PUBACK, PUBREC, PUBREL, PUBCOMP}, NEW id \in AckIds,
         mqtt_msg_ack(type, id)
  PROVE  IdTyped' /\ Readable'
<1>1. NextId \in Nat /\ NextId > 0 /\ NextId < IdWord /\ IsWord(NextId)
  BY NextIdTyped
<1>2. id \in Nat /\ IsWord(id)
  BY BuildAssumption DEF IsWord
<1>3. PICK carried : carried = IF id = 0 THEN NextId ELSE id
  BY Zenon
<1>4. carried \in Nat /\ IsWord(carried) /\ carried # 0
  <2>1. NextId # 0
    BY <1>1
  <2>2. QED
    BY <1>1, <1>2, <1>3, <2>1, Zenon
<1>5. PICK qos : qos = IF type = PUBREL THEN 1 ELSE 0
  BY Zenon
<1>6. qos \in Nat /\ qos < 2
  BY <1>5
<1>7. /\ message_id' = IF id = 0 THEN NextId ELSE message_id
      /\ message' = IF Fits(U16(carried)) THEN fini_message(type, qos, 0, U16(carried)) ELSE <<>>
  BY <1>3, <1>5, Zenon DEF mqtt_msg_ack
<1>8. call' = [name |-> "mqtt_msg_ack", type |-> type, id |-> id]
  BY DEF mqtt_msg_ack
<1>9. IdTyped'
  BY <1>1, <1>7 DEF IdTyped
<1>10. ASSUME message' # <<>>
       PROVE  /\ mqtt_get_id(message', Len(message')) = IF id = 0 THEN message_id' ELSE id
              /\ mqtt_get_id(message', Len(message')) # 0
  <2>1. Fits(U16(carried)) /\ message' = fini_message(type, qos, 0, U16(carried))
    BY <1>7, <1>10, Zenon
  <2>2. mqtt_get_id(message', Len(message')) = carried
    BY <1>4, <1>6, <2>1, AckRead, Zenon
  <2>3. QED
    BY <1>3, <1>4, <1>7, <2>2, Zenon
<1>11. Readable'
  BY <1>8, <1>10 DEF Readable, PublishReadsBack, IdsNotZero, Built, len
<1>12. QED
  BY <1>9, <1>11

LEMMA BuildStep ==
  ASSUME IdTyped /\ Readable, [BuildNext]_buildVars
  PROVE  IdTyped' /\ Readable'
<1>1. ASSUME NEW topic \in Topics, NEW data \in Data, NEW qos \in 0..2, NEW retain \in 0..1,
             MQTT_Publish(topic, data, qos, retain)
      PROVE  IdTyped' /\ Readable'
  BY <1>1, PublishStep
<1>2. ASSUME NEW topic \in Topics, NEW qos \in 0..2, MQTT_Subscribe(topic, qos)
      PROVE  IdTyped' /\ Readable'
  <2>1. <<qos>> \in Seq(Byte)
    <3>1. qos \in Byte
      BY ByteIs
    <3>2. QED
      BY <3>1
  <2>2. SUBSCRIBE \in Nat /\ SUBSCRIBE < 16
    BY DEF SUBSCRIBE
  <2>3. call'.name \in {"MQTT_Subscribe", "MQTT_UnSubscribe"}
        /\ mqtt_msg_topic(SUBSCRIBE, topic, <<qos>>)
    BY <1>2 DEF MQTT_Subscribe
  <2>4. QED
    BY <2>1, <2>2, <2>3, TopicStep
<1>3. ASSUME NEW topic \in Topics, MQTT_UnSubscribe(topic)
      PROVE  IdTyped' /\ Readable'
  <2>1. <<>> \in Seq(Byte)
    OBVIOUS
  <2>2. UNSUBSCRIBE \in Nat /\ UNSUBSCRIBE < 16
    BY DEF UNSUBSCRIBE
  <2>3. call'.name \in {"MQTT_Subscribe", "MQTT_UnSubscribe"}
        /\ mqtt_msg_topic(UNSUBSCRIBE, topic, <<>>)
    BY <1>3 DEF MQTT_UnSubscribe
  <2>4. QED
    BY <2>1, <2>2, <2>3, TopicStep
<1>4. ASSUME NEW type \in {PUBACK, PUBREC, PUBREL, PUBCOMP}, NEW id \in AckIds,
             mqtt_msg_ack(type, id)
      PROVE  IdTyped' /\ Readable'
  BY <1>4, AckStep
<1>5. ASSUME NEW type, mqtt_msg_plain(type)
      PROVE  IdTyped' /\ Readable'
  BY <1>5, OtherStep DEF mqtt_msg_plain, IdTyped
<1>6. ASSUME NEW info, mqtt_msg_connect(info)
      PROVE  IdTyped' /\ Readable'
  BY <1>6, OtherStep DEF mqtt_msg_connect, IdTyped
<1>7. CASE UNCHANGED buildVars
  BY <1>7 DEF buildVars, IdTyped, Readable, PublishReadsBack, IdsNotZero, Built, len
<1>8. QED
  BY <1>1, <1>2, <1>3, <1>4, <1>5, <1>6, <1>7, Zenon DEF BuildNext

LEMMA BuildInvariant == BuildSpec => [](IdTyped /\ Readable)
<1>1. BuildInit => IdTyped /\ Readable
  BY BuildAssumption DEF BuildInit, IdTyped, Readable, PublishReadsBack, IdsNotZero, Built
<1>2. QED
  BY <1>1, BuildStep, PTL DEF BuildSpec

(* What deliver_publish, the reassembly and mqtt_get_id read from a        *)
(* message of MQTT_Publish is what the caller gave, for every topic and    *)
(* payload the buffer takes and every identifier.                          *)
THEOREM PublishesReadBack == BuildSpec => []PublishReadsBack
BY BuildInvariant, PTL DEF Readable

(* append_message_id never hands out 0, and what it hands out is what      *)
(* pending_msg_id and the sender's acknowledgement are compared with, also *)
(* over a wrap of the counter.                                             *)
THEOREM IdentifiersNotZero == BuildSpec => []IdsNotZero
BY BuildInvariant, PTL DEF Readable

-----------------------------------------------------------------------------
(* CONNECT.  Its strings are found one after the other, so the argument is *)
(* an induction over the natural numbers, which holds for a set: the least *)
(* number outside it cannot be.                                            *)
LEMMA LeastNat ==
  ASSUME NEW T \in SUBSET Nat, T # {}
  PROVE  \E x \in T : \A y \in T : x <= y
<1> DEFINE R == {ss \in Nat \X Nat : ss[1] < ss[2]}
<1>1. IsWellFoundedOn(R, Nat)
  BY NatLessThanWellFounded DEF OpToRel
<1>2. PICK x \in T : \A y \in T : ~ (<<y, x>> \in R)
  <2> HIDE DEF R
  <2> QED BY <1>1, WFMin
<1>3. ASSUME NEW y \in T PROVE x <= y
  <2>1. <<y, x>> \in Nat \X Nat /\ <<y, x>>[1] = y /\ <<y, x>>[2] = x
    OBVIOUS
  <2>2. ~ (y < x)
    BY <1>2, <2>1
  <2>3. QED
    BY <2>2
<1>4. QED
  BY <1>2, <1>3

LEMMA Induct ==
  ASSUME NEW S, 0 \in S, \A n \in Nat : n \in S => n + 1 \in S
  PROVE  Nat \subseteq S
<1>1. SUFFICES ASSUME Nat \ S # {} PROVE FALSE
  OBVIOUS
<1>2. PICK x \in Nat \ S : \A y \in Nat \ S : x <= y
  BY <1>1, LeastNat
<1>3. x # 0 /\ x - 1 \in Nat /\ x - 1 \in S
  BY <1>2
<1>4. QED
  BY <1>2, <1>3

-----------------------------------------------------------------------------
(* The offsets of n strings one behind the other in b, from i on.          *)
StringPlaces(b, i, n, f) ==
  f = [k \in 1..n+1 |-> IF k = 1 THEN i ELSE f[k - 1] + 2 + At16(b, f[k - 1])]

LEMMA StringsAtUnfolded ==
  ASSUME NEW b, NEW i, NEW n, NEW w, StringPlaces(b, i, n, w)
  PROVE  StringPlaces(b, i, n, StringsAt(b, i, n))
<1> DEFINE at[k \in 1..n+1] == IF k = 1 THEN i ELSE at[k - 1] + 2 + At16(b, at[k - 1])
<1>1. StringPlaces(b, i, n, at)
  BY Zenon DEF StringPlaces
<1>2. StringsAt(b, i, n) = at
  BY Zenon DEF StringsAt
<1> HIDE DEF at
<1>3. QED
  BY <1>1, <1>2

(* There is one such function only.                                        *)
LEMMA OnePlacing ==
  ASSUME NEW b, NEW i, NEW n \in Nat, NEW f, NEW g,
         StringPlaces(b, i, n, f), StringPlaces(b, i, n, g)
  PROVE  f = g
<1> DEFINE S == {m \in Nat : m + 1 \in 1..n+1 => f[m + 1] = g[m + 1]}
<1>1. f = [k \in 1..n+1 |-> IF k = 1 THEN i ELSE f[k - 1] + 2 + At16(b, f[k - 1])]
  BY Zenon DEF StringPlaces
<1>2. g = [k \in 1..n+1 |-> IF k = 1 THEN i ELSE g[k - 1] + 2 + At16(b, g[k - 1])]
  BY Zenon DEF StringPlaces
<1>3. 0 \in S
  BY <1>1, <1>2
<1>4. ASSUME NEW m \in Nat, m \in S PROVE m + 1 \in S
  <2>1. SUFFICES ASSUME m + 2 \in 1..n+1 PROVE f[m + 2] = g[m + 2]
    OBVIOUS
  <2>2. m + 1 \in 1..n+1 /\ f[m + 1] = g[m + 1] /\ m + 2 # 1 /\ (m + 2) - 1 = m + 1
    BY <1>4, <2>1
  <2>3. f[m + 2] = f[m + 1] + 2 + At16(b, f[m + 1])
    BY <1>1, <2>1, <2>2
  <2>4. g[m + 2] = g[m + 1] + 2 + At16(b, g[m + 1])
    BY <1>2, <2>1, <2>2
  <2>5. QED
    BY <2>2, <2>3, <2>4, Zenon
<1>5. Nat \subseteq S
  <2> HIDE DEF S
  <2> QED BY <1>3, <1>4, Induct
<1>6. ASSUME NEW k \in 1..n+1 PROVE f[k] = g[k]
  <2>1. k - 1 \in Nat /\ (k - 1) + 1 = k
    OBVIOUS
  <2>2. k - 1 \in S
    BY <1>5, <2>1
  <2>3. QED
    BY <2>1, <2>2
<1>7. QED
  BY <1>1, <1>2, <1>6

-----------------------------------------------------------------------------
TextFields == {"client_id", "will_topic", "will_message", "username", "password"}

(* The strings that names gives stand in b from i to j, each where the one *)
(* before it ended: the k-th begins at f[k].                               *)
StringAt(b, f, info, names, k) ==
  /\ f[k + 1] = f[k] + 2 + Len(info[names[k]])
  /\ info[names[k]] \in Seq(Byte) /\ Short(info[names[k]])
  /\ Holds(b, f[k], String(info[names[k]]))

Reads(b, i, info, names, j) ==
  \E f \in [1..Len(names)+1 -> Nat] :
    /\ f[1] = i /\ f[Len(names) + 1] = j
    /\ \A k \in 1..Len(names) : StringAt(b, f, info, names, k)

LEMMA ReadsNone ==
  ASSUME NEW b, NEW i \in Nat, NEW info
  PROVE  Reads(b, i, info, <<>>, i)
<1> DEFINE f == [k \in 1..1 |-> i]
<1>1. f \in [1..Len(<<>>)+1 -> Nat] /\ f[1] = i /\ f[Len(<<>>) + 1] = i
  OBVIOUS
<1>2. \A k \in 1..Len(<<>>) : FALSE
  OBVIOUS
<1> HIDE DEF f
<1>3. QED
  BY <1>1, <1>2, Zenon DEF Reads

LEMMA ReadsOne ==
  ASSUME NEW b, NEW i \in Nat, NEW info, NEW name,
         info[name] \in Seq(Byte), Short(info[name]), Holds(b, i, String(info[name]))
  PROVE  Reads(b, i, info, <<name>>, i + 2 + Len(info[name]))
<1>1. PICK j \in Nat : j = i + 2 + Len(info[name])
  <2>1. Len(info[name]) \in Nat
    OBVIOUS
  <2>2. \A n \in Nat : i + 2 + n \in Nat
    OBVIOUS
  <2>3. QED
    BY <2>1, <2>2, Zenon
<1>2. PICK names : names = <<name>>
  BY Zenon
<1>3. Len(names) = 1 /\ names[1] = name
  BY <1>2
<1> DEFINE f == [k \in 1..2 |-> IF k = 1 THEN i ELSE j]
<1>4. f \in [1..1+1 -> Nat] /\ f[1] = i /\ f[1 + 1] = j
  OBVIOUS
<1> HIDE DEF f
<1>5. \A k \in 1..1 : k = 1
  OBVIOUS
<1>6. StringAt(b, f, info, names, 1)
  BY <1>1, <1>3, <1>4, Zenon DEF StringAt
<1>7. Reads(b, i, info, names, j)
  BY <1>3, <1>4, <1>5, <1>6, Zenon DEF Reads
<1>8. QED
  BY <1>1, <1>2, <1>7, Zenon

LEMMA ReadsJoined ==
  ASSUME NEW b, NEW i, NEW j, NEW l, NEW info, NEW r \in Seq(TextFields), NEW s \in Seq(TextFields),
         Reads(b, i, info, r, j), Reads(b, j, info, s, l)
  PROVE  r \o s \in Seq(TextFields) /\ Reads(b, i, info, r \o s, l)
<1>1. PICK m \in Nat, n \in Nat : m = Len(r) /\ n = Len(s)
  OBVIOUS
<1>2. PICK t : t = r \o s
  BY Zenon
<1>3. /\ t \in Seq(TextFields) /\ Len(t) = m + n
      /\ \A k \in 1..m : t[k] = r[k]
      /\ \A k \in 1..n : t[m + k] = s[k]
  BY <1>1, <1>2
<1>4. PICK f \in [1..m+1 -> Nat] :
         f[1] = i /\ f[m + 1] = j /\ \A k \in 1..m : StringAt(b, f, info, r, k)
  BY <1>1, Zenon DEF Reads
<1>5. PICK g \in [1..n+1 -> Nat] :
         g[1] = j /\ g[n + 1] = l /\ \A k \in 1..n : StringAt(b, g, info, s, k)
  BY <1>1, Zenon DEF Reads
<1> DEFINE h == [k \in 1..(m + n)+1 |-> IF k <= m THEN f[k] ELSE g[k - m]]
<1>6. h \in [1..(m + n)+1 -> Nat]
  OBVIOUS
<1>7. \A k \in 1..m+1 : h[k] = f[k]
  BY <1>4, <1>5
<1>8. \A k \in 1..n+1 : h[m + k] = g[k]
  BY <1>4, <1>5
<1> HIDE DEF h
<1>9. h[1] = i /\ h[(m + n) + 1] = l
  <2>1. 1 \in 1..m+1 /\ n + 1 \in 1..n+1 /\ m + (n + 1) = (m + n) + 1
    OBVIOUS
  <2>2. h[1] = i
    BY <1>4, <1>7, <2>1, Zenon
  <2>3. h[m + (n + 1)] = l
    BY <1>5, <1>8, <2>1, Zenon
  <2>4. QED
    BY <2>1, <2>2, <2>3, Zenon
<1>10. ASSUME NEW k \in 1..m+n PROVE StringAt(b, h, info, t, k)
  <2>1. CASE k <= m
    <3>1. k \in 1..m /\ k \in 1..m+1 /\ k + 1 \in 1..m+1
      BY <2>1
    <3>2. h[k] = f[k] /\ h[k + 1] = f[k + 1] /\ t[k] = r[k]
      BY <1>3, <1>7, <3>1, Zenon
    <3>3. StringAt(b, f, info, r, k)
      BY <1>4, <3>1, Zenon
    <3>4. QED
      BY <3>2, <3>3, Zenon DEF StringAt
  <2>2. CASE k > m
    <3>1. PICK q \in 1..n : k = m + q
      <4>1. k - m \in 1..n /\ k = m + (k - m)
        BY <2>2
      <4>2. QED
        BY <4>1, Zenon
    <3>2. q \in 1..n+1 /\ q + 1 \in 1..n+1 /\ m + (q + 1) = k + 1
      BY <3>1
    <3>3. h[k] = g[q] /\ h[k + 1] = g[q + 1] /\ t[k] = s[q]
      BY <1>3, <1>8, <3>1, <3>2, Zenon
    <3>4. StringAt(b, g, info, s, q)
      BY <1>5, <3>1, Zenon
    <3>5. QED
      BY <3>3, <3>4, Zenon DEF StringAt
  <2>3. QED
    BY <2>1, <2>2
<1>11. Reads(b, i, info, t, l)
  BY <1>3, <1>6, <1>9, <1>10, Zenon DEF Reads
<1>12. QED
  BY <1>2, <1>3, <1>11, Zenon

(* What stands there is what StringsAt finds.                              *)
LEMMA StringsFound ==
  ASSUME NEW b \in Seq(Byte), NEW i, NEW j, NEW info, NEW names \in Seq(TextFields),
         Reads(b, i, info, names, j)
  PROVE  LET at == StringsAt(b, i, Len(names))
         IN /\ at[Len(names) + 1] = j
            /\ \A k \in DOMAIN names :
                 SubSeq(b, at[k] + 3, at[k + 1]) = info[names[k]]
<1>1. PICK n \in Nat : n = Len(names) /\ DOMAIN names = 1..n
  OBVIOUS
<1>2. PICK f \in [1..n+1 -> Nat] :
         f[1] = i /\ f[n + 1] = j /\ \A k \in 1..n : StringAt(b, f, info, names, k)
  BY <1>1, Zenon DEF Reads
<1>3. ASSUME NEW k \in 1..n
      PROVE  /\ f[k + 1] = f[k] + 2 + At16(b, f[k])
             /\ SubSeq(b, f[k] + 3, f[k + 1]) = info[names[k]]
  <2>1. /\ f[k + 1] = f[k] + 2 + Len(info[names[k]])
        /\ info[names[k]] \in Seq(Byte) /\ Short(info[names[k]])
        /\ Holds(b, f[k], String(info[names[k]]))
    BY <1>2, Zenon DEF StringAt
  <2>2. f[k] \in Nat
    OBVIOUS
  <2>3. /\ At16(b, f[k]) = Len(info[names[k]])
        /\ SubSeq(b, f[k] + 3, f[k] + 2 + Len(info[names[k]])) = info[names[k]]
    BY <2>1, <2>2, HoldsString, Zenon
  <2>4. QED
    BY <2>1, <2>3, Zenon
<1>4. StringPlaces(b, i, n, f)
  <2>1. ASSUME NEW k \in 1..n+1
        PROVE  f[k] = IF k = 1 THEN i ELSE f[k - 1] + 2 + At16(b, f[k - 1])
    <3>1. CASE k = 1
      BY <1>2, <3>1, Zenon
    <3>2. CASE k # 1
      <4>1. k - 1 \in 1..n /\ (k - 1) + 1 = k
        BY <3>2
      <4>2. f[(k - 1) + 1] = f[k - 1] + 2 + At16(b, f[k - 1])
        BY <1>3, <4>1, Zenon
      <4>3. QED
        BY <3>2, <4>1, <4>2, Zenon
    <3>3. QED
      BY <3>1, <3>2, Zenon
  <2>2. f = [k \in 1..n+1 |-> f[k]]
    BY <1>2
  <2>3. QED
    BY <2>1, <2>2, Zenon DEF StringPlaces
<1>5. StringsAt(b, i, n) = f
  <2>1. StringPlaces(b, i, n, StringsAt(b, i, n))
    BY <1>4, StringsAtUnfolded, Zenon
  <2>2. QED
    BY <1>4, <2>1, OnePlacing, Zenon
<1>6. QED
  BY <1>1, <1>2, <1>3, <1>5, Zenon

-----------------------------------------------------------------------------
(* The flags, and what they announce.                                      *)
InfoTyped(info) ==
  /\ info.client_id \in Seq(Byte) /\ info.username \in Seq(Byte)
  /\ info.password \in Seq(Byte) /\ info.will_topic \in Seq(Byte)
  /\ info.will_message \in Seq(Byte)
  /\ info.keepalive \in Nat /\ IsWord(info.keepalive) /\ info.will_qos \in Nat
  /\ info.will_retain \in {0, 1} /\ info.clean_session \in {0, 1}

Announces(flags, info) ==
  /\ flags \in Byte
  /\ (flags >= 128 <=> Present(info.username))
  /\ ((flags \div 64) % 2 = 1 <=> Present(info.password))
  /\ ((flags \div 4) % 2 = 1 <=> Present(info.will_topic))

LEMMA Flags ==
  ASSUME NEW info, InfoTyped(info)
  PROVE  Announces(ConnectFlags(info), info)
<1>1. PICK q \in {0, 1, 2, 3} : q = info.will_qos % 4
  <2>1. info.will_qos \in Nat
    BY Zenon DEF InfoTyped
  <2>2. info.will_qos % 4 \in {0, 1, 2, 3}
    BY <2>1
  <2>3. QED
    BY <2>2, Zenon
<1>2. PICK r \in {0, 1}, c \in {0, 1} : r = info.will_retain /\ c = info.clean_session
  BY Zenon DEF InfoTyped
<1>3. PICK u \in {0, 128} : /\ u = Flag(128, info.username)
                            /\ (u = 128 <=> Present(info.username))
  BY DEF Flag
<1>4. PICK p \in {0, 64} : /\ p = Flag(64, info.password)
                           /\ (p = 64 <=> Present(info.password))
  BY DEF Flag
<1>5. PICK w \in {0, 4 + r * 32 + q * 8} :
         /\ w = Flag(4 + info.will_retain * 32 + (info.will_qos % 4) * 8, info.will_topic)
         /\ (w # 0 <=> Present(info.will_topic))
  <2>1. 4 + r * 32 + q * 8 # 0
    OBVIOUS
  <2>2. QED
    BY <1>1, <1>2, <2>1, Zenon DEF Flag
<1>6. ConnectFlags(info) = u + p + w + c * 2
  BY <1>2, <1>3, <1>4, <1>5, Zenon DEF ConnectFlags
<1>7. PICK flags : flags = u + p + w + c * 2
  BY Zenon
<1>8. flags \in Int /\ flags >= 0 /\ flags <= 255
  BY <1>7
<1>9. flags >= 128 <=> u = 128
  BY <1>7
<1>10. (flags \div 64) % 2 = 1 <=> p = 64
  BY <1>7
<1>11. (flags \div 4) % 2 = 1 <=> w # 0
  BY <1>7
<1>12. flags \in Byte
  BY <1>8, ByteIs
<1>13. Announces(flags, info)
  BY <1>3, <1>4, <1>5, <1>9, <1>10, <1>11, <1>12, Zenon DEF Announces
<1>14. QED
  BY <1>6, <1>7, <1>13, Zenon

(* The pieces of a CONNECT's body, each text with its length where it is   *)
(* present: all are bytes, since what fits the buffer is short enough.     *)
Magic == String(<<77, 81, 73, 115, 100, 112>>)
Header(info) == Magic \o <<3, ConnectFlags(info)>> \o U16(info.keepalive)
Will(info) == IF Present(info.will_topic)
              THEN String(info.will_topic) \o String(info.will_message) ELSE <<>>
ConnectBody(info) == Header(info) \o String(info.client_id) \o Will(info)
                     \o Optional(info.username) \o Optional(info.password)

LEMMA HeaderTyped ==
  ASSUME NEW info, InfoTyped(info)
  PROVE  /\ Magic \in Seq(Byte) /\ Len(Magic) = 8
         /\ <<3, ConnectFlags(info)>> \in Seq(Byte)
         /\ U16(info.keepalive) \in Seq(Byte) /\ Len(U16(info.keepalive)) = 2
         /\ Header(info) \in Seq(Byte) /\ Len(Header(info)) = 12
<1>1. PICK m : m = <<77, 81, 73, 115, 100, 112>>
  BY Zenon
<1>2. m \in Seq(Byte) /\ Len(m) = 6
  <2>1. /\ 77 \in Byte /\ 81 \in Byte /\ 73 \in Byte /\ 115 \in Byte /\ 100 \in Byte
        /\ 112 \in Byte
    BY ByteIs
  <2>2. QED
    BY <1>1, <2>1
<1>3. Magic \in Seq(Byte) /\ Len(Magic) = 8
  <2>1. Short(m) /\ Magic = String(m)
    BY <1>1, <1>2 DEF Short, IsWord, Magic
  <2>2. Magic \in Seq(Byte) /\ Len(Magic) = 2 + Len(m)
    BY <1>2, <2>1, StringType, Zenon
  <2>3. QED
    BY <1>2, <2>2
<1>4. PICK fl : fl = <<3, ConnectFlags(info)>>
  BY Zenon
<1>5. fl \in Seq(Byte) /\ Len(fl) = 2
  <2>1. 3 \in Byte
    BY ByteIs
  <2>2. ConnectFlags(info) \in Byte
    BY Flags, Zenon DEF Announces
  <2>3. QED
    BY <1>4, <2>1, <2>2
<1>6. PICK ka : ka = U16(info.keepalive)
  BY Zenon
<1>7. ka \in Seq(Byte) /\ Len(ka) = 2
  <2>1. info.keepalive \in Nat /\ IsWord(info.keepalive)
    BY Zenon DEF InfoTyped
  <2>2. QED
    BY <1>6, <2>1, U16Bytes, Zenon
<1>8. PICK mf : mf = Magic \o fl
  BY Zenon
<1>9. mf \in Seq(Byte) /\ Len(mf) = 10
  <2>1. mf \in Seq(Byte) /\ Len(mf) = Len(Magic) + Len(fl)
    BY <1>3, <1>5, <1>8, Joined, Zenon
  <2>2. QED
    BY <1>3, <1>5, <2>1
<1>10. mf \o ka \in Seq(Byte) /\ Len(mf \o ka) = 12
  <2>1. mf \o ka \in Seq(Byte) /\ Len(mf \o ka) = Len(mf) + Len(ka)
    BY <1>7, <1>9, Joined, Zenon
  <2>2. QED
    BY <1>7, <1>9, <2>1
<1>11. Header(info) = mf \o ka
  BY <1>4, <1>6, <1>8, Zenon DEF Header
<1>12. QED
  BY <1>3, <1>4, <1>5, <1>6, <1>7, <1>10, <1>11, Zenon

(* What a text takes of the body.                                          *)
Room(s) == IF Present(s) THEN 2 + Len(s) ELSE 0

LEMMA OptionalLen ==
  ASSUME NEW s \in Seq(Byte)
  PROVE  Optional(s) \in Seq(Nat) /\ Len(Optional(s)) = Room(s) /\ Room(s) \in Nat
<1>1. String(s) \in Seq(Nat) /\ Len(String(s)) = 2 + Len(s) /\ 2 + Len(s) \in Nat
  BY StringLen
<1>2. <<>> \in Seq(Nat) /\ Len(<<>>) = 0 /\ 0 \in Nat
  OBVIOUS
<1>3. CASE Present(s)
  BY <1>1, <1>3, Zenon DEF Optional, Room
<1>4. CASE ~ Present(s)
  <2>1. Optional(s) = <<>> /\ Room(s) = 0
    BY <1>4, Zenon DEF Optional, Room
  <2>2. QED
    BY <1>2, <2>1
<1>5. QED
  BY <1>3, <1>4, Zenon

LEMMA WillLen ==
  ASSUME NEW info, InfoTyped(info)
  PROVE  /\ Will(info) \in Seq(Nat)
         /\ Present(info.will_topic) =>
              Len(Will(info)) = (2 + Len(info.will_topic)) + (2 + Len(info.will_message))
<1>1. info.will_topic \in Seq(Byte) /\ info.will_message \in Seq(Byte)
  BY Zenon DEF InfoTyped
<1>2. PICK a, c : a = String(info.will_topic) /\ c = String(info.will_message)
  BY Zenon
<1>3. a \in Seq(Nat) /\ Len(a) = 2 + Len(info.will_topic)
  BY <1>1, <1>2, StringLen, Zenon
<1>4. c \in Seq(Nat) /\ Len(c) = 2 + Len(info.will_message)
  BY <1>1, <1>2, StringLen, Zenon
<1>5. a \o c \in Seq(Nat) /\ Len(a \o c) = Len(a) + Len(c)
  BY <1>3, <1>4, Joined, Zenon
<1>6. <<>> \in Seq(Nat)
  OBVIOUS
<1>7. Will(info) = IF Present(info.will_topic) THEN a \o c ELSE <<>>
  BY <1>2, Zenon DEF Will
<1>8. CASE Present(info.will_topic)
  <2>1. Will(info) = a \o c
    BY <1>7, <1>8, Zenon
  <2>2. QED
    BY <1>3, <1>4, <1>5, <2>1, Zenon
<1>9. CASE ~ Present(info.will_topic)
  BY <1>6, <1>7, <1>9, Zenon
<1>10. QED
  BY <1>8, <1>9, Zenon

(* Five pieces behind one another.                                         *)
LEMMA FiveLen ==
  ASSUME NEW T, NEW h \in Seq(T), NEW c \in Seq(T), NEW w \in Seq(T), NEW u \in Seq(T),
         NEW p \in Seq(T)
  PROVE  /\ h \o c \o w \o u \o p \in Seq(T)
         /\ Len(h \o c \o w \o u \o p) = Len(h) + Len(c) + Len(w) + Len(u) + Len(p)
<1>1. PICK x : x = h \o c
  BY Zenon
<1>2. x \in Seq(T) /\ Len(x) = Len(h) + Len(c)
  BY <1>1, Joined, Zenon
<1>3. PICK y : y = x \o w
  BY Zenon
<1>4. y \in Seq(T) /\ Len(y) = Len(x) + Len(w)
  BY <1>2, <1>3, Joined, Zenon
<1>5. PICK z : z = y \o u
  BY Zenon
<1>6. z \in Seq(T) /\ Len(z) = Len(y) + Len(u)
  BY <1>4, <1>5, Joined, Zenon
<1>7. z \o p \in Seq(T) /\ Len(z \o p) = Len(z) + Len(p)
  BY <1>6, Joined, Zenon
<1>8. QED
  BY <1>1, <1>2, <1>3, <1>4, <1>5, <1>6, <1>7, Zenon

FiveAt(b, e, h, c, w, u, p) ==
  /\ Holds(b, e, h) /\ Holds(b, e + Len(h), c) /\ Holds(b, e + Len(h) + Len(c), w)
  /\ Holds(b, e + Len(h) + Len(c) + Len(w), u)
  /\ Holds(b, e + Len(h) + Len(c) + Len(w) + Len(u), p)

LEMMA FivePieces ==
  ASSUME NEW b \in Seq(Byte), NEW e \in Nat, NEW h \in Seq(Byte), NEW c \in Seq(Byte),
         NEW w \in Seq(Byte), NEW u \in Seq(Byte), NEW p \in Seq(Byte),
         Holds(b, e, h \o c \o w \o u \o p)
  PROVE  FiveAt(b, e, h, c, w, u, p)
<1>1. PICK y : y = h \o c \o w
  BY Zenon
<1>2. Holds(b, e, y \o u \o p)
  BY <1>1, Zenon
<1>3. y \in Seq(Byte) /\ Len(y) = Len(h) + Len(c) + Len(w)
  <2>1. PICK x : x = h \o c
    BY Zenon
  <2>2. x \in Seq(Byte) /\ Len(x) = Len(h) + Len(c)
    BY <2>1, Joined, Zenon
  <2>3. x \o w \in Seq(Byte) /\ Len(x \o w) = Len(x) + Len(w)
    BY <2>2, Joined, Zenon
  <2>4. QED
    BY <1>1, <2>1, <2>2, <2>3, Zenon
<1>4. Holds(b, e, y) /\ Holds(b, e + Len(y), u) /\ Holds(b, e + Len(y) + Len(u), p)
  BY <1>2, <1>3, ThreePieces
<1>5. /\ Holds(b, e, h) /\ Holds(b, e + Len(h), c)
      /\ Holds(b, e + Len(h) + Len(c), w)
  BY <1>1, <1>4, ThreePieces
<1>6. e + Len(y) = e + Len(h) + Len(c) + Len(w)
  <2>1. \A i, k, l, m \in Nat : i + (k + l + m) = i + k + l + m
    OBVIOUS
  <2>2. Len(h) \in Nat /\ Len(c) \in Nat /\ Len(w) \in Nat
    OBVIOUS
  <2>3. e + (Len(h) + Len(c) + Len(w)) = e + Len(h) + Len(c) + Len(w)
    BY <2>1, <2>2
  <2>4. QED
    BY <1>3, <2>3, Zenon
<1>7. QED
  BY <1>4, <1>5, <1>6, Zenon DEF FiveAt

-----------------------------------------------------------------------------
(* Every text of a CONNECT that fits the buffer is short.                  *)
LEMMA TextsShort ==
  ASSUME NEW info, InfoTyped(info), Fits(ConnectBody(info))
  PROVE  /\ Short(info.client_id)
         /\ Present(info.will_topic) => Short(info.will_topic) /\ Short(info.will_message)
         /\ Present(info.username) => Short(info.username)
         /\ Present(info.password) => Short(info.password)
<1>1. /\ info.client_id \in Seq(Byte) /\ info.username \in Seq(Byte)
      /\ info.password \in Seq(Byte) /\ info.will_topic \in Seq(Byte)
      /\ info.will_message \in Seq(Byte)
  BY Zenon DEF InfoTyped
<1>2. Header(info) \in Seq(Nat) /\ Len(Header(info)) = 12
  <2>1. Byte \subseteq Nat
    BY DEF Byte
  <2>2. Header(info) \in Seq(Byte) /\ Len(Header(info)) = 12
    BY HeaderTyped
  <2>3. QED
    BY <2>1, <2>2, SeqMonotonic, Zenon
<1>3. String(info.client_id) \in Seq(Nat)
      /\ Len(String(info.client_id)) = 2 + Len(info.client_id)
  BY <1>1, StringLen, Zenon
<1>4. /\ Optional(info.username) \in Seq(Nat)
      /\ Len(Optional(info.username)) = Room(info.username)
  BY <1>1, OptionalLen, Zenon
<1>5. /\ Optional(info.password) \in Seq(Nat)
      /\ Len(Optional(info.password)) = Room(info.password)
  BY <1>1, OptionalLen, Zenon
<1>6. Will(info) \in Seq(Nat)
  BY WillLen, Zenon
<1>7. Len(ConnectBody(info)) = Len(Header(info)) + Len(String(info.client_id)) + Len(Will(info))
                        + Len(Optional(info.username)) + Len(Optional(info.password))
  <2>1. PICK h, c, w, u, p : /\ h = Header(info) /\ c = String(info.client_id)
                             /\ w = Will(info) /\ u = Optional(info.username)
                             /\ p = Optional(info.password)
    BY Zenon
  <2>2. /\ h \in Seq(Nat) /\ c \in Seq(Nat) /\ w \in Seq(Nat) /\ u \in Seq(Nat)
        /\ p \in Seq(Nat)
    BY <1>2, <1>3, <1>4, <1>5, <1>6, <2>1, Zenon
  <2>3. Len(h \o c \o w \o u \o p) = Len(h) + Len(c) + Len(w) + Len(u) + Len(p)
    BY <2>2, FiveLen
  <2>4. ConnectBody(info) = h \o c \o w \o u \o p
    BY <2>1, Zenon DEF ConnectBody
  <2>5. QED
    BY <2>1, <2>3, <2>4, Zenon
<1>8. PICK n \in Nat, t \in Nat, m \in Nat, k \in Nat, q \in Nat :
         /\ n = Len(info.client_id) /\ t = Len(info.will_topic)
         /\ m = Len(info.will_message) /\ k = Len(info.username) /\ q = Len(info.password)
  <2>1. /\ Len(info.client_id) \in Nat /\ Len(info.will_topic) \in Nat
        /\ Len(info.will_message) \in Nat /\ Len(info.username) \in Nat
        /\ Len(info.password) \in Nat
    BY <1>1
  <2>2. QED
    BY <2>1, Zenon
<1>9. PICK w \in Nat, u \in Nat, p \in Nat :
         /\ w = Len(Will(info)) /\ u = Room(info.username) /\ p = Room(info.password)
  <2>1. Room(info.username) \in Nat /\ Room(info.password) \in Nat
    BY <1>1, OptionalLen, Zenon
  <2>2. Len(Will(info)) \in Nat
    BY <1>6
  <2>3. QED
    BY <2>1, <2>2, Zenon
<1>10. PICK total : total = Len(ConnectBody(info)) /\ total = 12 + (2 + n) + w + u + p
  BY <1>2, <1>3, <1>4, <1>5, <1>7, <1>8, <1>9, Zenon
<1>11. Short(info.client_id)
  <2>1. total = (14 + w + u + p) + n /\ 14 + w + u + p \in Nat
    BY <1>10
  <2>2. QED
    BY <1>1, <1>8, <1>10, <2>1, FittingString, Zenon
<1>12. ASSUME Present(info.will_topic)
       PROVE  Short(info.will_topic) /\ Short(info.will_message)
  <2>1. w = (2 + t) + (2 + m)
    BY <1>8, <1>9, <1>12, WillLen, Zenon
  <2>2. /\ total = (18 + n + m + u + p) + t /\ 18 + n + m + u + p \in Nat
        /\ total = (18 + n + t + u + p) + m /\ 18 + n + t + u + p \in Nat
    BY <1>10, <2>1
  <2>3. Short(info.will_topic)
    BY <1>1, <1>8, <1>10, <2>2, FittingString, Zenon
  <2>4. Short(info.will_message)
    BY <1>1, <1>8, <1>10, <2>2, FittingString, Zenon
  <2>5. QED
    BY <2>3, <2>4
<1>13. ASSUME Present(info.username)
       PROVE  Short(info.username)
  <2>1. u = 2 + k
    BY <1>8, <1>9, <1>13, Zenon DEF Room
  <2>2. total = (16 + n + w + p) + k /\ 16 + n + w + p \in Nat
    BY <1>10, <2>1
  <2>3. QED
    BY <1>1, <1>8, <1>10, <2>2, FittingString, Zenon
<1>14. ASSUME Present(info.password)
       PROVE  Short(info.password)
  <2>1. p = 2 + q
    BY <1>8, <1>9, <1>14, Zenon DEF Room
  <2>2. total = (16 + n + w + u) + q /\ 16 + n + w + u \in Nat
    BY <1>10, <2>1
  <2>3. QED
    BY <1>1, <1>8, <1>10, <2>2, FittingString, Zenon
<1>15. QED
  BY <1>11, <1>12, <1>13, <1>14

-----------------------------------------------------------------------------
(* The names of the texts that are present, in the order of the body.      *)
Named(info, name) == IF Present(info[name]) THEN <<name>> ELSE <<>>
Wills(info) == IF Present(info.will_topic) THEN <<"will_topic", "will_message">> ELSE <<>>

LEMMA OneName ==
  ASSUME NEW T, NEW x \in T
  PROVE  <<x>> \in Seq(T)
  OBVIOUS

LEMMA TwoNames ==
  ASSUME NEW T, NEW x \in T, NEW y \in T
  PROVE  <<x>> \o <<y>> = <<x, y>>
<1>1. PICK r, s, t : r = <<x>> /\ s = <<y>> /\ t = <<x, y>>
  BY Zenon
<1>2. /\ r \in Seq(T) /\ s \in Seq(T) /\ t \in Seq(T)
      /\ Len(r) = 1 /\ Len(s) = 1 /\ Len(t) = 2
      /\ r[1] = x /\ s[1] = y /\ t[1] = x /\ t[2] = y
  BY <1>1
<1>3. /\ Len(r \o s) = 2 /\ r \o s \in Seq(T)
      /\ (r \o s)[1] = x /\ (r \o s)[2] = y
  <2>1. /\ r \o s \in Seq(T) /\ Len(r \o s) = Len(r) + Len(s)
        /\ \A i \in 1..Len(r) + Len(s) :
             (r \o s)[i] = IF i <= Len(r) THEN r[i] ELSE s[i - Len(r)]
    BY <1>2, ConcatProperties, Zenon
  <2>2. Len(r) + Len(s) = 2 /\ 1 <= Len(r) /\ ~ (2 <= Len(r)) /\ 2 - Len(r) = 1
    BY <1>2
  <2>3. 1 \in 1..2 /\ 2 \in 1..2
    OBVIOUS
  <2>4. QED
    BY <1>2, <2>1, <2>2, <2>3, Zenon
<1>4. r \o s = t
  BY <1>2, <1>3, SeqEqual
<1>5. QED
  BY <1>1, <1>4, Zenon

LEMMA ReadsOptional ==
  ASSUME NEW b \in Seq(Byte), NEW i \in Nat, NEW info, NEW name \in TextFields,
         info[name] \in Seq(Byte), Present(info[name]) => Short(info[name]),
         Holds(b, i, Optional(info[name]))
  PROVE  /\ Optional(info[name]) \in Seq(Byte)
         /\ Named(info, name) \in Seq(TextFields)
         /\ Reads(b, i, info, Named(info, name), i + Len(Optional(info[name])))
         /\ i + Len(Optional(info[name])) \in Nat
<1>1. CASE Present(info[name])
  <2>1. /\ String(info[name]) \in Seq(Byte)
        /\ Len(String(info[name])) = 2 + Len(info[name])
    BY <1>1, StringType, Zenon
  <2>2. Optional(info[name]) = String(info[name]) /\ Named(info, name) = <<name>>
    BY <1>1, Zenon DEF Optional, Named
  <2>3. Reads(b, i, info, <<name>>, i + 2 + Len(info[name]))
    BY <1>1, <2>2, ReadsOne, Zenon
  <2>4. PICK n \in Nat : n = Len(info[name])
    <3>1. Len(info[name]) \in Nat
      BY LenProperties
    <3>2. QED
      BY <3>1, Zenon
  <2>5. i + (2 + n) = i + 2 + n /\ i + 2 + n \in Nat
    OBVIOUS
  <2>6. <<name>> \in Seq(TextFields)
    BY OneName, Zenon
  <2>7. QED
    BY <2>1, <2>2, <2>3, <2>4, <2>5, <2>6, Zenon
<1>2. CASE ~ Present(info[name])
  <2>1. Optional(info[name]) = <<>> /\ Named(info, name) = <<>>
    BY <1>2, Zenon DEF Optional, Named
  <2>2. i + Len(<<>>) = i /\ <<>> \in Seq(Byte) /\ <<>> \in Seq(TextFields)
    OBVIOUS
  <2>3. Reads(b, i, info, <<>>, i)
    BY ReadsNone, Zenon
  <2>4. QED
    BY <2>1, <2>2, <2>3, Zenon
<1>3. QED
  BY <1>1, <1>2, Zenon

LEMMA WillTyped ==
  ASSUME NEW info, InfoTyped(info), Fits(ConnectBody(info))
  PROVE  Will(info) \in Seq(Byte)
<1>1. info.will_topic \in Seq(Byte) /\ info.will_message \in Seq(Byte)
  BY Zenon DEF InfoTyped
<1>2. CASE Present(info.will_topic)
  <2>1. Short(info.will_topic) /\ Short(info.will_message)
    BY <1>2, TextsShort, Zenon
  <2>2. /\ String(info.will_topic) \in Seq(Byte)
        /\ String(info.will_message) \in Seq(Byte)
    BY <1>1, <2>1, StringType, Zenon
  <2>3. String(info.will_topic) \o String(info.will_message) \in Seq(Byte)
    BY <2>2, Joined, Zenon
  <2>4. QED
    BY <1>2, <2>3, Zenon DEF Will
<1>3. CASE ~ Present(info.will_topic)
  <2>1. <<>> \in Seq(Byte)
    OBVIOUS
  <2>2. QED
    BY <1>3, <2>1, Zenon DEF Will
<1>4. QED
  BY <1>2, <1>3, Zenon

LEMMA ReadsWill ==
  ASSUME NEW b \in Seq(Byte), NEW i \in Nat, NEW info, InfoTyped(info), Fits(ConnectBody(info)),
         Holds(b, i, Will(info))
  PROVE  /\ Wills(info) \in Seq(TextFields)
         /\ Reads(b, i, info, Wills(info), i + Len(Will(info)))
         /\ i + Len(Will(info)) \in Nat
<1>1. info.will_topic \in Seq(Byte) /\ info.will_message \in Seq(Byte)
  BY Zenon DEF InfoTyped
<1>2. CASE Present(info.will_topic)
  <2>1. Short(info.will_topic) /\ Short(info.will_message)
    BY <1>2, TextsShort, Zenon
  <2>2. PICK s, r : s = String(info.will_topic) /\ r = String(info.will_message)
    BY Zenon
  <2>3. s \in Seq(Byte) /\ Len(s) = 2 + Len(info.will_topic)
    BY <1>1, <2>1, <2>2, StringType, Zenon
  <2>4. r \in Seq(Byte) /\ Len(r) = 2 + Len(info.will_message)
    BY <1>1, <2>1, <2>2, StringType, Zenon
  <2>5. Will(info) = s \o r /\ Wills(info) = <<"will_topic", "will_message">>
    BY <1>2, <2>2, Zenon DEF Will, Wills
  <2>6. Holds(b, i, s) /\ Holds(b, i + Len(s), r) /\ Len(s \o r) = Len(s) + Len(r)
    <3>1. Holds(b, i, s \o r)
      BY <2>5, Zenon
    <3>2. Len(s \o r) = Len(s) + Len(r)
      BY <2>3, <2>4, Joined, Zenon
    <3>3. Holds(b, i, s) /\ Holds(b, i + Len(s), r)
      BY <2>3, <2>4, <3>1, HoldsJoined, Zenon
    <3>4. QED
      BY <3>2, <3>3, Zenon
  <2>7. PICK m \in Nat, n \in Nat : m = Len(info.will_topic) /\ n = Len(info.will_message)
    <3>1. Len(info.will_topic) \in Nat /\ Len(info.will_message) \in Nat
      BY <1>1
    <3>2. QED
      BY <3>1, Zenon
  <2>8. /\ i + (2 + m) = i + 2 + m /\ i + 2 + m \in Nat
        /\ i + ((2 + m) + (2 + n)) = (i + 2 + m) + 2 + n
        /\ (i + 2 + m) + 2 + n \in Nat
    OBVIOUS
  <2>9. Reads(b, i, info, <<"will_topic">>, i + 2 + m)
    BY <1>1, <2>1, <2>2, <2>6, <2>7, ReadsOne, Zenon
  <2>10. Holds(b, i + 2 + m, r)
    BY <2>3, <2>6, <2>7, <2>8, Zenon
  <2>11. Reads(b, i + 2 + m, info, <<"will_message">>, (i + 2 + m) + 2 + n)
    BY <1>1, <2>1, <2>2, <2>7, <2>8, <2>10, ReadsOne, Zenon
  <2>12. <<"will_topic">> \in Seq(TextFields) /\ <<"will_message">> \in Seq(TextFields)
         /\ <<"will_topic">> \o <<"will_message">> = <<"will_topic", "will_message">>
    <3>1. "will_topic" \in TextFields /\ "will_message" \in TextFields
      BY DEF TextFields
    <3>2. <<"will_topic">> \in Seq(TextFields) /\ <<"will_message">> \in Seq(TextFields)
      BY <3>1, OneName, Zenon
    <3>3. <<"will_topic">> \o <<"will_message">> = <<"will_topic", "will_message">>
      BY <3>1, TwoNames, Zenon
    <3>4. QED
      BY <3>2, <3>3, Zenon
  <2>13. /\ <<"will_topic">> \o <<"will_message">> \in Seq(TextFields)
         /\ Reads(b, i, info, <<"will_topic">> \o <<"will_message">>, (i + 2 + m) + 2 + n)
    BY <2>9, <2>11, <2>12, ReadsJoined, Zenon
  <2>14. i + Len(Will(info)) = (i + 2 + m) + 2 + n
    BY <2>3, <2>4, <2>5, <2>6, <2>7, <2>8, Zenon
  <2>15. QED
    BY <2>5, <2>8, <2>12, <2>13, <2>14, Zenon
<1>3. CASE ~ Present(info.will_topic)
  <2>1. Will(info) = <<>> /\ Wills(info) = <<>>
    BY <1>3, Zenon DEF Will, Wills
  <2>2. i + Len(<<>>) = i /\ <<>> \in Seq(TextFields)
    OBVIOUS
  <2>3. Reads(b, i, info, <<>>, i)
    BY ReadsNone, Zenon
  <2>4. QED
    BY <2>1, <2>2, <2>3, Zenon
<1>4. QED
  BY <1>2, <1>3, Zenon

LEMMA OptionalTyped ==
  ASSUME NEW s \in Seq(Byte), Present(s) => Short(s)
  PROVE  Optional(s) \in Seq(Byte)
<1>1. CASE Present(s)
  BY <1>1, StringType, Zenon DEF Optional
<1>2. CASE ~ Present(s)
  <2>1. <<>> \in Seq(Byte)
    OBVIOUS
  <2>2. QED
    BY <1>2, <2>1, Zenon DEF Optional
<1>3. QED
  BY <1>1, <1>2, Zenon

(* A name that stands in either of two sequences stands in both joined.    *)
Among(s, x) == \E k \in DOMAIN s : s[k] = x

LEMMA AmongJoined ==
  ASSUME NEW T, NEW r \in Seq(T), NEW s \in Seq(T), NEW x, Among(r, x) \/ Among(s, x)
  PROVE  Among(r \o s, x)
<1>1. PICK m \in Nat, n \in Nat : m = Len(r) /\ n = Len(s)
  OBVIOUS
<1>2. PICK t : t = r \o s
  BY Zenon
<1>3. /\ DOMAIN r = 1..m /\ DOMAIN s = 1..n /\ DOMAIN t = 1..m+n
      /\ \A k \in 1..m : t[k] = r[k]
      /\ \A k \in 1..n : t[m + k] = s[k]
  BY <1>1, <1>2
<1>4. CASE Among(r, x)
  <2>1. PICK k \in 1..m : r[k] = x
    BY <1>3, <1>4, Zenon DEF Among
  <2>2. k \in 1..m+n
    OBVIOUS
  <2>3. QED
    BY <1>2, <1>3, <2>1, <2>2, Zenon DEF Among
<1>5. CASE Among(s, x)
  <2>1. PICK k \in 1..n : s[k] = x
    BY <1>3, <1>5, Zenon DEF Among
  <2>2. m + k \in 1..m+n
    OBVIOUS
  <2>3. QED
    BY <1>2, <1>3, <2>1, <2>2, Zenon DEF Among
<1>6. QED
  BY <1>4, <1>5

LEMMA AmongOne ==
  ASSUME NEW x
  PROVE  Among(<<x>>, x)
<1>1. 1 \in DOMAIN <<x>> /\ <<x>>[1] = x
  OBVIOUS
<1>2. QED
  BY <1>1, Zenon DEF Among

-----------------------------------------------------------------------------
(* The header of a CONNECT's body: its flags and its keepalive.            *)
LEMMA HeaderRead ==
  ASSUME NEW b \in Seq(Byte), NEW e \in Nat, NEW info, InfoTyped(info),
         Holds(b, e, Header(info))
  PROVE  b[e + 10] = ConnectFlags(info) /\ At16(b, e + 10) = info.keepalive
<1>1. PICK m, fl, ka : /\ m = Magic /\ fl = <<3, ConnectFlags(info)>>
                       /\ ka = U16(info.keepalive)
  BY Zenon
<1>2. /\ m \in Seq(Byte) /\ Len(m) = 8 /\ fl \in Seq(Byte)
      /\ ka \in Seq(Byte) /\ Len(ka) = 2
  BY <1>1, HeaderTyped, Zenon
<1>3. Len(fl) = 2 /\ fl[2] = ConnectFlags(info)
  BY <1>1
<1>4. Holds(b, e, m \o fl \o ka)
  BY <1>1, Zenon DEF Header
<1>5. Holds(b, e + Len(m), fl) /\ Holds(b, e + Len(m) + Len(fl), ka)
  BY <1>2, <1>4, ThreePieces, Zenon
<1>6. /\ e + 8 + 2 = e + 10 /\ (e + 8) + 2 = e + 10 /\ e + 8 \in Nat /\ e + 10 \in Nat
      /\ 2 \in 1..2
  OBVIOUS
<1>7. b[e + 10] = ConnectFlags(info)
  <2>1. Holds(b, e + 8, fl)
    BY <1>2, <1>5, Zenon
  <2>2. \A k \in 1..2 : b[(e + 8) + k] = fl[k]
    BY <1>3, <2>1, Zenon DEF Holds
  <2>3. QED
    BY <1>3, <1>6, <2>2, Zenon
<1>8. At16(b, e + 10) = info.keepalive
  <2>1. Holds(b, e + 10, U16(info.keepalive))
    BY <1>1, <1>2, <1>3, <1>5, <1>6, Zenon
  <2>2. info.keepalive \in Nat
    BY Zenon DEF InfoTyped
  <2>3. QED
    BY <1>6, <2>1, <2>2, HoldsU16, Zenon
<1>9. QED
  BY <1>7, <1>8

(* The strings behind it, in the order of the body.                        *)
Names(info) == <<"client_id">> \o ((Wills(info) \o Named(info, "username"))
                                   \o Named(info, "password"))

LEMMA NamesAnnounced ==
  ASSUME NEW info, NEW flags, Announces(flags, info)
  PROVE  Names(info) = <<"client_id">> \o Announced(flags)
<1>1. Wills(info) = IF (flags \div 4) % 2 = 1 THEN <<"will_topic", "will_message">> ELSE <<>>
  BY Zenon DEF Announces, Wills
<1>2. Named(info, "username") = IF flags >= 128 THEN <<"username">> ELSE <<>>
  BY Zenon DEF Announces, Named
<1>3. Named(info, "password") = IF (flags \div 64) % 2 = 1 THEN <<"password">> ELSE <<>>
  BY Zenon DEF Announces, Named
<1>4. QED
  BY <1>1, <1>2, <1>3, Zenon DEF Announced, Names

LEMMA NamesTyped ==
  ASSUME NEW info
  PROVE  /\ Wills(info) \in Seq(TextFields)
         /\ Named(info, "username") \in Seq(TextFields)
         /\ Named(info, "password") \in Seq(TextFields)
         /\ <<"client_id">> \in Seq(TextFields)
<1>1. /\ <<"will_topic", "will_message">> \in Seq(TextFields)
      /\ <<"username">> \in Seq(TextFields) /\ <<"password">> \in Seq(TextFields)
      /\ <<"client_id">> \in Seq(TextFields) /\ <<>> \in Seq(TextFields)
  BY DEF TextFields
<1>2. QED
  BY <1>1, Zenon DEF Wills, Named

(* Every text that is present is among them.                               *)
LEMMA NamesComplete ==
  ASSUME NEW info
  PROVE  \A s \in {"will_topic", "username", "password"} :
           Present(info[s]) => Among(Names(info), s)
<1>1. PICK w, u, p : /\ w = Wills(info) /\ u = Named(info, "username")
                     /\ p = Named(info, "password")
  BY Zenon
<1>2. w \in Seq(TextFields) /\ u \in Seq(TextFields) /\ p \in Seq(TextFields)
  BY <1>1, NamesTyped, Zenon
<1>3. w \o u \in Seq(TextFields)
  BY <1>2, Joined, Zenon
<1>4. (w \o u) \o p \in Seq(TextFields)
  BY <1>2, <1>3, Joined, Zenon
<1>5. ASSUME NEW s, Among((w \o u) \o p, s) PROVE Among(Names(info), s)
  <2>1. PICK c, r : c = <<"client_id">> /\ r = (w \o u) \o p
    BY Zenon
  <2>2. c \in Seq(TextFields) /\ r \in Seq(TextFields) /\ Among(r, s)
    BY <1>4, <1>5, <2>1, NamesTyped, Zenon
  <2>3. Among(c \o r, s)
    BY <2>2, AmongJoined, Zenon
  <2>4. QED
    BY <1>1, <2>1, <2>3, Zenon DEF Names
<1>6. Present(info["will_topic"]) => Among(w, "will_topic")
  <2>1. Among(<<"will_topic", "will_message">>, "will_topic")
    <3>1. PICK t : t = <<"will_topic", "will_message">>
      BY Zenon
    <3>2. 1 \in DOMAIN t /\ t[1] = "will_topic"
      BY <3>1
    <3>3. QED
      BY <3>1, <3>2, Zenon DEF Among
  <2>2. QED
    BY <1>1, <2>1, Zenon DEF Wills
<1>7. Present(info["username"]) => Among(u, "username")
  BY <1>1, AmongOne, Zenon DEF Named
<1>8. Present(info["password"]) => Among(p, "password")
  BY <1>1, AmongOne, Zenon DEF Named
<1>9. \A s : Among(w, s) \/ Among(u, s) => Among(w \o u, s)
  BY <1>2, AmongJoined, Zenon
<1>10. \A s : Among(w \o u, s) \/ Among(p, s) => Among((w \o u) \o p, s)
  BY <1>2, <1>3, AmongJoined, Zenon
<1>11. QED
  BY <1>5, <1>6, <1>7, <1>8, <1>9, <1>10, Zenon

LEMMA StringsRead ==
  ASSUME NEW b \in Seq(Byte), NEW e \in Nat, NEW info, InfoTyped(info),
         Fits(ConnectBody(info)), Holds(b, e, ConnectBody(info))
  PROVE  /\ Holds(b, e, Header(info))
         /\ Names(info) \in Seq(TextFields)
         /\ Reads(b, e + 12, info, Names(info), e + Len(ConnectBody(info)))
<1>1. PICK h, c, w, u, p : /\ h = Header(info) /\ c = String(info.client_id)
                           /\ w = Will(info) /\ u = Optional(info.username)
                           /\ p = Optional(info.password)
  BY Zenon
<1>2. /\ info.client_id \in Seq(Byte) /\ info.username \in Seq(Byte)
      /\ info.password \in Seq(Byte)
  BY Zenon DEF InfoTyped
<1>3. /\ Short(info.client_id)
      /\ Present(info.username) => Short(info.username)
      /\ Present(info.password) => Short(info.password)
  BY TextsShort, Zenon
<1>4. h \in Seq(Byte) /\ Len(h) = 12
  BY <1>1, HeaderTyped, Zenon
<1>5. c \in Seq(Byte) /\ Len(c) = 2 + Len(info.client_id)
  BY <1>1, <1>2, <1>3, StringType, Zenon
<1>6. w \in Seq(Byte)
  BY <1>1, WillTyped, Zenon
<1>7. u \in Seq(Byte) /\ p \in Seq(Byte)
  BY <1>1, <1>2, <1>3, OptionalTyped, Zenon
<1>8. ConnectBody(info) = h \o c \o w \o u \o p
  BY <1>1, Zenon DEF ConnectBody
<1>9. FiveAt(b, e, h, c, w, u, p)
  <2>1. Holds(b, e, h \o c \o w \o u \o p)
    BY <1>8, Zenon
  <2>2. QED
    BY <1>4, <1>5, <1>6, <1>7, <2>1, FivePieces, Zenon
<1>10. PICK lc \in Nat, lw \in Nat, lu \in Nat, lp \in Nat, n \in Nat :
         lc = Len(c) /\ lw = Len(w) /\ lu = Len(u) /\ lp = Len(p) /\ n = Len(info.client_id)
  <2>1. /\ Len(c) \in Nat /\ Len(w) \in Nat /\ Len(u) \in Nat /\ Len(p) \in Nat
        /\ Len(info.client_id) \in Nat
    BY <1>2, <1>5, <1>6, <1>7, LenProperties, Zenon
  <2>2. QED
    BY <2>1, Zenon
<1>11. PICK i \in Nat, j \in Nat, k \in Nat, l \in Nat :
         /\ i = e + 12 /\ j = e + 12 + lc /\ k = e + 12 + lc + lw /\ l = e + 12 + lc + lw + lu
  OBVIOUS
<1>12. /\ lc = 2 + n /\ j = i + 2 + n /\ k = j + lw /\ l = k + lu
       /\ l + lp = e + (12 + lc + lw + lu + lp)
  <2>1. lc = 2 + n
    BY <1>5, <1>10, Zenon
  <2>2. QED
    BY <1>11, <2>1
<1>13. /\ Holds(b, e, h) /\ Holds(b, i, c) /\ Holds(b, j, w) /\ Holds(b, k, u)
       /\ Holds(b, l, p)
  BY <1>4, <1>9, <1>10, <1>11, Zenon DEF FiveAt
<1>14. Reads(b, i, info, <<"client_id">>, j)
  <2>1. info["client_id"] \in Seq(Byte) /\ Short(info["client_id"])
    BY <1>2, <1>3, Zenon
  <2>2. Holds(b, i, String(info["client_id"]))
    BY <1>1, <1>13, Zenon
  <2>3. QED
    BY <1>10, <1>12, <2>1, <2>2, ReadsOne, Zenon
<1>15. Reads(b, j, info, Wills(info), k)
  BY <1>1, <1>10, <1>12, <1>13, ReadsWill, Zenon
<1>16. Reads(b, k, info, Named(info, "username"), l)
  <2>1. "username" \in TextFields
    BY DEF TextFields
  <2>2. QED
    BY <1>1, <1>2, <1>3, <1>10, <1>12, <1>13, <2>1, ReadsOptional, Zenon
<1>17. Reads(b, l, info, Named(info, "password"), l + lp)
  <2>1. "password" \in TextFields
    BY DEF TextFields
  <2>2. QED
    BY <1>1, <1>2, <1>3, <1>10, <1>12, <1>13, <2>1, ReadsOptional, Zenon
<1>18. /\ Wills(info) \o Named(info, "username") \in Seq(TextFields)
       /\ Reads(b, j, info, Wills(info) \o Named(info, "username"), l)
  BY <1>15, <1>16, NamesTyped, ReadsJoined, Zenon
<1>19. /\ (Wills(info) \o Named(info, "username")) \o Named(info, "password")
              \in Seq(TextFields)
       /\ Reads(b, j, info, (Wills(info) \o Named(info, "username"))
                             \o Named(info, "password"), l + lp)
  BY <1>17, <1>18, NamesTyped, ReadsJoined, Zenon
<1>20. /\ Names(info) \in Seq(TextFields)
       /\ Reads(b, i, info, Names(info), l + lp)
  BY <1>14, <1>19, NamesTyped, ReadsJoined, Zenon DEF Names
<1>21. Len(ConnectBody(info)) = 12 + lc + lw + lu + lp
  <2>1. /\ h \o c \o w \o u \o p \in Seq(Byte)
        /\ Len(h \o c \o w \o u \o p) = Len(h) + Len(c) + Len(w) + Len(u) + Len(p)
    <3>1. /\ h \in Seq(Byte) /\ c \in Seq(Byte) /\ w \in Seq(Byte) /\ u \in Seq(Byte)
          /\ p \in Seq(Byte)
      BY <1>4, <1>5, <1>6, <1>7, Zenon
    <3>2. QED
      BY <3>1, FiveLen
  <2>2. QED
    BY <1>4, <1>8, <1>10, <2>1, Zenon
<1>22. QED
  BY <1>1, <1>11, <1>12, <1>13, <1>20, <1>21, Zenon

(* What a broker reads from it.                                            *)
ConnectParsed(b, info) ==
  LET h == HeaderEnd(b, Len(b))
      names == <<"client_id">> \o Announced(b[h + 10])
      at == StringsAt(b, h + 12, Len(names))
  IN /\ mqtt_get_total_length(b, Len(b)) = Len(b)
     /\ at[Len(names) + 1] = Len(b)
     /\ \A k \in DOMAIN names : SubSeq(b, at[k] + 3, at[k + 1]) = info[names[k]]
     /\ \A s \in {"will_topic", "username", "password"} :
          Present(info[s]) => \E k \in DOMAIN names : names[k] = s
     /\ At16(b, h + 10) = info.keepalive

LEMMA ConnectRead ==
  ASSUME NEW info, InfoTyped(info), Fits(ConnectBody(info)), NEW b,
         Finished(b, CONNECT, 0, 0, ConnectBody(info))
  PROVE  ConnectParsed(b, info)
<1>1. PICK e : e = HeaderEnd(b, Len(b))
  BY Zenon
<1>2. /\ b \in Seq(Byte) /\ (e = 2 \/ e = 3) /\ Len(b) = e + Len(ConnectBody(info))
      /\ mqtt_get_total_length(b, Len(b)) = Len(b) /\ Holds(b, e, ConnectBody(info))
  BY <1>1, Zenon DEF Finished
<1>3. e \in Nat
  BY <1>2
<1>4. /\ Holds(b, e, Header(info))
      /\ Names(info) \in Seq(TextFields)
      /\ Reads(b, e + 12, info, Names(info), Len(b))
  BY <1>2, <1>3, StringsRead, Zenon
<1>5. b[e + 10] = ConnectFlags(info) /\ At16(b, e + 10) = info.keepalive
  BY <1>2, <1>3, <1>4, HeaderRead, Zenon
<1>6. Names(info) = <<"client_id">> \o Announced(b[e + 10])
  BY <1>5, Flags, NamesAnnounced, Zenon
<1>7. LET at == StringsAt(b, e + 12, Len(Names(info)))
      IN /\ at[Len(Names(info)) + 1] = Len(b)
         /\ \A k \in DOMAIN Names(info) :
              SubSeq(b, at[k] + 3, at[k + 1]) = info[Names(info)[k]]
  <2>1. PICK i, j, names : i = e + 12 /\ j = Len(b) /\ names = Names(info)
    BY Zenon
  <2>2. names \in Seq(TextFields) /\ Reads(b, i, info, names, j)
    BY <1>4, <2>1, Zenon
  <2>3. /\ StringsAt(b, i, Len(names))[Len(names) + 1] = j
        /\ \A k \in DOMAIN names :
             SubSeq(b, StringsAt(b, i, Len(names))[k] + 3, StringsAt(b, i, Len(names))[k + 1])
               = info[names[k]]
    BY <1>2, <2>2, StringsFound
  <2>4. QED
    BY <2>1, <2>3, Zenon
<1>8. \A s \in {"will_topic", "username", "password"} :
        Present(info[s]) => \E k \in DOMAIN Names(info) : Names(info)[k] = s
  BY NamesComplete, Zenon DEF Among
<1>9. QED
  BY <1>1, <1>2, <1>5, <1>6, <1>7, <1>8, Zenon DEF ConnectParsed

LEMMA BodyTyped ==
  ASSUME NEW info, InfoTyped(info), Fits(ConnectBody(info))
  PROVE  ConnectBody(info) \in Seq(Byte)
<1>1. PICK h, c, w, u, p : /\ h = Header(info) /\ c = String(info.client_id)
                           /\ w = Will(info) /\ u = Optional(info.username)
                           /\ p = Optional(info.password)
  BY Zenon
<1>2. /\ info.client_id \in Seq(Byte) /\ info.username \in Seq(Byte)
      /\ info.password \in Seq(Byte)
  BY Zenon DEF InfoTyped
<1>3. h \in Seq(Byte)
  BY <1>1, HeaderTyped, Zenon
<1>4. c \in Seq(Byte)
  BY <1>1, <1>2, TextsShort, StringType, Zenon
<1>5. w \in Seq(Byte)
  BY <1>1, WillTyped, Zenon
<1>6. u \in Seq(Byte) /\ p \in Seq(Byte)
  BY <1>1, <1>2, TextsShort, OptionalTyped, Zenon
<1>7. h \o c \o w \o u \o p \in Seq(Byte)
  BY <1>3, <1>4, <1>5, <1>6, FiveLen
<1>8. QED
  BY <1>1, <1>7, Zenon DEF ConnectBody

-----------------------------------------------------------------------------
LEMMA ConnectStep ==
  ASSUME NEW info \in ConnectInfos, mqtt_msg_connect(info)
  PROVE  ConnectReadsBack'
<1>1. InfoTyped(info)
  <2>1. /\ \A f \in {"client_id", "username", "password", "will_topic", "will_message"} :
             info[f] \in Seq(Byte)
        /\ info.keepalive \in Nat /\ info.keepalive < 65536 /\ info.will_qos \in Nat
        /\ info.will_retain \in {0, 1} /\ info.clean_session \in {0, 1}
    BY ConnectAssumption
  <2>2. QED
    BY <2>1 DEF InfoTyped, IsWord
<1>2. message' = IF Present(info.client_id) /\ Fits(ConnectBody(info))
                 THEN fini_message(CONNECT, 0, 0, ConnectBody(info)) ELSE <<>>
  BY Zenon DEF mqtt_msg_connect, ConnectBody, Header, Magic, Will
<1>3. call' = [name |-> "mqtt_msg_connect", info |-> info]
  BY Zenon DEF mqtt_msg_connect
<1>4. call'.info = info
  BY <1>3
<1>5. CASE message' = <<>>
  BY <1>5, Zenon DEF ConnectReadsBack, Built
<1>6. CASE message' # <<>>
  <2>1. Fits(ConnectBody(info)) /\ message' = fini_message(CONNECT, 0, 0, ConnectBody(info))
    BY <1>2, <1>6, Zenon
  <2>2. ConnectBody(info) \in Seq(Byte)
    BY <1>1, <2>1, BodyTyped, Zenon
  <2>3. CONNECT \in Nat /\ CONNECT < 16 /\ 0 \in Nat /\ 0 < 4 /\ 0 < 2
    BY DEF CONNECT
  <2>4. Finished(message', CONNECT, 0, 0, ConnectBody(info))
    BY <2>1, <2>2, <2>3, MessageBuilt, Zenon
  <2>5. ConnectParsed(message', info)
    BY <1>1, <2>1, <2>4, ConnectRead, Zenon
  <2>6. QED
    BY <1>4, <2>5, Zenon DEF ConnectParsed, ConnectReadsBack, len
<1>7. QED
  BY <1>5, <1>6

LEMMA ConnectReadsBackStep ==
  ASSUME ConnectReadsBack, [BuildNext]_buildVars
  PROVE  ConnectReadsBack'
<1>1. ASSUME NEW info \in ConnectInfos, mqtt_msg_connect(info)
      PROVE  ConnectReadsBack'
  BY <1>1, ConnectStep
<1>2. ASSUME call'.name # "mqtt_msg_connect" PROVE ConnectReadsBack'
  BY <1>2, Zenon DEF ConnectReadsBack, Built
<1>3. ASSUME NEW topic \in Topics, NEW data \in Data, NEW qos \in 0..2, NEW retain \in 0..1,
             MQTT_Publish(topic, data, qos, retain)
      PROVE  ConnectReadsBack'
  <2>1. call'.name = "MQTT_Publish"
    BY <1>3 DEF MQTT_Publish
  <2>2. QED
    BY <1>2, <2>1
<1>4. ASSUME NEW topic \in Topics, NEW qos \in 0..2, MQTT_Subscribe(topic, qos)
      PROVE  ConnectReadsBack'
  <2>1. call'.name = "MQTT_Subscribe"
    BY <1>4 DEF MQTT_Subscribe
  <2>2. QED
    BY <1>2, <2>1
<1>5. ASSUME NEW topic \in Topics, MQTT_UnSubscribe(topic)
      PROVE  ConnectReadsBack'
  <2>1. call'.name = "MQTT_UnSubscribe"
    BY <1>5 DEF MQTT_UnSubscribe
  <2>2. QED
    BY <1>2, <2>1
<1>6. ASSUME NEW type, NEW id, mqtt_msg_ack(type, id)
      PROVE  ConnectReadsBack'
  <2>1. call'.name = "mqtt_msg_ack"
    BY <1>6 DEF mqtt_msg_ack
  <2>2. QED
    BY <1>2, <2>1
<1>7. ASSUME NEW type, mqtt_msg_plain(type)
      PROVE  ConnectReadsBack'
  <2>1. call'.name = "mqtt_msg_plain"
    BY <1>7 DEF mqtt_msg_plain
  <2>2. QED
    BY <1>2, <2>1
<1>8. CASE UNCHANGED buildVars
  BY <1>8, Zenon DEF buildVars, ConnectReadsBack, Built, len
<1>9. QED
  BY <1>1, <1>3, <1>4, <1>5, <1>6, <1>7, <1>8, Zenon DEF BuildNext

(* The flags of a CONNECT announce exactly the strings behind them, in the *)
(* order of the body, whatever strings the connection is configured with.  *)
THEOREM ConnectsReadBack == BuildSpec => []ConnectReadsBack
<1>1. BuildInit => ConnectReadsBack
  BY DEF BuildInit, ConnectReadsBack, Built
<1>2. QED
  BY <1>1, ConnectReadsBackStep, PTL DEF BuildSpec

-----------------------------------------------------------------------------
(* mqtt_tcpclient_recv: what is delivered and acknowledged of a segment.   *)
(* First what stands where in two sequences that follow one another.       *)
Joins(T, r, s, x, n, m) ==
  r \in Seq(T) /\ s \in Seq(T) /\ x = r \o s /\ n = Len(r) /\ m = Len(s)

Joint(T, r, s, x, n, m) ==
  /\ x \in Seq(T) /\ Len(x) = n + m
  /\ \A k \in 1..n : x[k] = r[k]
  /\ \A k \in 1..m : x[n + k] = s[k]

LEMMA Concatenated ==
  ASSUME NEW T, NEW r, NEW s, NEW x, NEW n, NEW m, Joins(T, r, s, x, n, m)
  PROVE  Joint(T, r, s, x, n, m)
<1>1. /\ r \o s \in Seq(T) /\ Len(r \o s) = Len(r) + Len(s)
      /\ \A k \in 1..Len(r) : (r \o s)[k] = r[k]
      /\ \A k \in 1..Len(s) : (r \o s)[Len(r) + k] = s[k]
  BY DEF Joins
<1>2. QED
  BY <1>1, Zenon DEF Joins, Joint

(* The recursive function of FlattenSeq.                                   *)
Flattens(seqs, f) ==
  f = [k \in 1..Len(seqs) |-> IF k = 1 THEN seqs[k] ELSE f[k - 1] \o seqs[k]]

LEMMA FlattenUnfolded ==
  ASSUME NEW seqs, NEW w, Flattens(seqs, w), Len(seqs) # 0
  PROVE  \E f : Flattens(seqs, f) /\ FlattenSeq(seqs) = f[Len(seqs)]
<1> DEFINE flatten[i \in 1..Len(seqs)] ==
             IF i = 1 THEN seqs[i] ELSE flatten[i - 1] \o seqs[i]
<1>1. Flattens(seqs, flatten)
  BY Zenon DEF Flattens
<1>2. FlattenSeq(seqs) = flatten[Len(seqs)]
  BY Zenon DEF FlattenSeq
<1> HIDE DEF flatten
<1>3. QED
  BY <1>1, <1>2

(* The sums of the first of n sequences.                                   *)
Sums(T, seqs, n, F) ==
  /\ F = [k \in 0..n |-> F[k]]
  /\ F[0] = <<>>
  /\ \A k \in 0..n : F[k] \in Seq(T)
  /\ \A k \in 1..n : F[k] = F[k - 1] \o seqs[k]

LEMMA SumsExist ==
  ASSUME NEW T, NEW seqs, NEW n \in Nat, \A k \in 1..n : seqs[k] \in Seq(T)
  PROVE  \E F : Sums(T, seqs, n, F)
<1> DEFINE S == {m \in Nat : m <= n => \E F : Sums(T, seqs, m, F)}
<1>1. 0 \in S
  <2> DEFINE w == [k \in 0..0 |-> <<>>]
  <2>1. w[0] = <<>> /\ <<>> \in Seq(T) /\ w = [k \in 0..0 |-> w[k]]
    BY EmptySeq
  <2>2. \A k \in 0..0 : k = 0
    OBVIOUS
  <2>3. \A k \in 1..0 : FALSE
    OBVIOUS
  <2> HIDE DEF w
  <2>4. Sums(T, seqs, 0, w)
    BY <2>1, <2>2, <2>3, Zenon DEF Sums
  <2>5. QED
    BY <2>4
<1>2. ASSUME NEW m \in Nat, m \in S PROVE m + 1 \in S
  <2>1. SUFFICES ASSUME m + 1 <= n PROVE \E F : Sums(T, seqs, m + 1, F)
    OBVIOUS
  <2>2. PICK F : Sums(T, seqs, m, F)
    BY <1>2, <2>1
  <2>3. PICK x, y : x = F[m] \o seqs[m + 1] /\ y = F[m]
    BY Zenon
  <2>4. m + 1 \in 1..n /\ m \in 0..m
    BY <2>1
  <2>5. x \in Seq(T)
    BY <2>2, <2>3, <2>4, ConcatProperties, Zenon DEF Sums
  <2> DEFINE w == [k \in 0..m+1 |-> IF k = m + 1 THEN x ELSE F[k]]
  <2>6. w = [k \in 0..m+1 |-> w[k]] /\ w[m + 1] = x
    BY <2>4
  <2>7. \A k \in 0..m : k \in 0..m+1 /\ k # m + 1 /\ w[k] = F[k]
    OBVIOUS
  <2> HIDE DEF w
  <2>8. \A k \in 0..m+1 : k = m + 1 \/ k \in 0..m
    OBVIOUS
  <2>9. \A k \in 1..m+1 : k - 1 \in 0..m /\ (k \in 1..m \/ k = m + 1) /\ (k = m + 1 => k - 1 = m)
    OBVIOUS
  <2>10. 0 \in 0..m /\ \A k \in 1..m : k \in 0..m
    OBVIOUS
  <2>11. w[0] = <<>>
    BY <2>2, <2>7, <2>10, Zenon DEF Sums
  <2>12. \A k \in 0..m+1 : w[k] \in Seq(T)
    BY <2>2, <2>5, <2>6, <2>7, <2>8, Zenon DEF Sums
  <2>13. \A k \in 1..m+1 : w[k] = w[k - 1] \o seqs[k]
    <3>1. ASSUME NEW k \in 1..m PROVE w[k] = w[k - 1] \o seqs[k]
      <4>1. k \in 0..m /\ k - 1 \in 0..m
        OBVIOUS
      <4>2. QED
        BY <2>2, <2>7, <4>1, Zenon DEF Sums
    <3>2. w[m + 1] = w[(m + 1) - 1] \o seqs[m + 1]
      <4>1. (m + 1) - 1 = m
        OBVIOUS
      <4>2. QED
        BY <2>3, <2>4, <2>6, <2>7, <4>1, Zenon
    <3>3. QED
      BY <2>9, <3>1, <3>2, Zenon
  <2>14. Sums(T, seqs, m + 1, w)
    BY <2>6, <2>11, <2>12, <2>13, Zenon DEF Sums
  <2>15. QED
    BY <2>14
<1>3. n \in S
  <2> HIDE DEF S
  <2>1. QED
    BY <1>1, <1>2, Induct
<1>4. QED
  BY <1>3

(* FlattenSeq is their last.                                               *)
LEMMA FlattenIsSum ==
  ASSUME NEW T, NEW seqs, NEW n \in Nat, n = Len(seqs), seqs \in Seq(Seq(T)),
         NEW F, Sums(T, seqs, n, F)
  PROVE  FlattenSeq(seqs) = F[n]
<1>1. CASE n = 0
  <2>1. seqs = <<>>
    BY <1>1, EmptySeq, Zenon
  <2>2. FlattenSeq(seqs) = seqs
    BY <1>1, Zenon DEF FlattenSeq
  <2>3. QED
    BY <1>1, <2>1, <2>2, Zenon DEF Sums
<1>2. CASE n # 0
  <2> DEFINE w == [k \in 1..n |-> F[k]]
  <2>1. F[1] = seqs[1]
    <3>1. 1 \in 1..n /\ 1 - 1 = 0
      BY <1>2
    <3>2. F[1] = <<>> \o seqs[1]
      BY <3>1, Zenon DEF Sums
    <3>3. seqs[1] \in Seq(T)
      BY <3>1, ElementOfSeq, Zenon
    <3>4. QED
      BY <3>2, <3>3, ConcatEmptySeq, Zenon
  <2>2. ASSUME NEW k \in 1..n
        PROVE  w[k] = IF k = 1 THEN seqs[k] ELSE w[k - 1] \o seqs[k]
    <3>1. CASE k = 1
      BY <2>1, <3>1
    <3>2. CASE k # 1
      <4>1. k - 1 \in 1..n
        BY <3>2
      <4>2. F[k] = F[k - 1] \o seqs[k]
        BY Zenon DEF Sums
      <4>3. w[k] = F[k] /\ w[k - 1] = F[k - 1]
        BY <4>1, Zenon
      <4>4. QED
        BY <3>2, <4>2, <4>3, Zenon
    <3>3. QED
      BY <3>1, <3>2
  <2>3. w = [k \in 1..n |-> w[k]]
    OBVIOUS
  <2> HIDE DEF w
  <2>4. Flattens(seqs, w)
    BY <2>2, <2>3, Zenon DEF Flattens
  <2>5. PICK f : Flattens(seqs, f) /\ FlattenSeq(seqs) = f[Len(seqs)]
    BY <1>2, <2>4, FlattenUnfolded, Zenon
  <2>6. \A k \in 1..n : f[k] = IF k = 1 THEN seqs[k] ELSE f[k - 1] \o seqs[k]
    BY <2>5, Zenon DEF Flattens
  <2> DEFINE S == {m \in Nat : m + 1 <= n => f[m + 1] = F[m + 1]}
  <2>7. 0 \in S
    BY <1>2, <2>1, <2>6
  <2>8. ASSUME NEW m \in Nat, m \in S PROVE m + 1 \in S
    <3>1. SUFFICES ASSUME (m + 1) + 1 <= n PROVE f[(m + 1) + 1] = F[(m + 1) + 1]
      OBVIOUS
    <3>2. /\ (m + 1) + 1 \in 1..n /\ (m + 1) + 1 # 1 /\ ((m + 1) + 1) - 1 = m + 1
          /\ f[m + 1] = F[m + 1]
      BY <2>8, <3>1
    <3>3. f[(m + 1) + 1] = f[m + 1] \o seqs[(m + 1) + 1]
      BY <2>6, <3>2, Zenon
    <3>4. F[(m + 1) + 1] = F[m + 1] \o seqs[(m + 1) + 1]
      BY <3>2, Zenon DEF Sums
    <3>5. QED
      BY <3>2, <3>3, <3>4, Zenon
  <2>9. Nat \subseteq S
    <3> HIDE DEF S
    <3>1. QED
      BY <2>7, <2>8, Induct
  <2>10. n - 1 \in Nat /\ (n - 1) + 1 = n
    BY <1>2
  <2>11. f[n] = F[n]
    <3>1. n - 1 \in S
      <4> HIDE DEF S
      <4>1. QED
        BY <2>9, <2>10
    <3>2. n <= n
      OBVIOUS
    <3>3. QED
      BY <2>10, <3>1, <3>2, Zenon
  <2>12. QED
    BY <2>5, <2>11, Zenon
<1>3. QED
  BY <1>1, <1>2

(* The first m sequences, one behind the other.                            *)
Upto(seqs, m) == FlattenSeq([k \in 1..m |-> seqs[k]])

LEMMA UptoSums ==
  ASSUME NEW T, NEW seqs, NEW n \in Nat, \A k \in 1..n : seqs[k] \in Seq(T),
         NEW F, Sums(T, seqs, n, F), NEW m \in 0..n
  PROVE  Upto(seqs, m) = F[m]
<1> DEFINE r == [k \in 1..m |-> seqs[k]]
           G == [k \in 0..m |-> F[k]]
<1>1. \A k \in 0..m : k \in 0..n
  OBVIOUS
<1>2. \A k \in 1..m : k \in 1..n /\ k \in 0..m /\ k - 1 \in 0..m
  OBVIOUS
<1>3. m \in 0..m /\ 0 \in 0..m /\ m \in Nat
  OBVIOUS
<1>4. r \in Seq(Seq(T)) /\ Len(r) = m
  <2>1. \A k \in 1..m : r[k] \in Seq(T)
    BY <1>2, Zenon
  <2>2. r \in [1..m -> Seq(T)]
    BY <2>1, Zenon
  <2>3. QED
    BY <1>3, <2>2
<1>5. Sums(T, r, m, G)
  <2>1. G = [k \in 0..m |-> G[k]] /\ G[0] = <<>>
    BY <1>3 DEF Sums
  <2>2. \A k \in 0..m : G[k] \in Seq(T)
    BY <1>1, Zenon DEF Sums
  <2>3. \A k \in 1..m : G[k] = G[k - 1] \o r[k]
    BY <1>2, Zenon DEF Sums
  <2> HIDE DEF G, r
  <2>4. QED
    BY <2>1, <2>2, <2>3, Zenon DEF Sums
<1>6. G[m] = F[m]
  BY <1>3
<1> HIDE DEF r, G
<1>7. FlattenSeq(r) = G[m]
  BY <1>3, <1>4, <1>5, FlattenIsSum
<1>8. QED
  BY <1>6, <1>7, Zenon DEF Upto, r

LEMMA UptoSteps ==
  ASSUME NEW T, NEW seqs, NEW n \in Nat, \A k \in 1..n : seqs[k] \in Seq(T)
  PROVE  /\ Upto(seqs, 0) = <<>>
         /\ \A m \in 0..n : Upto(seqs, m) \in Seq(T)
         /\ \A m \in 0..n-1 : Upto(seqs, m + 1) = Upto(seqs, m) \o seqs[m + 1]
<1>1. PICK F : Sums(T, seqs, n, F)
  BY SumsExist
<1>2. \A m \in 0..n : Upto(seqs, m) = F[m]
  BY <1>1, UptoSums
<1>3. 0 \in 0..n /\ \A m \in 0..n-1 : m \in 0..n /\ m + 1 \in 0..n /\ m + 1 \in 1..n /\ (m + 1) - 1 = m
  OBVIOUS
<1>4. \A m \in 0..n-1 : F[m + 1] = F[m] \o seqs[m + 1]
  <2>1. ASSUME NEW m \in 0..n-1 PROVE F[m + 1] = F[m] \o seqs[m + 1]
    <3>1. F[m + 1] = F[(m + 1) - 1] \o seqs[m + 1]
      BY <1>1, <1>3, Zenon DEF Sums
    <3>2. QED
      BY <1>3, <3>1, Zenon
  <2>2. QED
    BY <2>1
<1>5. QED
  BY <1>1, <1>2, <1>3, <1>4, Zenon DEF Sums

(* What comes later begins with what came before.                          *)
Begins(s, t) == Len(s) <= Len(t) /\ \A k \in 1..Len(s) : t[k] = s[k]

Continues(T, r, s, t, x) ==
  r \in Seq(T) /\ s \in Seq(T) /\ t \in Seq(T) /\ Begins(r, s) /\ x = s \o t

LEMMA BeginsOn ==
  ASSUME NEW T, NEW r, NEW s, NEW t, NEW x, Continues(T, r, s, t, x)
  PROVE  Begins(r, x)
<1>1. r \in Seq(T) /\ s \in Seq(T) /\ t \in Seq(T) /\ Begins(r, s) /\ x = s \o t
  BY Zenon DEF Continues
<1>2. PICK l \in Nat, n \in Nat, m \in Nat : l = Len(r) /\ n = Len(s) /\ m = Len(t)
  <2>1. Len(r) \in Nat /\ Len(s) \in Nat /\ Len(t) \in Nat
    BY <1>1
  <2>2. QED
    BY <2>1, Zenon
<1>3. Joins(T, s, t, x, n, m)
  BY <1>1, <1>2, Zenon DEF Joins
<1>4. Joint(T, s, t, x, n, m)
  BY <1>3, Concatenated
<1>5. l <= n /\ \A k \in 1..l : s[k] = r[k]
  BY <1>1, <1>2, Zenon DEF Begins
<1>6. Len(x) = n + m /\ \A k \in 1..n : x[k] = s[k]
  BY <1>4, Zenon DEF Joint
<1>7. l <= n + m /\ \A k \in 1..l : k \in 1..n
  BY <1>5
<1>8. QED
  BY <1>2, <1>5, <1>6, <1>7, Zenon DEF Begins

LEMMA UptoGrows ==
  ASSUME NEW T, NEW seqs, NEW n \in Nat, \A k \in 1..n : seqs[k] \in Seq(T),
         NEW m \in 0..n, NEW j \in 0..n, m <= j
  PROVE  Begins(Upto(seqs, m), Upto(seqs, j))
<1> DEFINE S == {i \in Nat : m + i <= n => Begins(Upto(seqs, m), Upto(seqs, m + i))}
<1>1. /\ \A i \in 0..n : Upto(seqs, i) \in Seq(T)
      /\ \A i \in 0..n-1 : Upto(seqs, i + 1) = Upto(seqs, i) \o seqs[i + 1]
  BY UptoSteps
<1>2. 0 \in S
  <2>1. m + 0 = m /\ Len(Upto(seqs, m)) <= Len(Upto(seqs, m))
    BY <1>1
  <2>2. Begins(Upto(seqs, m), Upto(seqs, m))
    BY <2>1, Zenon DEF Begins
  <2>3. QED
    BY <2>1, <2>2
<1>3. ASSUME NEW i \in Nat, i \in S PROVE i + 1 \in S
  <2>1. SUFFICES ASSUME m + (i + 1) <= n
                 PROVE  Begins(Upto(seqs, m), Upto(seqs, m + (i + 1)))
    OBVIOUS
  <2>2. PICK h : h = m + i
    BY Zenon
  <2>3. /\ h \in 0..n-1 /\ h \in 0..n /\ h + 1 \in 1..n /\ h + 1 \in 0..n /\ m + (i + 1) = h + 1
        /\ m + i <= n
    BY <2>1, <2>2
  <2>4. Begins(Upto(seqs, m), Upto(seqs, h))
    BY <1>3, <2>2, <2>3
  <2>5. Continues(T, Upto(seqs, m), Upto(seqs, h), seqs[h + 1], Upto(seqs, h + 1))
    BY <1>1, <2>3, <2>4, Zenon DEF Continues
  <2>6. Begins(Upto(seqs, m), Upto(seqs, h + 1))
    BY <2>5, BeginsOn
  <2>7. QED
    BY <2>3, <2>6, Zenon
<1>4. j - m \in Nat /\ m + (j - m) = j /\ j <= n
  OBVIOUS
<1>5. j - m \in S
  <2> HIDE DEF S
  <2>1. QED
    BY <1>2, <1>3, <1>4, Induct
<1>6. QED
  BY <1>4, <1>5

(* The sequences behind the first m of them.                               *)
IsTail(T, seqs, n, tail, m) ==
  /\ n \in Nat /\ m \in 0..n
  /\ \A k \in 1..n : seqs[k] \in Seq(T)
  /\ \A j \in 1..n - m : tail[j] = seqs[m + j]

LEMMA UptoTail ==
  ASSUME NEW T, NEW seqs, NEW n, NEW tail, NEW m, IsTail(T, seqs, n, tail, m)
  PROVE  Upto(seqs, n) = Upto(seqs, m) \o Upto(tail, n - m)
<1>1. /\ n \in Nat /\ m \in 0..n
      /\ \A k \in 1..n : seqs[k] \in Seq(T)
      /\ \A j \in 1..n - m : tail[j] = seqs[m + j]
  BY Zenon DEF IsTail
<1> DEFINE S == {i \in Nat : m + i <= n => Upto(seqs, m + i) = Upto(seqs, m) \o Upto(tail, i)}
<1>2. PICK l \in Nat : l = n - m /\ m + l = n
  BY <1>1
<1>3. /\ \A i \in 0..n : Upto(seqs, i) \in Seq(T)
      /\ \A i \in 0..n-1 : Upto(seqs, i + 1) = Upto(seqs, i) \o seqs[i + 1]
  BY <1>1, UptoSteps
<1>4. \A j \in 1..l : m + j \in 1..n /\ j \in 1..n - m
  BY <1>1, <1>2
<1>5. \A j \in 1..l : tail[j] \in Seq(T) /\ tail[j] = seqs[m + j]
  BY <1>1, <1>4, Zenon
<1>6. /\ Upto(tail, 0) = <<>>
      /\ \A i \in 0..l : Upto(tail, i) \in Seq(T)
      /\ \A i \in 0..l-1 : Upto(tail, i + 1) = Upto(tail, i) \o tail[i + 1]
  <2>1. \A j \in 1..l : tail[j] \in Seq(T)
    BY <1>5, Zenon
  <2>2. QED
    BY <2>1, UptoSteps
<1>7. 0 \in S
  <2>1. m + 0 = m /\ 0 \in Nat /\ m \in 0..n
    BY <1>1
  <2>2. Upto(seqs, m) = Upto(seqs, m) \o Upto(tail, 0)
    BY <1>3, <1>6, <2>1, ConcatEmptySeq, Zenon
  <2>3. QED
    BY <2>1, <2>2, Zenon
<1>8. ASSUME NEW i \in Nat, i \in S PROVE i + 1 \in S
  <2>1. SUFFICES ASSUME m + (i + 1) <= n
                 PROVE  Upto(seqs, m + (i + 1)) = Upto(seqs, m) \o Upto(tail, i + 1)
    OBVIOUS
  <2>2. PICK h : h = m + i
    BY Zenon
  <2>3. /\ h \in 0..n-1 /\ h \in 0..n /\ m + (i + 1) = h + 1 /\ h + 1 \in 1..n
        /\ i \in 0..l-1 /\ i \in 0..l /\ i + 1 \in 1..l
    BY <1>1, <1>2, <2>1, <2>2
  <2>4. m + i <= n
    BY <1>1, <2>1
  <2>5. PICK a, t, s, x :
          /\ a = Upto(seqs, m) /\ t = Upto(tail, i) /\ s = seqs[h + 1] /\ x = Upto(seqs, h)
    BY Zenon
  <2>6. x = a \o t
    BY <1>8, <2>2, <2>4, <2>5, Zenon
  <2>7. tail[i + 1] = s /\ Upto(seqs, h + 1) = x \o s /\ Upto(tail, i + 1) = t \o s
    BY <1>3, <1>5, <1>6, <2>3, <2>5, Zenon
  <2>8. a \in Seq(T) /\ t \in Seq(T) /\ s \in Seq(T)
    BY <1>1, <1>3, <1>6, <2>3, <2>5, Zenon
  <2>9. (a \o t) \o s = a \o (t \o s)
    BY <2>8, ConcatAssociative
  <2>10. QED
    BY <2>3, <2>5, <2>6, <2>7, <2>9, Zenon
<1>9. l \in S
  <2> HIDE DEF S
  <2>1. QED
    BY <1>7, <1>8, Induct
<1>10. m + l <= n
  BY <1>1, <1>2
<1>11. QED
  BY <1>2, <1>9, <1>10, Zenon

-----------------------------------------------------------------------------
LEMMA PacketIdIs == \A v \in PacketId : v \in Nat /\ IsWord(v)
BY DEF PacketId, IsWord

(* A message on the wire.                                                  *)
LEMMA MessageIs ==
  ASSUME NEW msg \in Messages
  PROVE  /\ msg.type \in 2..13 /\ msg.qos \in 0..2 /\ msg.id \in Nat /\ IsWord(msg.id)
         /\ msg.topic \in Seq(Byte) /\ msg.data \in Seq(Byte)
         /\ msg.type = PUBLISH => msg.topic # <<>>
         /\ Short(msg.topic) /\ HasLength(Len(Body(msg)))
<1>1. /\ msg \in Message
      /\ msg.type = PUBLISH => msg.topic # <<>>
      /\ Short(msg.topic) /\ HasLength(Len(Body(msg)))
  BY BrokerAssumption, SMT DEF Short, IsWord
<1>2. PICK t, q, i, s, d :
        t = msg.type /\ q = msg.qos /\ i = msg.id /\ s = msg.topic /\ d = msg.data
  BY Zenon
<1>3. /\ t \in {CONNACK, PUBLISH, PUBACK, PUBREC, PUBREL, PUBCOMP, SUBACK, UNSUBACK,
                PINGREQ, PINGRESP}
      /\ q \in 0..2 /\ s \in Seq(Byte) /\ d \in Seq(Byte) /\ i \in PacketId
  BY <1>1, <1>2 DEF Message
<1>4. t \in 2..13
  BY <1>3 DEF CONNACK, PUBLISH, PUBACK, PUBREC, PUBREL, PUBCOMP, SUBACK, UNSUBACK, PINGREQ,
     PINGRESP
<1>5. i \in Nat /\ IsWord(i)
  <2>1. i \in PacketId
    BY <1>3, Zenon
  <2>2. QED
    BY <2>1, PacketIdIs, Zenon
<1>6. q \in 0..2 /\ s \in Seq(Byte) /\ d \in Seq(Byte)
  BY <1>3
<1>7. QED
  BY <1>1, <1>2, <1>4, <1>5, <1>6, Zenon

IdBytes(msg) == IF msg.qos > 0 THEN U16(msg.id) ELSE <<>>

LEMMA IdBytesIs ==
  ASSUME NEW msg \in Messages
  PROVE  /\ U16(msg.id) \in Seq(Byte) /\ Len(U16(msg.id)) = 2
         /\ IdBytes(msg) \in Seq(Byte)
         /\ Len(IdBytes(msg)) = IF msg.qos > 0 THEN 2 ELSE 0
<1>1. U16(msg.id) \in Seq(Byte) /\ Len(U16(msg.id)) = 2
  BY MessageIs, U16Bytes
<1>2. <<>> \in Seq(Byte) /\ Len(<<>>) = 0
  OBVIOUS
<1>3. CASE msg.qos > 0
  <2>1. IdBytes(msg) = U16(msg.id)
    BY <1>3, Zenon DEF IdBytes
  <2>2. QED
    BY <1>1, <1>3, <2>1, Zenon
<1>4. CASE ~ (msg.qos > 0)
  <2>1. IdBytes(msg) = <<>>
    BY <1>4, Zenon DEF IdBytes
  <2>2. (IF msg.qos > 0 THEN 2 ELSE 0) = 0
    BY <1>4
  <2>3. QED
    BY <1>1, <1>2, <2>1, <2>2, Zenon
<1>5. QED
  BY <1>3, <1>4, Zenon

LEMMA ByteNat == \A s : s \in Seq(Byte) => s \in Seq(Nat)
<1>1. Byte \subseteq Nat
  BY DEF Byte
<1>2. QED
  BY <1>1, SeqMonotonic

LEMMA PublishBody ==
  ASSUME NEW msg \in Messages, msg.type = PUBLISH
  PROVE  /\ Body(msg) = String(msg.topic) \o IdBytes(msg) \o msg.data
         /\ Short(msg.topic) /\ Len(msg.topic) \in Nat \ {0} /\ Len(msg.data) \in Nat
         /\ String(msg.topic) \in Seq(Byte) /\ Body(msg) \in Seq(Byte)
         /\ Len(Body(msg)) = 2 + Len(msg.topic) + Len(IdBytes(msg)) + Len(msg.data)
<1>1. PICK r, i, d : r = String(msg.topic) /\ i = IdBytes(msg) /\ d = msg.data
  BY Zenon
<1>2. Body(msg) = r \o i \o d
  <2>1. PICK p : p = U16(Len(msg.topic)) \o msg.topic
                     \o (IF msg.qos > 0 THEN U16(msg.id) ELSE <<>>) \o msg.data
    BY Zenon
  <2>2. p = r \o i \o d
    BY <1>1, <2>1, Zenon DEF String, IdBytes
  <2>3. Body(msg) = p
    <3>1. /\ msg.type = PUBLISH /\ msg.type # CONNACK /\ msg.type # SUBACK
          /\ msg.type \notin {PINGREQ, PINGRESP}
      BY DEF PUBLISH, CONNACK, PINGREQ, PINGRESP, SUBACK
    <3>2. QED
      BY <2>1, <3>1, Zenon DEF Body
  <2>4. QED
    BY <2>2, <2>3, Zenon
<1>3. msg.topic \in Seq(Byte) /\ d \in Seq(Byte) /\ i \in Seq(Byte) /\ Short(msg.topic)
  BY <1>1, MessageIs, IdBytesIs, Zenon
<1>4. r \in Seq(Nat) /\ Len(r) = 2 + Len(msg.topic) /\ i \in Seq(Nat) /\ d \in Seq(Nat)
  BY <1>1, <1>3, StringLen, ByteNat
<1>5. Len(msg.topic) \in Nat \ {0} /\ Len(i) \in Nat /\ Len(d) \in Nat
  <2>1. msg.topic # <<>>
    BY MessageIs, Zenon
  <2>2. QED
    BY <1>3, <2>1
<1>6. PICK x : x = r \o i
  BY Zenon
<1>7. x \in Seq(Nat) /\ Len(x) = Len(r) + Len(i)
  BY <1>4, <1>6, Joined, Zenon
<1>8. Len(Body(msg)) = Len(x) + Len(d)
  <2>1. x \o d \in Seq(Nat) /\ Len(x \o d) = Len(x) + Len(d)
    BY <1>4, <1>7, Joined
  <2>2. QED
    BY <1>2, <1>6, <2>1, Zenon
<1>9. PICK lt \in Nat, li \in Nat, ld \in Nat, lb \in Nat :
        lt = Len(msg.topic) /\ li = Len(i) /\ ld = Len(d) /\ lb = Len(Body(msg))
  <2>1. Len(x) + Len(d) \in Nat
    BY <1>4, <1>7
  <2>2. QED
    BY <1>5, <1>8, <2>1, Zenon
<1>10. lb = ((2 + lt) + li) + ld
  BY <1>4, <1>7, <1>8, <1>9, Zenon
<1>11. r \in Seq(Byte)
  BY <1>1, <1>3, StringType
<1>12. Body(msg) \in Seq(Byte)
  <2>1. x \in Seq(Byte)
    BY <1>3, <1>6, <1>11, Joined, Zenon
  <2>2. x \o d \in Seq(Byte)
    BY <1>3, <2>1, Joined, Zenon
  <2>3. QED
    BY <1>2, <1>6, <2>2, Zenon
<1>13. Len(Body(msg)) = 2 + Len(msg.topic) + Len(IdBytes(msg)) + Len(msg.data)
  BY <1>1, <1>9, <1>10, Zenon
<1>14. QED
  BY <1>1, <1>2, <1>3, <1>5, <1>11, <1>12, <1>13, Zenon

(* The bytes of the remaining length.                                      *)
Written(x) ==
  /\ x \in Seq(Byte) /\ Len(x) \in 1..4
  /\ \A i \in 1..Len(x) - 1 : x[i] >= 128
  /\ x[Len(x)] < 128

Marked(n, a) ==
  a = Continued(n) /\ a \in Byte /\ a >= 128 /\ \A r : Seven(a, r) = Seven(n, r)

LEMMA ContinuedIs ==
  ASSUME NEW n \in Nat
  PROVE  \E a \in Nat : Marked(n, a)
<1>1. PICK k \in 0..127 : k = n % 128
  OBVIOUS
<1>2. PICK a \in Nat : a = 128 + k /\ a % 128 = k /\ a >= 128 /\ a >= 0 /\ a <= 255
  OBVIOUS
<1>3. a \in Byte
  BY <1>2, ByteIs
<1>4. \A r : Seven(a, r) = Seven(n, r)
  BY <1>1, <1>2, Zenon DEF Seven
<1>5. QED
  BY <1>1, <1>2, <1>3, <1>4, Zenon DEF Continued, Marked

(* The groups of seven bits of a number.                                   *)
Grouped(n, m) ==
  /\ m = Above(n) /\ n = Seven(n, m)
  /\ m = 0 => Above(m) = 0 /\ n < 128

LEMMA Groups ==
  ASSUME NEW n \in Nat
  PROVE  \E m \in Nat : Grouped(n, m)
<1>1. n \div 128 \in Nat /\ n = (n % 128) + 128 * (n \div 128) /\ 0 \div 128 = 0
  OBVIOUS
<1>2. n \div 128 = 0 => n < 128 /\ n % 128 = n
  OBVIOUS
<1>3. QED
  BY <1>1, <1>2 DEF Above, Grouped, Seven

LEMMA LengthWritten ==
  ASSUME NEW n \in Nat, HasLength(n)
  PROVE  Written(RemainingBytes(n))
<1>1. PICK m \in Nat : Grouped(n, m)
  BY Groups, Zenon
<1>2. PICK j \in Nat, k \in Nat : Grouped(m, j) /\ Grouped(j, k)
  BY Groups, Zenon
<1>3. PICK a \in Nat, c \in Nat, d \in Nat : Marked(n, a) /\ Marked(m, c) /\ Marked(j, d)
  BY ContinuedIs, Zenon
<1>4. /\ k < 128 /\ (m = 0 => j = 0) /\ (j = 0 => k = 0)
      /\ (m = 0 => n < 128) /\ (j = 0 => m < 128) /\ (k = 0 => j < 128)
  BY <1>1, <1>2, Zenon DEF HasLength, Grouped
<1>5. a \in Byte /\ a >= 128 /\ c \in Byte /\ c >= 128 /\ d \in Byte /\ d >= 128
  BY <1>3, Zenon DEF Marked
<1>6. RemainingBytes(n) = CASE m = 0 -> <<n>>
                            [] m > 0 /\ j = 0 -> <<a, m>>
                            [] j > 0 /\ k = 0 -> <<a, c, j>>
                            [] k > 0 -> <<a, c, d, k>>
  <2>1. /\ m = Above(n) /\ j = Above(m) /\ k = Above(j)
        /\ a = Continued(n) /\ c = Continued(m) /\ d = Continued(j)
    BY <1>1, <1>2, <1>3, Zenon DEF Grouped, Marked
  <2>2. QED
    BY <2>1, Zenon DEF RemainingBytes
<1>7. CASE m = 0
  <2>1. RemainingBytes(n) = <<n>>
    BY <1>4, <1>6, <1>7
  <2>2. n \in Byte /\ n < 128
    BY <1>4, <1>7, ByteIs
  <2>3. <<n>> \in Seq(Byte) /\ Len(<<n>>) = 1 /\ <<n>>[1] = n
    BY <2>2
  <2>4. QED
    BY <2>1, <2>2, <2>3 DEF Written
<1>8. CASE m > 0 /\ j = 0
  <2>1. PICK x : x = <<a, m>> /\ RemainingBytes(n) = x
    BY <1>4, <1>6, <1>8
  <2>2. m < 128 /\ m \in Byte
    BY <1>4, <1>8, ByteIs
  <2>3. x \in Seq(Byte) /\ Len(x) = 2 /\ x[1] = a /\ x[2] = m
    BY <1>5, <2>1, <2>2
  <2>4. QED
    BY <1>5, <2>1, <2>2, <2>3 DEF Written
<1>9. CASE j > 0 /\ k = 0
  <2>1. PICK x : x = <<a, c, j>> /\ RemainingBytes(n) = x
    BY <1>4, <1>6, <1>9
  <2>2. j < 128 /\ j \in Byte
    BY <1>4, <1>9, ByteIs
  <2>3. x \in Seq(Byte) /\ Len(x) = 3 /\ x[1] = a /\ x[2] = c /\ x[3] = j
    BY <1>5, <2>1, <2>2
  <2>4. QED
    BY <1>5, <2>1, <2>2, <2>3 DEF Written
<1>10. CASE k > 0
  <2>1. PICK x : x = <<a, c, d, k>> /\ RemainingBytes(n) = x
    BY <1>4, <1>6, <1>10
  <2>2. k < 128 /\ k \in Byte
    BY <1>4, ByteIs
  <2>3. x \in Seq(Byte) /\ Len(x) = 4 /\ x[1] = a /\ x[2] = c /\ x[3] = d /\ x[4] = k
    BY <1>5, <2>1, <2>2
  <2>4. QED
    BY <1>5, <2>1, <2>2, <2>3 DEF Written
<1>11. QED
  BY <1>4, <1>7, <1>8, <1>9, <1>10

(* Where the bytes of the length n stand behind the first of b.            *)
LengthAt(b, n) == \A i \in 1..Len(RemainingBytes(n)) : b[1 + i] = RemainingBytes(n)[i]

LEMMA LengthRead ==
  ASSUME NEW n \in Nat, HasLength(n), NEW b, LengthAt(b, n)
  PROVE  Sevens(b, Len(RemainingBytes(n))) = n
<1>1. PICK x : x = RemainingBytes(n)
  BY Zenon
<1>2. \A i \in 1..Len(x) : b[1 + i] = x[i]
  BY <1>1, Zenon DEF LengthAt
<1>3. PICK m \in Nat : Grouped(n, m)
  BY Groups, Zenon
<1>4. PICK j \in Nat, k \in Nat : Grouped(m, j) /\ Grouped(j, k)
  BY Groups, Zenon
<1>5. PICK a \in Nat, c \in Nat, d \in Nat : Marked(n, a) /\ Marked(m, c) /\ Marked(j, d)
  BY ContinuedIs, Zenon
<1>6. /\ n = Seven(n, m) /\ m = Seven(m, j) /\ j = Seven(j, k)
      /\ (m = 0 => j = 0) /\ (j = 0 => k = 0) /\ k < 128
  BY <1>3, <1>4, Zenon DEF Grouped, HasLength
<1>7. Seven(k, 0) = k
  BY <1>6 DEF Seven
<1>8. \A r : Seven(a, r) = Seven(n, r) /\ Seven(c, r) = Seven(m, r) /\ Seven(d, r) = Seven(j, r)
  BY <1>5, Zenon DEF Marked
<1>9. x = CASE m = 0 -> <<n>>
            [] m > 0 /\ j = 0 -> <<a, m>>
            [] j > 0 /\ k = 0 -> <<a, c, j>>
            [] k > 0 -> <<a, c, d, k>>
  <2>1. /\ m = Above(n) /\ j = Above(m) /\ k = Above(j)
        /\ a = Continued(n) /\ c = Continued(m) /\ d = Continued(j)
    BY <1>3, <1>4, <1>5, Zenon DEF Grouped, Marked
  <2>2. QED
    BY <1>1, <2>1, Zenon DEF RemainingBytes
<1>10. CASE m = 0
  <2>1. x = <<n>>
    BY <1>6, <1>9, <1>10
  <2>2. Len(x) = 1 /\ b[2] = n
    BY <1>2, <2>1
  <2>3. Sevens(b, 1) = Seven(b[2], 0)
    BY <2>2, OneSeven, Zenon
  <2>4. QED
    BY <1>1, <1>6, <1>10, <2>2, <2>3, Zenon
<1>11. CASE m > 0 /\ j = 0
  <2>1. x = <<a, m>>
    BY <1>6, <1>9, <1>11
  <2>2. Len(x) = 2 /\ b[2] = a /\ b[3] = m
    BY <1>2, <2>1
  <2>3. Sevens(b, 2) = Seven(b[2], Seven(b[3], 0))
    BY <2>2, TwoSevens, Zenon
  <2>4. QED
    BY <1>1, <1>6, <1>8, <1>11, <2>2, <2>3, Zenon
<1>12. CASE j > 0 /\ k = 0
  <2>1. x = <<a, c, j>>
    BY <1>6, <1>9, <1>12
  <2>2. Len(x) = 3 /\ b[2] = a /\ b[3] = c /\ b[4] = j
    BY <1>2, <2>1
  <2>3. Sevens(b, 3) = Seven(b[2], Seven(b[3], Seven(b[4], 0)))
    BY <2>2, ThreeSevens, Zenon
  <2>4. QED
    <3>1. Sevens(b, 3) = Seven(a, Seven(c, Seven(j, k)))
      BY <1>12, <2>2, <2>3, Zenon
    <3>2. Seven(a, Seven(c, Seven(j, k))) = Seven(n, Seven(m, j))
      BY <1>6, <1>8, Zenon
    <3>3. QED
      BY <1>1, <1>6, <2>2, <3>1, <3>2, Zenon
<1>13. CASE k > 0
  <2>1. x = <<a, c, d, k>>
    BY <1>6, <1>9, <1>13
  <2>2. Len(x) = 4 /\ b[2] = a /\ b[3] = c /\ b[4] = d /\ b[5] = k
    BY <1>2, <2>1
  <2>3. Sevens(b, 4) = Seven(b[2], Seven(b[3], Seven(b[4], Seven(b[5], 0))))
    BY <2>2, FourSevens, Zenon
  <2>4. QED
    <3>1. Sevens(b, 4) = Seven(a, Seven(c, Seven(d, k)))
      BY <1>7, <2>2, <2>3, Zenon
    <3>2. Seven(d, k) = j
      BY <1>6, <1>8, Zenon
    <3>3. Seven(c, j) = m
      BY <1>6, <1>8, Zenon
    <3>4. Seven(a, m) = n
      BY <1>6, <1>8, Zenon
    <3>5. QED
      BY <1>1, <2>2, <3>1, <3>2, <3>3, <3>4, Zenon
<1>14. QED
  BY <1>6, <1>10, <1>11, <1>12, <1>13

(* The bytes before the body.                                              *)
HeadLen(msg) == 1 + Len(RemainingBytes(Len(Body(msg))))

LEMMA WireIs ==
  ASSUME NEW msg \in Messages
  PROVE  /\ Body(msg) \in Seq(Byte) /\ Len(Body(msg)) \in Nat /\ HasLength(Len(Body(msg)))
         /\ HeadLen(msg) \in 2..5
         /\ Wire(msg) \in Seq(Byte) /\ Len(Wire(msg)) = HeadLen(msg) + Len(Body(msg))
         /\ Holds(Wire(msg), HeadLen(msg), Body(msg))
         /\ LengthAt(Wire(msg), Len(Body(msg)))
         /\ mqtt_get_type(Wire(msg)) = msg.type
         /\ mqtt_get_qos(Wire(msg)) = msg.qos
<1>1. Body(msg) \in Seq(Byte)
  <2>1. CASE msg.type = PUBLISH
    BY <2>1, PublishBody
  <2>2. CASE msg.type # PUBLISH
    <3>1. PICK u, z : u = U16(msg.id) /\ z = u \o <<0>>
      BY Zenon
    <3>2. u \in Seq(Byte) /\ <<0>> \in Seq(Byte) /\ <<0, 0>> \in Seq(Byte) /\ <<>> \in Seq(Byte)
      BY <3>1, IdBytesIs DEF Byte
    <3>3. z \in Seq(Byte)
      BY <3>1, <3>2, ConcatProperties, Zenon
    <3>4. Body(msg) \in {<<0, 0>>, <<>>, z, u}
      BY <2>2, <3>1 DEF Body
    <3>5. QED
      BY <3>2, <3>3, <3>4, Zenon
  <2>3. QED
    BY <2>1, <2>2
<1>2. PICK h, n, s : h = msg.type * 16 + msg.qos * 2 /\ n = Len(Body(msg)) /\ s = Body(msg)
  BY Zenon
<1>3. n \in Nat /\ HasLength(n) /\ s \in Seq(Byte) /\ Len(s) = n
  BY <1>1, <1>2, MessageIs
<1>4. h \in 0..255 /\ h \div 16 = msg.type /\ (h % 8) \div 2 = msg.qos
  <2>1. PICK t \in 2..13, q \in 0..2 : t = msg.type /\ q = msg.qos
    BY MessageIs, Zenon
  <2>2. h = t * 16 + q * 2
    BY <1>2, <2>1, Zenon
  <2>3. h \in 0..255 /\ h \div 16 = t /\ (h % 8) \div 2 = q
    BY <2>2
  <2>4. QED
    BY <2>1, <2>3
<1>5. PICK x, e : x = RemainingBytes(n) /\ e = HeadLen(msg)
  BY Zenon
<1>6. x \in Seq(Byte) /\ Len(x) \in 1..4 /\ e = 1 + Len(x)
  BY <1>2, <1>3, <1>5, LengthWritten, Zenon DEF Written, HeadLen
<1>7. PICK o, f, w : o = <<h>> /\ f = o \o x /\ w = f \o s
  BY Zenon
<1>8. o \in Seq(Byte) /\ Len(o) = 1 /\ o[1] = h
  BY <1>4, <1>7 DEF Byte
<1>9. Joint(Byte, o, x, f, 1, Len(x))
  BY <1>6, <1>7, <1>8, Concatenated, Zenon DEF Joins
<1>10. f \in Seq(Byte) /\ Len(f) = e /\ f[1] = h /\ \A i \in 1..Len(x) : f[1 + i] = x[i]
  <2>1. 1 \in 1..1
    OBVIOUS
  <2>2. QED
    BY <1>6, <1>8, <1>9, <2>1, Zenon DEF Joint
<1>11. Joint(Byte, f, s, w, e, n)
  BY <1>3, <1>7, <1>10, Concatenated, Zenon DEF Joins
<1>12. Wire(msg) = w
  BY <1>2, <1>5, <1>7, Zenon DEF Wire
<1>13. /\ w \in Seq(Byte) /\ Len(w) = e + n /\ w[1] = h
       /\ \A i \in 1..Len(x) : w[1 + i] = x[i]
       /\ \A i \in 1..n : w[e + i] = s[i]
  <2>1. 1 \in 1..e /\ \A i \in 1..Len(x) : 1 + i \in 1..e
    BY <1>6
  <2>2. QED
    BY <1>10, <1>11, <2>1, Zenon DEF Joint
<1>14. e + n <= e + n /\ e \in 2..5
  <2>1. PICK lx \in 1..4 : lx = Len(x)
    BY <1>6, Zenon
  <2>2. e = 1 + lx
    BY <1>6, <2>1, Zenon
  <2>3. QED
    BY <1>3, <2>2
<1>15. Holds(w, e, s) /\ LengthAt(w, n)
  BY <1>3, <1>5, <1>13, <1>14, Zenon DEF Holds, LengthAt
<1>16. mqtt_get_type(w) = msg.type /\ mqtt_get_qos(w) = msg.qos
  BY <1>4, <1>13, Zenon DEF mqtt_get_type, mqtt_get_qos
<1>17. QED
  BY <1>1, <1>2, <1>3, <1>5, <1>12, <1>13, <1>14, <1>15, <1>16, Zenon
-----------------------------------------------------------------------------
LEMMA WireLen ==
  ASSUME NEW msg \in Messages
  PROVE  Len(Wire(msg)) \in Nat /\ Len(Wire(msg)) >= 1
<1>1. PICK h \in 2..5, n \in Nat : Len(Wire(msg)) = h + n
  BY WireIs, Zenon
<1>2. QED
  BY <1>1

(* A PUBLISH byte by byte: h bytes of header, lt of topic, li of identifier, *)
(* ld of payload.                                                          *)
PublishOn(msg, w, h, lt, li, ld) ==
  /\ h = HeadLen(msg)
  /\ lt = Len(msg.topic) /\ ld = Len(msg.data) /\ li = IF msg.qos > 0 THEN 2 ELSE 0
  /\ Len(w) = h + 2 + lt + li + ld
  /\ At16(w, h) = lt
  /\ \A k \in 1..lt : w[h + 2 + k] = msg.topic[k]
  /\ msg.qos > 0 => At16(w, h + 2 + lt) = msg.id
  /\ \A k \in 1..ld : w[h + 2 + lt + li + k] = msg.data[k]

LEMMA PublishWire ==
  ASSUME NEW msg \in Messages, msg.type = PUBLISH
  PROVE  \E h \in 2..5, lt \in Nat \ {0}, li \in Nat, ld \in Nat :
           PublishOn(msg, Wire(msg), h, lt, li, ld)
<1>1. PICK w, topic, id, data, s :
        /\ w = Wire(msg) /\ topic = msg.topic /\ data = msg.data /\ id = IdBytes(msg)
        /\ s = String(topic)
  BY Zenon
<1>2. /\ Body(msg) = String(topic) \o id \o data
      /\ Short(topic) /\ Len(topic) \in Nat \ {0} /\ Len(data) \in Nat
      /\ s \in Seq(Byte)
      /\ Len(Body(msg)) = 2 + Len(topic) + Len(id) + Len(data)
  BY <1>1, PublishBody, Zenon
<1>3. /\ topic \in Seq(Byte) /\ data \in Seq(Byte) /\ msg.id \in Nat
  BY <1>1, MessageIs, Zenon
<1>4. /\ id \in Seq(Byte) /\ Len(id) = IF msg.qos > 0 THEN 2 ELSE 0
  BY <1>1, IdBytesIs, Zenon
<1>5. PICK h \in 2..5 : /\ h = HeadLen(msg)
                       /\ w \in Seq(Byte) /\ Len(w) = h + Len(Body(msg)) /\ Holds(w, h, Body(msg))
  BY <1>1, WireIs, Zenon
<1>6. h \in Nat /\ Holds(w, h, String(topic) \o id \o data)
  <2>1. h \in Nat
    OBVIOUS
  <2>2. QED
    BY <1>2, <1>5, <2>1, Zenon
<1>7. InPieces(w, h, topic, id, data)
  BY <1>2, <1>3, <1>4, <1>5, <1>6, PublishPieces, Zenon
<1>8. PICK lt \in Nat \ {0}, li \in Nat, ld \in Nat :
        lt = Len(topic) /\ li = Len(id) /\ ld = Len(data)
  <2>1. Len(id) \in Nat
    BY <1>4
  <2>2. QED
    BY <1>2, <2>1, Zenon
<1>9. Holds(w, h, s) /\ Holds(w, h + 2 + lt, id) /\ Holds(w, h + 2 + lt + li, data)
  BY <1>1, <1>7, <1>8, Zenon DEF InPieces
<1>10. Holds(w, h, String(topic)) /\ topic \in Seq(Byte) /\ Short(topic)
  BY <1>1, <1>2, <1>3, <1>9, Zenon
<1>11. At16(w, h) = lt
  <2>1. At16(w, h) = Len(topic)
    BY <1>5, <1>6, <1>10, HoldsString, Zenon
  <2>2. QED
    BY <1>8, <2>1, Zenon
<1>12. \A k \in 1..lt : w[h + 2 + k] = topic[k]
  <2>1. Holds(w, h, U16(Len(topic)) \o topic)
    BY <1>1, <1>9, Zenon DEF String
  <2>2. U16(Len(topic)) \in Seq(Byte) /\ Len(U16(Len(topic))) = 2
    BY <1>2, <1>3, U16Bytes, Zenon DEF Short
  <2>3. PICK u : u = U16(Len(topic))
    BY Zenon
  <2>4. Holds(w, h + Len(u), topic)
    BY <1>3, <1>5, <1>6, <2>1, <2>2, <2>3, HoldsJoined, Zenon
  <2>5. QED
    BY <1>8, <2>2, <2>3, <2>4, Zenon DEF Holds
<1>13. msg.qos > 0 => At16(w, h + 2 + lt) = msg.id
  <2>1. SUFFICES ASSUME msg.qos > 0 PROVE At16(w, h + 2 + lt) = msg.id
    BY Zenon
  <2>2. id = U16(msg.id)
    BY <1>1, <2>1, Zenon DEF IdBytes
  <2>3. Holds(w, h + 2 + lt, U16(msg.id)) /\ h + 2 + lt \in Nat
    BY <1>9, <2>2
  <2>4. QED
    BY <1>3, <1>5, <2>3, HoldsU16, Zenon
<1>14. \A k \in 1..ld : w[h + 2 + lt + li + k] = data[k]
  BY <1>8, <1>9, Zenon DEF Holds
<1>15. Len(w) = h + 2 + lt + li + ld
  <2>1. Len(w) = h + (2 + lt + li + ld)
    BY <1>2, <1>5, <1>8, Zenon
  <2>2. QED
    BY <2>1
<1>16. PublishOn(msg, w, h, lt, li, ld)
  BY <1>1, <1>4, <1>5, <1>8, <1>11, <1>12, <1>13, <1>14, <1>15, Zenon DEF PublishOn
<1>17. QED
  BY <1>1, <1>16, Zenon

-----------------------------------------------------------------------------
(* What the readers make of a buffer.                                      *)
LEMMA HeaderBytes ==
  ASSUME NEW b, NEW h \in Nat, h >= 2, NEW n \in Nat, n >= h, b[h] < 128,
         \A i \in 2..h-1 : ~ (b[i] < 128)
  PROVE  HeaderEnd(b, n) = h
<1> DEFINE ends == {i \in 1..n-1 : b[i + 1] < 128}
<1>1. h - 1 \in 1..n-1 /\ (h - 1) + 1 = h
  OBVIOUS
<1>2. h - 1 \in ends /\ ends \subseteq Int
  BY <1>1
<1>3. ASSUME NEW i \in ends PROVE h - 1 <= i
  <2>1. i \in 1..n-1 /\ b[i + 1] < 128
    OBVIOUS
  <2>2. i + 1 \in 2..h-1 \/ h - 1 <= i
    BY <2>1
  <2>3. QED
    BY <2>1, <2>2
<1>4. HeaderEnd(b, n) = IF ends = {} THEN Max({1, n}) ELSE Min(ends) + 1
  BY Zenon DEF HeaderEnd
<1> HIDE DEF ends
<1>5. Min(ends) = h - 1 /\ ends # {}
  BY <1>1, <1>2, <1>3, MinOf
<1>6. QED
  BY <1>1, <1>4, <1>5, Zenon

LEMMA HeaderOpen ==
  ASSUME NEW b, NEW n \in Nat, n >= 1, \A i \in 2..n : ~ (b[i] < 128)
  PROVE  HeaderEnd(b, n) = n
<1>1. \A i \in 1..n-1 : i + 1 \in 2..n
  OBVIOUS
<1>2. {i \in 1..n-1 : b[i + 1] < 128} = {}
  BY <1>1, Zenon
<1> DEFINE S == {1, n}
<1>3. S \subseteq Int /\ n \in S /\ \A x \in S : n >= x
  OBVIOUS
<1> HIDE DEF S
<1>4. Max(S) = n
  BY <1>3, MaxOf
<1>5. Max({1, n}) = n
  BY <1>4 DEF S
<1>6. QED
  BY <1>2, <1>5, Zenon DEF HeaderEnd

Taken(T, s, m, n, p) ==
  /\ p \in Seq(T) /\ Len(p) = (IF m <= n THEN n - m + 1 ELSE 0)
  /\ \A k \in 1..n - m + 1 : p[k] = s[m + k - 1]

LEMMA SubSeqIs ==
  ASSUME NEW T, NEW s, NEW m \in Int, NEW n \in Int, \A k \in m..n : s[k] \in T
  PROVE  Taken(T, s, m, n, SubSeq(s, m, n))
<1>1. /\ SubSeq(s, m, n) \in Seq(T)
      /\ Len(SubSeq(s, m, n)) = IF m <= n THEN n - m + 1 ELSE 0
      /\ \A i \in 1..n - m + 1 : SubSeq(s, m, n)[i] = s[m + i - 1]
  BY SubSeqProperties
<1>2. QED
  BY <1>1, Zenon DEF Taken

LEMMA PieceIs ==
  ASSUME NEW T, NEW b, NEW i \in Nat, NEW s \in Seq(T), NEW n \in Nat, n <= Len(s),
         \A k \in 1..n : b[i + k] = s[k]
  PROVE  /\ SubSeq(b, i + 1, i + n) \in Seq(T)
         /\ IsPrefix(SubSeq(b, i + 1, i + n), s)
         /\ n = Len(s) => SubSeq(b, i + 1, i + n) = s
<1>1. PICK m \in Int, l \in Int : m = i + 1 /\ l = i + n
  OBVIOUS
<1>2. PICK p : p = SubSeq(b, m, l)
  BY Zenon
<1>3. \A k \in m..l : b[k] \in T
  <2>1. ASSUME NEW k \in m..l PROVE b[k] \in T
    <3>1. k - i \in 1..n /\ i + (k - i) = k /\ k - i \in 1..Len(s)
      BY <1>1
    <3>2. b[k] = s[k - i]
      BY <3>1, Zenon
    <3>3. QED
      BY <3>1, <3>2, ElementOfSeq
  <2>2. QED
    BY <2>1
<1>4. /\ p \in Seq(T) /\ Len(p) = (IF m <= l THEN l - m + 1 ELSE 0)
      /\ \A k \in 1..l - m + 1 : p[k] = b[m + k - 1]
  <2>1. Taken(T, b, m, l, SubSeq(b, m, l))
    BY <1>3, SubSeqIs
  <2>2. QED
    BY <1>2, <2>1, Zenon DEF Taken
<1>5. /\ (IF m <= l THEN l - m + 1 ELSE 0) = n /\ l - m + 1 = n
      /\ \A k \in 1..n : m + k - 1 = i + k
  BY <1>1
<1>6. Len(p) = n /\ \A k \in 1..n : p[k] = s[k]
  BY <1>4, <1>5, Zenon
<1>7. IsPrefix(p, s)
  <2>1. \A k \in 1..n : p[k] = s[k] /\ p[k] \in T /\ s[k] \in T
    BY <1>4, <1>6, ElementOfSeq
  <2>2. PICK x, y : x = SubSeq(p, 1, n) /\ y = SubSeq(s, 1, n)
    BY Zenon
  <2>3. Taken(T, p, 1, n, x) /\ Taken(T, s, 1, n, y)
    BY <2>1, <2>2, SubSeqIs
  <2>4. /\ x \in Seq(T) /\ Len(x) = (IF 1 <= n THEN n - 1 + 1 ELSE 0)
        /\ y \in Seq(T) /\ Len(y) = (IF 1 <= n THEN n - 1 + 1 ELSE 0)
        /\ \A k \in 1..n - 1 + 1 : x[k] = p[1 + k - 1] /\ y[k] = s[1 + k - 1]
    BY <2>3, Zenon DEF Taken
  <2>5. (IF 1 <= n THEN n - 1 + 1 ELSE 0) = n /\ n - 1 + 1 = n /\ \A k \in 1..n : 1 + k - 1 = k
    OBVIOUS
  <2>6. /\ Len(x) = n /\ Len(y) = n /\ \A k \in 1..n : x[k] = y[k]
    BY <2>1, <2>4, <2>5, Zenon
  <2>7. x = y
    BY <2>4, <2>6, SeqEqual, Zenon
  <2>8. QED
    BY <1>6, <2>2, <2>7, Zenon DEF IsPrefix
<1>8. n = Len(s) => p = s
  BY <1>4, <1>6, SeqEqual, Zenon
<1>9. QED
  BY <1>1, <1>2, <1>4, <1>7, <1>8, Zenon

(* What is read of the bytes of s when n of them have come.                *)
ReadOf(s, b, i, n) ==
  /\ IsPrefix(SubSeq(b, i + 1, i + n), s)
  /\ n = Len(s) => SubSeq(b, i + 1, i + n) = s

LEMMA ReadIs ==
  ASSUME NEW b, NEW i \in Nat, NEW s \in Seq(Byte), NEW n \in Nat, n <= Len(s),
         \A k \in 1..n : b[i + k] = s[k]
  PROVE  ReadOf(s, b, i, n)
BY PieceIs DEF ReadOf

(* Of w, n bytes have come, at the front of l: all of it, or all there are. *)
Seen(b, w, l, n) ==
  /\ n >= 1 /\ n <= l /\ n <= Len(w) /\ (n = l \/ n = Len(w))
  /\ \A k \in 1..n : b[k] = w[k]

LEMMA HeadSeen ==
  ASSUME NEW msg \in Messages, NEW b, NEW l \in Nat, NEW n \in Nat, Seen(b, Wire(msg), l, n)
  PROVE  mqtt_get_type(b) = msg.type /\ mqtt_get_qos(b) = msg.qos
<1>1. n >= 1 /\ \A k \in 1..n : b[k] = Wire(msg)[k]
  BY Zenon DEF Seen
<1>2. 1 \in 1..n
  BY <1>1
<1>3. b[1] = Wire(msg)[1]
  BY <1>1, <1>2, Zenon
<1>4. mqtt_get_type(Wire(msg)) = msg.type /\ mqtt_get_qos(Wire(msg)) = msg.qos
  BY WireIs, Zenon
<1>5. QED
  BY <1>3, <1>4, Zenon DEF mqtt_get_type, mqtt_get_qos

(* The bytes of the length of the message, behind its first byte.          *)
LengthOf(msg, h, bl, m, x) ==
  /\ bl = Len(Body(msg)) /\ HasLength(bl) /\ x = RemainingBytes(bl)
  /\ m = Len(x) /\ h = 1 + m /\ Len(Wire(msg)) = h + bl
  /\ x[m] < 128 /\ \A i \in 1..m - 1 : ~ (x[i] < 128)
  /\ \A i \in 1..m : Wire(msg)[1 + i] = x[i]

LEMMA LengthIs ==
  ASSUME NEW msg \in Messages, NEW h, h = HeadLen(msg)
  PROVE  \E bl \in Nat, m \in 1..4, x \in Seq(Byte) : LengthOf(msg, h, bl, m, x)
<1>1. PICK w, bl : w = Wire(msg) /\ bl = Len(Body(msg))
  BY Zenon
<1>2. bl \in Nat /\ HasLength(bl) /\ LengthAt(w, bl) /\ Len(w) = h + bl
  BY <1>1, WireIs, Zenon
<1>3. PICK x : x = RemainingBytes(bl)
  BY Zenon
<1>4. Written(x)
  BY <1>2, <1>3, LengthWritten, Zenon
<1>5. PICK m \in 1..4 : m = Len(x)
  BY <1>4, Zenon DEF Written
<1>6. x \in Seq(Byte) /\ x[m] < 128 /\ \A i \in 1..m - 1 : x[i] >= 128
  BY <1>4, <1>5, Zenon DEF Written
<1>7. \A i \in 1..m : w[1 + i] = x[i]
  BY <1>2, <1>3, <1>5, Zenon DEF LengthAt
<1>8. h = 1 + m
  BY <1>1, <1>3, <1>5, Zenon DEF HeadLen
<1>9. ASSUME NEW i \in 1..m - 1 PROVE ~ (x[i] < 128)
  <2>1. i \in 1..Len(x)
    BY <1>5
  <2>2. x[i] \in Byte /\ x[i] >= 128
    BY <1>6, <2>1, ElementOfSeq
  <2>3. QED
    BY <2>2 DEF Byte
<1>10. LengthOf(msg, h, bl, m, x)
  BY <1>1, <1>2, <1>3, <1>5, <1>6, <1>7, <1>8, <1>9, Zenon DEF LengthOf
<1>11. QED
  BY <1>2, <1>5, <1>6, <1>10, Zenon

LEMMA LengthSeen ==
  ASSUME NEW msg \in Messages, NEW b, NEW l \in Nat, NEW n \in Nat, Seen(b, Wire(msg), l, n),
         NEW h \in 2..5, h = HeadLen(msg), l >= h,
         NEW length \in Nat, length >= h
  PROVE  HeaderEnd(b, length) = h /\ mqtt_get_total_length(b, length) = Len(Wire(msg))
<1>1. PICK bl \in Nat, m \in 1..4, x \in Seq(Byte) : LengthOf(msg, h, bl, m, x)
  BY LengthIs, Zenon
<1>2. /\ HasLength(bl) /\ x = RemainingBytes(bl) /\ m = Len(x)
      /\ h = 1 + m /\ Len(Wire(msg)) = h + bl
      /\ x[m] < 128 /\ \A i \in 1..m - 1 : ~ (x[i] < 128)
      /\ \A i \in 1..m : Wire(msg)[1 + i] = x[i]
  BY <1>1, Zenon DEF LengthOf
<1>3. /\ n = l \/ n = Len(Wire(msg))
      /\ \A k \in 1..n : b[k] = Wire(msg)[k]
  BY Zenon DEF Seen
<1>4. n >= h
  <2>1. n = l \/ n = h + bl
    BY <1>2, <1>3, Zenon
  <2>2. QED
    BY <2>1
<1>5. \A i \in 1..m : 1 + i \in 1..n
  BY <1>2, <1>4
<1>6. \A i \in 1..m : b[1 + i] = x[i]
  BY <1>2, <1>3, <1>5, Zenon
<1>7. b[h] < 128
  <2>1. m \in 1..m
    OBVIOUS
  <2>2. b[1 + m] < 128
    BY <1>2, <1>6, <2>1, Zenon
  <2>3. QED
    BY <1>2, <2>2
<1>8. ASSUME NEW i \in 2..h-1 PROVE ~ (b[i] < 128)
  <2>1. i - 1 \in 1..m - 1 /\ i - 1 \in 1..m /\ 1 + (i - 1) = i
    BY <1>2
  <2>2. ~ (x[i - 1] < 128) /\ b[1 + (i - 1)] = x[i - 1]
    BY <1>2, <1>6, <2>1, Zenon
  <2>3. QED
    BY <2>1, <2>2, Zenon
<1>9. HeaderEnd(b, length) = h
  <2>1. h \in Nat /\ h >= 2
    OBVIOUS
  <2>2. QED
    BY <1>7, <1>8, <2>1, HeaderBytes
<1>10. Sevens(b, m) = bl
  <2>1. LengthAt(b, bl)
    BY <1>2, <1>6, Zenon DEF LengthAt
  <2>2. QED
    BY <1>2, <2>1, LengthRead, Zenon
<1>11. h - 1 = m /\ bl + h = h + bl
  BY <1>2
<1>12. QED
  BY <1>2, <1>9, <1>10, <1>11, Zenon DEF mqtt_get_total_length, RemainingLength

(* A length that is cut off.                                               *)
LEMMA LengthCut ==
  ASSUME NEW msg \in Messages, NEW b, NEW l \in Nat, NEW n \in Nat, Seen(b, Wire(msg), l, n),
         NEW h \in 2..5, h = HeadLen(msg), l < h
  PROVE  HeaderEnd(b, l) = l
<1>1. PICK bl \in Nat, m \in 1..4, x \in Seq(Byte) : LengthOf(msg, h, bl, m, x)
  BY LengthIs, Zenon
<1>2. /\ h = 1 + m /\ Len(Wire(msg)) = h + bl
      /\ \A i \in 1..m - 1 : ~ (x[i] < 128)
      /\ \A i \in 1..m : Wire(msg)[1 + i] = x[i]
  BY <1>1, Zenon DEF LengthOf
<1>3. /\ n >= 1 /\ n <= l /\ (n = l \/ n = h + bl)
      /\ \A k \in 1..n : b[k] = Wire(msg)[k]
  BY <1>2, Zenon DEF Seen
<1>4. n = l /\ l >= 1
  BY <1>3
<1>5. ASSUME NEW i \in 2..l PROVE ~ (b[i] < 128)
  <2>1. i - 1 \in 1..m - 1 /\ i - 1 \in 1..m /\ 1 + (i - 1) = i /\ i \in 1..n
    BY <1>2, <1>4
  <2>2. QED
    BY <1>2, <1>3, <2>1, Zenon
<1>6. QED
  BY <1>4, <1>5, HeaderOpen

LEMMA TopicSeen ==
  ASSUME NEW msg \in Messages, msg.type = PUBLISH, NEW b, NEW l \in Nat, NEW n \in Nat,
         Seen(b, Wire(msg), l, n),
         NEW h \in 2..5, NEW lt \in Nat \ {0}, NEW li \in Nat, NEW ld \in Nat,
         PublishOn(msg, Wire(msg), h, lt, li, ld)
  PROVE  LET topic == mqtt_get_publish_topic(b, l)
         IN /\ ~ topic.null => /\ topic.bytes = msg.topic
                               /\ l > h + 2 /\ h + 2 + lt <= n /\ At16(b, h) = lt
            /\ n = Len(Wire(msg)) => ~ topic.null
<1>1. PICK w, tw : w = Wire(msg) /\ tw = Len(w)
  BY Zenon
<1>2. tw = h + 2 + lt + li + ld /\ h = HeadLen(msg)
  BY <1>1, Zenon DEF PublishOn
<1>3. /\ n >= 1 /\ n <= l /\ n <= tw /\ (n = l \/ n = tw)
      /\ \A k \in 1..n : b[k] = w[k]
  BY <1>1, Zenon DEF Seen
<1> DEFINE topic == mqtt_get_publish_topic(b, l)
<1>4. CASE l <= h + 2
  <2>1. topic = Null
    <3>1. PICK e : e = HeaderEnd(b, l)
      BY Zenon
    <3>2. CASE l < h
      <4>1. e = l
        BY <1>2, <3>1, <3>2, LengthCut, Zenon
      <4>2. e + 2 >= l
        BY <4>1
      <4>3. QED
        BY <3>1, <4>2, Zenon DEF mqtt_get_publish_topic
    <3>3. CASE l >= h
      <4>1. e = h
        <5>1. HeaderEnd(b, l) = h
          BY <1>2, <3>3, LengthSeen
        <5>2. QED
          BY <3>1, <5>1, Zenon
      <4>2. e + 2 >= l
        BY <1>4, <4>1
      <4>3. QED
        BY <3>1, <4>2, Zenon DEF mqtt_get_publish_topic
    <3>4. l < h \/ l >= h
      OBVIOUS
    <3>5. QED
      BY <3>2, <3>3, <3>4, Zenon
  <2>2. topic.null
    BY <2>1 DEF Null
  <2>3. n # tw
    BY <1>2, <1>3, <1>4
  <2> HIDE DEF topic
  <2>4. QED
    BY <1>1, <2>2, <2>3, Zenon DEF topic
<1>5. CASE l > h + 2
  <2>1. l >= h /\ n > h + 2
    BY <1>2, <1>3, <1>5
  <2>2. HeaderEnd(b, l) = h
    BY <1>2, <2>1, LengthSeen
  <2>3. At16(b, h) = lt
    <3>1. h + 1 \in 1..n /\ h + 2 \in 1..n
      BY <2>1
    <3>2. b[h + 1] = w[h + 1] /\ b[h + 2] = w[h + 2]
      BY <1>3, <3>1, Zenon
    <3>3. At16(b, h) = At16(w, h)
      BY <3>2, Zenon DEF At16
    <3>4. QED
      BY <1>1, <3>3, Zenon DEF PublishOn
  <2>4. ~ (h + 2 >= l)
    BY <1>5
  <2>5. topic = IF h + 2 + lt > l THEN Null ELSE Piece(b, h + 2, lt)
    BY <2>2, <2>3, <2>4, Zenon DEF mqtt_get_publish_topic
  <2>6. CASE h + 2 + lt > l
    <3>1. topic = Null
      BY <2>5, <2>6, Zenon
    <3>2. topic.null
      BY <3>1 DEF Null
    <3>3. n # tw
      BY <1>2, <1>3, <2>6
    <3> HIDE DEF topic
    <3>4. QED
      BY <1>1, <3>2, <3>3, Zenon DEF topic
  <2>7. CASE ~ (h + 2 + lt > l)
    <3>1. topic = Piece(b, h + 2, lt)
      BY <2>5, <2>7, Zenon
    <3>2. topic.null = FALSE /\ topic.bytes = SubSeq(b, (h + 2) + 1, (h + 2) + lt)
      BY <3>1 DEF Piece
    <3>3. h + 2 + lt <= n /\ lt <= lt /\ h + 2 \in Nat
      BY <1>2, <1>3, <2>7
    <3>4. lt = Len(msg.topic) /\ \A k \in 1..lt : w[h + 2 + k] = msg.topic[k]
      BY <1>1, Zenon DEF PublishOn
    <3>5. \A k \in 1..lt : h + 2 + k \in 1..n
      BY <3>3
    <3>6. \A k \in 1..lt : b[(h + 2) + k] = msg.topic[k]
      BY <1>3, <3>4, <3>5, Zenon
    <3>7. PICK s : s = msg.topic
      BY Zenon
    <3>8. s \in Seq(Byte) /\ lt = Len(s) /\ \A k \in 1..lt : b[(h + 2) + k] = s[k]
      BY <3>4, <3>6, <3>7, MessageIs, Zenon
    <3>9. SubSeq(b, (h + 2) + 1, (h + 2) + lt) = s
      <4>1. h + 2 \in Nat /\ lt \in Nat /\ lt <= Len(s)
        BY <3>3, <3>8
      <4>2. QED
        BY <3>8, <4>1, PieceIs
    <3> HIDE DEF topic
    <3>10. QED
      BY <1>5, <2>3, <3>2, <3>3, <3>7, <3>9, Zenon DEF topic
  <2>8. QED
    BY <2>6, <2>7, Zenon
<1>6. l <= h + 2 \/ l > h + 2
  OBVIOUS
<1>7. QED
  BY <1>4, <1>5, <1>6, Zenon

LEMMA DataSeen ==
  ASSUME NEW msg \in Messages, msg.type = PUBLISH, NEW b, NEW l \in Nat, NEW n \in Nat,
         Seen(b, Wire(msg), l, n),
         NEW h \in 2..5, NEW lt \in Nat \ {0}, NEW li \in Nat, NEW ld \in Nat,
         PublishOn(msg, Wire(msg), h, lt, li, ld),
         l > h + 2, h + 2 + lt <= n, At16(b, h) = lt
  PROVE  LET data == PublishData(b, l, Len(Wire(msg)))
         IN /\ IsPrefix(data.bytes, msg.data)
            /\ n = Len(Wire(msg)) => data.bytes = msg.data
<1>1. PICK tw \in Nat : tw = h + 2 + lt + li + ld
  OBVIOUS
<1>2. PICK w : w = Wire(msg) /\ tw = Len(w)
  BY <1>1, Zenon DEF PublishOn
<1>3. /\ tw = h + 2 + lt + li + ld /\ h = HeadLen(msg)
      /\ li = IF msg.qos > 0 THEN 2 ELSE 0
      /\ ld = Len(msg.data)
      /\ \A k \in 1..ld : w[h + 2 + lt + li + k] = msg.data[k]
  BY <1>2, Zenon DEF PublishOn
<1>4. /\ n >= 1 /\ n <= l /\ n <= tw /\ (n = l \/ n = tw)
      /\ \A k \in 1..n : b[k] = w[k]
  BY <1>2, Zenon DEF Seen
<1>5. /\ n >= 1 /\ n <= l /\ n <= tw /\ (n = l \/ n = tw)
       /\ (li = 0 \/ li = 2)
  <2>1. li = 0 \/ li = 2
    BY <1>3, Zenon
  <2>2. QED
    BY <1>4, <2>1, Zenon
<1>6. HeaderEnd(b, l) = h /\ IdSize(b) = li
  <2>1. l >= h
    OBVIOUS
  <2>2. HeaderEnd(b, l) = h
    BY <1>3, <2>1, LengthSeen
  <2>3. mqtt_get_qos(b) = msg.qos
    BY HeadSeen, Zenon
  <2>4. QED
    BY <1>3, <2>2, <2>3, Zenon DEF IdSize
<1>7. PICK j \in Nat, k \in Nat : j = h + 2 + lt /\ k = j + li
  OBVIOUS
<1>8. ~ (h + 2 >= l) /\ ~ (tw < k)
  BY <1>1, <1>7
<1>9. PICK s : s = msg.data
  BY Zenon
<1>10. s \in Seq(Byte) /\ ld = Len(s)
  BY <1>3, <1>9, MessageIs, Zenon
<1> DEFINE data == PublishData(b, l, tw)
<1>11. data = IF j >= l \/ (li > 0 /\ j + 2 >= l) THEN Null
              ELSE Piece(b, k, Min({tw, l}) - k)
  BY <1>6, <1>7, <1>8, Zenon DEF PublishData
<1>12. CASE j >= l \/ (li > 0 /\ j + 2 >= l)
  <2>1. data = Null
    BY <1>11, <1>12, Zenon
  <2>2. data.bytes = <<>>
    BY <2>1 DEF Null
  <2>3. IsPrefix(<<>>, s)
    <3>1. Len(<<>>) = 0 /\ 0 <= ld
      OBVIOUS
    <3>2. SubSeq(<<>>, 1, 0) = <<>> /\ SubSeq(s, 1, 0) = <<>>
      BY SubSeqEmpty
    <3>3. QED
      BY <1>10, <3>1, <3>2, Zenon DEF IsPrefix
  <2>4. n = tw => s = <<>>
    <3>1. n = tw => ld = 0
      BY <1>1, <1>5, <1>7, <1>12
    <3>2. QED
      BY <1>10, <3>1, EmptySeq
  <2> HIDE DEF data
  <2>5. QED
    BY <1>2, <1>9, <2>2, <2>3, <2>4, Zenon DEF data
<1>13. CASE ~ (j >= l \/ (li > 0 /\ j + 2 >= l))
  <2>1. Min({tw, l}) = n
    <3> DEFINE S == {tw, l}
    <3>1. S \subseteq Int /\ n \in S /\ \A y \in S : n <= y
      BY <1>5
    <3> HIDE DEF S
    <3>2. Min(S) = n
      BY <3>1, MinOf
    <3>3. QED
      BY <3>2 DEF S
  <2>2. PICK m \in Nat : m = n - k /\ m <= ld /\ (n = tw => m = ld) /\ k + m <= n
    BY <1>1, <1>5, <1>7, <1>13
  <2>3. data = Piece(b, k, m)
    BY <1>11, <1>13, <2>1, <2>2, Zenon
  <2>4. data.bytes = SubSeq(b, k + 1, k + m)
    BY <2>3 DEF Piece
  <2>5. \A i \in 1..m : k + i \in 1..n /\ i \in 1..ld /\ k + i = h + 2 + lt + li + i
    BY <1>7, <2>2
  <2>6. ASSUME NEW i \in 1..m PROVE b[k + i] = s[i]
    <3>1. k + i \in 1..n /\ i \in 1..ld /\ k + i = h + 2 + lt + li + i
      BY <2>5, Zenon
    <3>2. b[k + i] = w[k + i]
      BY <1>4, <3>1, Zenon
    <3>3. w[h + 2 + lt + li + i] = msg.data[i]
      BY <1>3, <3>1, Zenon
    <3>4. QED
      BY <1>9, <3>1, <3>2, <3>3, Zenon
  <2>7. m <= Len(s)
    BY <1>10, <2>2, Zenon
  <2> HIDE DEF data
  <2>8. /\ IsPrefix(SubSeq(b, k + 1, k + m), s)
        /\ m = Len(s) => SubSeq(b, k + 1, k + m) = s
    <3>1. m \in Nat /\ k \in Nat /\ s \in Seq(Byte)
      BY <1>10
    <3>2. \A i \in 1..m : b[k + i] = s[i]
      BY <2>6, Zenon
    <3>3. ReadOf(s, b, k, m)
      BY <2>7, <3>1, <3>2, ReadIs, Zenon
    <3>4. QED
      BY <3>3, Zenon DEF ReadOf
  <2>9. QED
    BY <1>2, <1>9, <1>10, <2>2, <2>4, <2>8, Zenon DEF data
<1>14. QED
  BY <1>12, <1>13, Zenon

(* What is acknowledged of a message that has come whole; the identifier is *)
(* looked up as if the whole buffer, of N bytes, had been received.        *)
LEMMA IdSeen ==
  ASSUME NEW msg \in Messages, NEW b, NEW l \in Nat,
         Seen(b, Wire(msg), l, Len(Wire(msg))), NEW N \in Nat, N > l
  PROVE  Replies(mqtt_get_type(b), mqtt_get_qos(b), mqtt_get_id(b, N))
           = Replies(msg.type, msg.qos, msg.id)
<1>1. PICK w, tw : w = Wire(msg) /\ tw = Len(w)
  BY Zenon
<1>2. tw \in Nat
  <2>1. w \in Seq(Byte)
    BY <1>1, WireIs, Zenon
  <2>2. QED
    BY <1>1, <2>1
<1>3. Seen(b, Wire(msg), l, tw)
  BY <1>1, Zenon
<1>4. mqtt_get_type(b) = msg.type /\ mqtt_get_qos(b) = msg.qos
  BY <1>2, <1>3, HeadSeen, Zenon
<1>5. tw <= l /\ \A k \in 1..tw : b[k] = w[k]
  BY <1>1, <1>3, Zenon DEF Seen
<1>6. CASE msg.type = PUBLISH
  <2>1. PICK h \in 2..5, lt \in Nat \ {0}, li \in Nat, ld \in Nat : PublishOn(msg, w, h, lt, li, ld)
    BY <1>1, <1>6, PublishWire, Zenon
  <2>2. /\ tw = h + 2 + lt + li + ld /\ h = HeadLen(msg)
        /\ li = IF msg.qos > 0 THEN 2 ELSE 0
        /\ msg.qos > 0 => At16(w, h + 2 + lt) = msg.id
    BY <1>1, <2>1, Zenon DEF PublishOn
  <2>3. CASE msg.qos > 0
    <3>1. li = 2 /\ l >= h /\ N >= h /\ h + 2 + lt + 2 <= tw
      <4>1. li = 2 /\ tw = h + 2 + lt + li + ld /\ tw <= l /\ l < N
        BY <1>5, <2>2, <2>3, Zenon
      <4>2. QED
        BY <1>2, <4>1
    <3>2. HeaderEnd(b, N) = h
      <4>1. Seen(b, Wire(msg), l, tw) /\ h = HeadLen(msg)
        BY <1>1, <1>3, <2>2, Zenon
      <4>2. QED
        BY <1>2, <3>1, <4>1, LengthSeen
    <3>3. At16(b, h) = lt
      <4>1. h + 1 \in 1..tw /\ h + 2 \in 1..tw
        BY <1>2, <3>1
      <4>2. b[h + 1] = w[h + 1] /\ b[h + 2] = w[h + 2]
        BY <1>5, <4>1, Zenon
      <4>3. At16(b, h) = At16(w, h)
        BY <4>2, Zenon DEF At16
      <4>4. QED
        BY <2>1, <4>3, Zenon DEF PublishOn
    <3>4. PICK j \in Nat : j = h + 2 + lt
      OBVIOUS
    <3>5. At16(b, j) = msg.id
      <4>1. j + 1 \in 1..tw /\ j + 2 \in 1..tw
        BY <1>2, <3>1, <3>4
      <4>2. b[j + 1] = w[j + 1] /\ b[j + 2] = w[j + 2]
        BY <1>5, <4>1, Zenon
      <4>3. At16(b, j) = At16(w, j)
        BY <4>2, Zenon DEF At16
      <4>4. QED
        BY <2>2, <2>3, <3>4, <4>3, Zenon
    <3>6. IdSize(b) = 2
      BY <1>4, <2>3, Zenon DEF IdSize
    <3>7. N >= 1 /\ ~ (N < 1) /\ ~ (h + 2 >= N) /\ ~ (j >= N) /\ ~ (2 = 0) /\ ~ (j + 2 >= N)
      <4>1. h + 2 + lt + 2 <= tw /\ tw <= l /\ l < N /\ j = h + 2 + lt
        BY <1>5, <3>1, <3>4, Zenon
      <4>2. QED
        BY <1>2, <4>1
    <3>8. mqtt_get_type(b) = PUBLISH
      BY <1>4, <1>6, Zenon
    <3>9. mqtt_get_id(b, N) =
            IF HeaderEnd(b, N) + 2 >= N THEN 0
            ELSE IF HeaderEnd(b, N) + 2 + At16(b, HeaderEnd(b, N)) >= N \/ IdSize(b) = 0
                    \/ HeaderEnd(b, N) + 2 + At16(b, HeaderEnd(b, N)) + 2 >= N THEN 0
            ELSE At16(b, HeaderEnd(b, N) + 2 + At16(b, HeaderEnd(b, N)))
      <4>1. mqtt_get_type(b) \notin {PUBACK, PUBREC, PUBREL, PUBCOMP, SUBACK, UNSUBACK, SUBSCRIBE}
        BY <3>8 DEF PUBLISH, PUBACK, PUBREC, PUBREL, PUBCOMP, SUBACK, UNSUBACK, SUBSCRIBE
      <4>2. QED
        BY <3>7, <3>8, <4>1, Zenon DEF mqtt_get_id
    <3>10. mqtt_get_id(b, N) = At16(b, j)
      BY <3>2, <3>3, <3>4, <3>6, <3>7, <3>9, Zenon
    <3>11. QED
      BY <1>4, <3>5, <3>10, Zenon
  <2>4. CASE ~ (msg.qos > 0)
    <3>1. msg.qos # 1 /\ msg.qos # 2
      BY <2>4
    <3>2. \A id : Replies(msg.type, msg.qos, id) = <<>>
      BY <1>6, <3>1 DEF Replies, PUBLISH, PUBREC, PUBREL, PINGREQ
    <3>3. QED
      BY <1>4, <3>2, Zenon
  <2>5. QED
    BY <2>3, <2>4, Zenon
<1>7. CASE msg.type \in {PUBREC, PUBREL}
  <2>1. PICK u : u = U16(msg.id)
    BY Zenon
  <2>2. Body(msg) = u
    BY <1>7, <2>1 DEF Body, PUBLISH, CONNACK, PINGREQ, PINGRESP, SUBACK, PUBREC, PUBREL
  <2>3. Len(u) = 2 /\ msg.id \in Nat
    BY <2>1, IdBytesIs, MessageIs, Zenon
  <2>4. w \in Seq(Byte) /\ tw = 2 + 2 /\ Holds(w, 2, u) /\ w[2] = 2
    <3>1. RemainingBytes(2) = <<2>>
      <4>1. Above(2) = 0 /\ Above(0) = 0
        BY DEF Above
      <4>2. QED
        BY <4>1 DEF RemainingBytes
    <3>2. Len(<<2>>) = 1 /\ <<2>>[1] = 2 /\ 1 + 1 = 2 /\ 1 \in 1..1
      OBVIOUS
    <3>3. HeadLen(msg) = 2
      BY <2>2, <2>3, <3>1, <3>2, Zenon DEF HeadLen
    <3>4. w[2] = 2
      <4>1. \A i \in 1..1 : w[1 + i] = <<2>>[i]
        <5>1. LengthAt(w, 2)
          BY <1>1, <2>2, <2>3, WireIs, Zenon
        <5>2. QED
          BY <3>1, <3>2, <5>1, Zenon DEF LengthAt
      <4>2. QED
        BY <3>2, <4>1, Zenon
    <3>5. QED
      BY <1>1, <2>2, <2>3, <3>3, <3>4, WireIs, Zenon
  <2>5. At16(w, 2) = msg.id
    BY <2>1, <2>3, <2>4, HoldsU16
  <2>6. 2 \in 1..tw /\ 2 + 1 \in 1..tw /\ 2 + 2 \in 1..tw /\ N >= 4 /\ N >= 1 /\ ~ (N < 1)
    BY <1>5, <2>4
  <2>7. b[2] = 2
    BY <1>5, <2>4, <2>6, Zenon
  <2>8. At16(b, 2) = At16(w, 2)
    <3>1. PICK x, y : x = 2 + 1 /\ y = 2 + 2
      BY Zenon
    <3>2. b[x] = w[x] /\ b[y] = w[y]
      BY <1>5, <2>6, <3>1, Zenon
    <3>3. At16(b, 2) = b[x] * 256 + b[y] /\ At16(w, 2) = w[x] * 256 + w[y]
      BY <3>1 DEF At16
    <3>4. QED
      BY <3>2, <3>3
  <2>9. mqtt_get_id(b, N) = At16(b, 2)
    <3>1. mqtt_get_type(b) # PUBLISH
      BY <1>4, <1>7 DEF PUBLISH, PUBREC, PUBREL
    <3>2. mqtt_get_type(b) \in {PUBACK, PUBREC, PUBREL, PUBCOMP, SUBACK, UNSUBACK, SUBSCRIBE}
      BY <1>4, <1>7, Zenon
    <3>3. b[2] < 128
      BY <2>7
    <3>4. mqtt_get_id(b, N) = IF N >= 4 /\ b[2] < 128 THEN At16(b, 2) ELSE 0
      BY <2>6, <3>1, <3>2, Zenon DEF mqtt_get_id
    <3>5. QED
      BY <2>6, <3>3, <3>4, Zenon
  <2>10. QED
    BY <1>4, <2>5, <2>8, <2>9, Zenon
<1>8. CASE msg.type \notin {PUBLISH, PUBREC, PUBREL}
  <2>1. \A i, j : Replies(msg.type, msg.qos, i) = Replies(msg.type, msg.qos, j)
    <3>1. CASE msg.type = PINGREQ
      BY <3>1 DEF Replies, PUBLISH, PUBREC, PUBREL, PINGREQ
    <3>2. CASE msg.type # PINGREQ
      BY <1>8, <3>2 DEF Replies
    <3>3. QED
      BY <3>1, <3>2, Zenon
  <2>2. QED
    BY <1>4, <2>1, Zenon
<1>9. QED
  BY <1>6, <1>7, <1>8, Zenon
-----------------------------------------------------------------------------
(* The messages of a segment and the bytes they end at.                    *)
Wires(msgs) == [k \in DOMAIN msgs |-> Wire(msgs[k])]
Answering(msgs) == [k \in DOMAIN msgs |-> Replies(msgs[k].type, msgs[k].qos, msgs[k].id)]
End(msgs, m) == Len(Upto(Wires(msgs), m))

LEMMA SameUpto ==
  ASSUME NEW n, NEW f, NEW g, f = [k \in 1..n |-> f[k]], g = f
  PROVE  FlattenSeq(g) = Upto(f, n)
BY Zenon DEF Upto

LEMMA StreamIs ==
  ASSUME NEW msgs \in Seq(Messages), NEW n, n = Len(msgs)
  PROVE  /\ n \in Nat
         /\ \A k \in 1..n : msgs[k] \in Messages /\ Wires(msgs)[k] = Wire(msgs[k])
         /\ \A k \in 1..n : Wires(msgs)[k] \in Seq(Byte)
         /\ Stream(msgs) = Upto(Wires(msgs), n)
<1>1. n \in Nat /\ DOMAIN msgs = 1..n /\ \A k \in 1..n : msgs[k] \in Messages
  OBVIOUS
<1>2. \A k \in 1..n : Wires(msgs)[k] = Wire(msgs[k])
  BY <1>1, Zenon DEF Wires
<1>3. \A k \in 1..n : Wires(msgs)[k] \in Seq(Byte)
  BY <1>1, <1>2, WireIs, Zenon
<1>4. PICK f : f = Wires(msgs)
  BY Zenon
<1>5. f = [k \in 1..n |-> f[k]]
  BY <1>1, <1>4, Zenon DEF Wires
<1>6. FlattenSeq(f) = Upto(f, n)
  BY <1>5, SameUpto
<1>7. Stream(msgs) = Upto(Wires(msgs), n)
  BY <1>4, <1>6, Zenon DEF Stream, Wires
<1>8. QED
  BY <1>1, <1>2, <1>3, <1>7, Zenon

(* The place on the wire of the message after the first m.                 *)
OnWire(msgs, n, m) ==
  /\ End(msgs, m + 1) = End(msgs, m) + Len(Wire(msgs[m + 1]))
  /\ End(msgs, m + 1) <= End(msgs, n)
  /\ \A i \in 1..Len(Wire(msgs[m + 1])) :
       Stream(msgs)[End(msgs, m) + i] = Wire(msgs[m + 1])[i]
  /\ m + 1 # n => End(msgs, m + 1) + Len(Wire(msgs[n])) <= End(msgs, n)

LEMMA OnStream ==
  ASSUME NEW msgs \in Seq(Messages), NEW n, n = Len(msgs)
  PROVE  /\ Stream(msgs) \in Seq(Byte) /\ End(msgs, n) = Len(Stream(msgs))
         /\ End(msgs, 0) = 0 /\ \A m \in 0..n : End(msgs, m) \in Nat
         /\ \A m \in 0..n-1 : OnWire(msgs, n, m)
<1>1. PICK ws : ws = Wires(msgs)
  BY Zenon
<1>2. /\ n \in Nat /\ \A k \in 1..n : ws[k] = Wire(msgs[k]) /\ ws[k] \in Seq(Byte)
      /\ Stream(msgs) = Upto(ws, n)
  BY <1>1, StreamIs, Zenon
<1>3. /\ Upto(ws, 0) = <<>>
      /\ \A m \in 0..n : Upto(ws, m) \in Seq(Byte)
      /\ \A m \in 0..n-1 : Upto(ws, m + 1) = Upto(ws, m) \o ws[m + 1]
  BY <1>2, UptoSteps
<1>4. \A m \in 0..n : End(msgs, m) = Len(Upto(ws, m)) /\ End(msgs, m) \in Nat
  <2>1. \A m \in 0..n : Len(Upto(ws, m)) \in Nat
    BY <1>3
  <2>2. QED
    BY <1>1, <2>1, Zenon DEF End
<1>5. \A m, j \in 0..n : m <= j => End(msgs, m) <= End(msgs, j)
  <2>1. ASSUME NEW m \in 0..n, NEW j \in 0..n, m <= j PROVE Begins(Upto(ws, m), Upto(ws, j))
    BY <1>2, <2>1, UptoGrows
  <2>2. QED
    BY <1>4, <2>1, Zenon DEF Begins
<1>6. 0 \in 0..n /\ n \in 0..n
  BY <1>2
<1>7. End(msgs, 0) = 0
  <2>1. Len(<<>>) = 0
    OBVIOUS
  <2>2. QED
    BY <1>3, <1>4, <1>6, <2>1, Zenon
<1>8. ASSUME NEW m \in 0..n-1
      PROVE  /\ End(msgs, m + 1) = End(msgs, m) + Len(Wire(msgs[m + 1]))
             /\ \A i \in 1..Len(Wire(msgs[m + 1])) :
                  Stream(msgs)[End(msgs, m) + i] = Wire(msgs[m + 1])[i]
  <2>1. m \in 0..n /\ m + 1 \in 0..n /\ m + 1 \in 1..n /\ m + 1 <= n
    BY <1>2
  <2>2. PICK r, s, x, e, l :
          /\ r = Upto(ws, m) /\ s = ws[m + 1] /\ x = Upto(ws, m + 1) /\ e = Len(r) /\ l = Len(s)
    BY Zenon
  <2>3. Joins(Byte, r, s, x, e, l)
    BY <1>2, <1>3, <2>1, <2>2, Zenon DEF Joins
  <2>4. Joint(Byte, r, s, x, e, l)
    BY <2>3, Concatenated
  <2>5. Begins(Upto(ws, m + 1), Upto(ws, n))
    BY <1>2, <1>6, <2>1, UptoGrows
  <2>6. /\ Len(x) = e + l /\ \A i \in 1..l : x[e + i] = s[i]
        /\ \A i \in 1..Len(x) : Stream(msgs)[i] = x[i]
    BY <1>2, <2>2, <2>4, <2>5, Zenon DEF Joint, Begins
  <2>7. e = End(msgs, m) /\ s = Wire(msgs[m + 1]) /\ Len(x) = End(msgs, m + 1)
    BY <1>2, <1>4, <2>1, <2>2, Zenon
  <2>8. e \in Nat /\ l \in Nat
    <3>1. s \in Seq(Byte)
      BY <1>2, <2>1, <2>2, Zenon
    <3>2. l \in Nat
      BY <2>2, <3>1
    <3>3. QED
      BY <1>4, <2>1, <2>7, <3>2, Zenon
  <2>9. \A i \in 1..l : e + i \in 1..e + l
    BY <2>8
  <2>10. \A i \in 1..l : Stream(msgs)[e + i] = s[i]
    BY <2>6, <2>9, Zenon
  <2>11. QED
    BY <2>2, <2>6, <2>7, <2>10, Zenon
<1>9. ASSUME NEW m \in 0..n-1
      PROVE  /\ End(msgs, m + 1) <= End(msgs, n)
             /\ m + 1 # n => End(msgs, m + 1) + Len(Wire(msgs[n])) <= End(msgs, n)
  <2>1. m + 1 \in 0..n /\ m + 1 <= n /\ n - 1 \in 0..n /\ n - 1 \in 0..n-1 /\ (n - 1) + 1 = n
    BY <1>2
  <2>2. m + 1 # n => m + 1 <= n - 1
    BY <2>1
  <2>3. End(msgs, m + 1) <= End(msgs, n)
    BY <1>5, <1>6, <2>1, Zenon
  <2>4. End(msgs, n) = End(msgs, n - 1) + Len(Wire(msgs[n]))
    BY <1>8, <2>1, Zenon
  <2>5. m + 1 # n => End(msgs, m + 1) <= End(msgs, n - 1)
    BY <1>5, <2>1, <2>2, Zenon
  <2>6. PICK a \in Nat, c \in Nat, d \in Nat :
          a = End(msgs, m + 1) /\ c = End(msgs, n - 1) /\ d = Len(Wire(msgs[n]))
    <3>1. n \in 1..n
      BY <2>1
    <3>2. Wire(msgs[n]) \in Seq(Byte)
      BY <1>2, <3>1, Zenon
    <3>3. Len(Wire(msgs[n])) \in Nat
      BY <3>2
    <3>4. QED
      BY <1>4, <2>1, <3>3, Zenon
  <2>7. a <= c => a + d <= c + d
    OBVIOUS
  <2>8. QED
    BY <2>3, <2>4, <2>5, <2>6, <2>7, Zenon
<1>10. Stream(msgs) \in Seq(Byte) /\ End(msgs, n) = Len(Stream(msgs))
  BY <1>2, <1>3, <1>4, <1>6, Zenon
<1>11. \A m \in 0..n-1 : OnWire(msgs, n, m)
  BY <1>8, <1>9, Zenon DEF OnWire
<1>12. QED
  BY <1>4, <1>7, <1>10, <1>11, Zenon

(* The messages a call takes up.                                           *)
Leads(msgs, m) == \A k \in 1..m : msgs[k].type = PUBLISH

Delivering(msgs, m) == [k \in 1..m |-> [topic |-> msgs[k].topic, data |-> msgs[k].data]]

LEMMA AllLead ==
  ASSUME NEW msgs \in Seq(Messages), Leads(msgs, Len(msgs))
  PROVE  /\ Leaders(msgs) = Len(msgs)
         /\ Deliveries(msgs) = Delivering(msgs, Len(msgs))
         /\ Answers(msgs) = Upto(Answering(msgs), Len(msgs))
<1>1. PICK n \in Nat : n = Len(msgs) /\ DOMAIN msgs = 1..n
  OBVIOUS
<1>2. {k \in DOMAIN msgs : msgs[k].type # PUBLISH} = {}
  BY <1>1, Zenon DEF Leads
<1>3. Leaders(msgs) = n
  BY <1>1, <1>2, Zenon DEF Leaders
<1>4. Min({n + 1, n}) = n
  <2> DEFINE S == {n + 1, n}
  <2>1. S \subseteq Int /\ n \in S /\ \A y \in S : n <= y
    OBVIOUS
  <2> HIDE DEF S
  <2>2. Min(S) = n
    BY <2>1, MinOf
  <2>3. QED
    BY <2>2 DEF S
<1>5. \A k \in 1..n : Answering(msgs)[k] = Replies(msgs[k].type, msgs[k].qos, msgs[k].id)
  BY <1>1, Zenon DEF Answering
<1>6. [k \in 1..n |-> Replies(msgs[k].type, msgs[k].qos, msgs[k].id)]
        = [k \in 1..n |-> Answering(msgs)[k]]
  BY <1>5, Zenon
<1>7. Answers(msgs) = Upto(Answering(msgs), n)
  BY <1>1, <1>3, <1>4, <1>6, Zenon DEF Answers, Upto
<1>8. QED
  BY <1>1, <1>3, <1>7, Zenon DEF Deliveries, Delivering

LEMMA SomeLead ==
  ASSUME NEW msgs \in Seq(Messages), NEW m \in Nat, m < Len(msgs), Leads(msgs, m),
         msgs[m + 1].type # PUBLISH
  PROVE  /\ Deliveries(msgs) = Delivering(msgs, m)
         /\ Answers(msgs) = Upto(Answering(msgs), m + 1)
<1>1. PICK n \in Nat : n = Len(msgs) /\ DOMAIN msgs = 1..n
  OBVIOUS
<1>2. m + 1 \in 1..n /\ m + 1 <= n /\ (m + 1) - 1 = m
  BY <1>1
<1> DEFINE others == {k \in DOMAIN msgs : msgs[k].type # PUBLISH}
<1>3. m + 1 \in others /\ others # {}
  BY <1>1, <1>2, Zenon
<1>4. \A k \in others : k \notin 1..m /\ k \in 1..n
  BY <1>1, Zenon DEF Leads
<1>5. Leaders(msgs) = IF others = {} THEN Len(msgs) ELSE Min(others) - 1
  BY Zenon DEF Leaders
<1> HIDE DEF others
<1>6. others \subseteq Int /\ \A k \in others : m + 1 <= k
  BY <1>4
<1>7. Min(others) = m + 1
  BY <1>3, <1>6, MinOf
<1>8. Leaders(msgs) = m
  BY <1>2, <1>3, <1>5, <1>7, Zenon
<1>9. Min({m + 1, n}) = m + 1
  <2> DEFINE S == {m + 1, n}
  <2>1. S \subseteq Int /\ m + 1 \in S /\ \A y \in S : m + 1 <= y
    BY <1>2
  <2> HIDE DEF S
  <2>2. Min(S) = m + 1
    BY <2>1, MinOf
  <2>3. QED
    BY <2>2 DEF S
<1>10. \A k \in 1..m + 1 : k \in 1..n
  BY <1>2
<1>11. \A k \in 1..m + 1 : Answering(msgs)[k] = Replies(msgs[k].type, msgs[k].qos, msgs[k].id)
  BY <1>1, <1>10, Zenon DEF Answering
<1>12. [k \in 1..m + 1 |-> Replies(msgs[k].type, msgs[k].qos, msgs[k].id)]
        = [k \in 1..m + 1 |-> Answering(msgs)[k]]
  BY <1>11, Zenon
<1>13. Answers(msgs) = Upto(Answering(msgs), m + 1)
  BY <1>1, <1>8, <1>9, <1>12, Zenon DEF Answers, Upto
<1>14. QED
  BY <1>8, <1>13, Zenon DEF Deliveries, Delivering

(* Without the last message.                                               *)
LEMMA WholeLead ==
  ASSUME NEW msgs \in Seq(Messages), NEW m \in Nat, m < Len(msgs), Leads(msgs, m),
         msgs[m + 1].type # PUBLISH \/ m + 1 = Len(msgs)
  PROVE  Deliveries(SubSeq(msgs, 1, Len(msgs) - 1)) = Delivering(msgs, m)
<1>1. PICK n \in Nat : n = Len(msgs)
  OBVIOUS
<1>2. PICK p : n = Len(msgs) /\ p = SubSeq(msgs, 1, n - 1)
  BY <1>1, Zenon
<1>3. n >= 1 /\ 1 \in Int /\ n - 1 \in Int /\ \A k \in 1..n-1 : k \in 1..n /\ msgs[k] \in Messages
  BY <1>2
<1>4. Taken(Messages, msgs, 1, n - 1, p)
  BY <1>2, <1>3, SubSeqIs
<1>5. /\ p \in Seq(Messages) /\ Len(p) = IF 1 <= n - 1 THEN (n - 1) - 1 + 1 ELSE 0
      /\ \A k \in 1..(n - 1) - 1 + 1 : p[k] = msgs[1 + k - 1]
  BY <1>4, Zenon DEF Taken
<1>6. /\ (IF 1 <= n - 1 THEN (n - 1) - 1 + 1 ELSE 0) = n - 1
      /\ (n - 1) - 1 + 1 = n - 1 /\ \A k \in 1..n-1 : 1 + k - 1 = k
  BY <1>3
<1>7. Len(p) = n - 1 /\ \A k \in 1..n-1 : p[k] = msgs[k]
  BY <1>5, <1>6, Zenon
<1>8. m <= n - 1 /\ \A k \in 1..m : k \in 1..n-1
  BY <1>2, <1>3
<1>9. Leads(p, m) /\ Delivering(p, m) = Delivering(msgs, m)
  <2>1. \A k \in 1..m : p[k] = msgs[k]
    BY <1>7, <1>8, Zenon
  <2>2. Leads(p, m)
    BY <2>1, Zenon DEF Leads
  <2>3. [k \in 1..m |-> [topic |-> p[k].topic, data |-> p[k].data]]
          = [k \in 1..m |-> [topic |-> msgs[k].topic, data |-> msgs[k].data]]
    BY <2>1
  <2>4. QED
    BY <2>2, <2>3, Zenon DEF Delivering
<1>10. CASE m = n - 1
  <2>1. Leads(p, Len(p))
    BY <1>7, <1>9, <1>10, Zenon
  <2>2. Deliveries(p) = Delivering(p, Len(p))
    BY <1>5, <2>1, AllLead, Zenon
  <2>3. QED
    BY <1>2, <1>7, <1>9, <1>10, <2>2, Zenon
<1>11. CASE m # n - 1
  <2>1. m < Len(p) /\ m + 1 \in 1..n-1 /\ m + 1 # n
    BY <1>7, <1>8, <1>11
  <2>2. p[m + 1].type # PUBLISH
    BY <1>2, <1>7, <2>1, Zenon
  <2>3. Deliveries(p) = Delivering(p, m)
    BY <1>5, <1>9, <2>1, <2>2, SomeLead, Zenon
  <2>4. QED
    BY <1>2, <1>9, <2>3, Zenon
<1>12. QED
  BY <1>10, <1>11, Zenon
-----------------------------------------------------------------------------
(* A pass of the loop: what is left of the segment, p, begins with message *)
(* m + 1 of those that begin in it; the m before it are handled.           *)
At(m, msgs, cut, p, d, r) ==
  /\ m \in Nat /\ m < Len(msgs) /\ Leads(msgs, m)
  /\ Len(p) >= 1 /\ End(msgs, m) + Len(p) = Len(Stream(msgs)) - Len(cut)
  /\ \A i \in 1..Len(p) : p[i] = Stream(msgs)[End(msgs, m) + i]
  /\ d = Delivering(msgs, m) /\ r = Upto(Answering(msgs), m)

\* What is cut off is the end of the messages.
Rest(msgs, cut) ==
  \A i \in 1..Len(cut) : cut[i] = Stream(msgs)[Len(Stream(msgs)) - Len(cut) + i]

CutIsLast(msgs, cut) == msgs # <<>> => Len(cut) < Len(Wire(msgs[Len(msgs)]))

\* Where a message of tw bytes stands among the l that are left, n of them its own.
StandsIn(m, msgs, cut, l, tw, n) ==
  /\ n >= 1 /\ n <= l /\ n <= tw
  /\ n = l \/ n = tw
  /\ l < tw => n = l /\ m + 1 = Len(msgs) /\ cut # <<>>
  /\ tw <= l => n = tw
  /\ l = tw => m + 1 = Len(msgs) /\ cut = <<>>
  /\ tw < l => m + 1 < Len(msgs)
  /\ cut # <<>> /\ m + 1 = Len(msgs) => l < tw

LEMMA Placing ==
  ASSUME NEW msgs \in Seq(Messages), NEW cut \in Seq(Byte), NEW p \in Seq(Byte), NEW m, NEW d,
         NEW r, At(m, msgs, cut, p, d, r), CutIsLast(msgs, cut), NEW b,
         \A i \in 1..Len(p) : b[i] = p[i]
  PROVE  /\ msgs[m + 1] \in Messages /\ Len(p) \in Nat /\ Len(Wire(msgs[m + 1])) \in Nat
         /\ \E n \in Nat : /\ StandsIn(m, msgs, cut, Len(p), Len(Wire(msgs[m + 1])), n)
                           /\ Seen(b, Wire(msgs[m + 1]), Len(p), n)
<1>1. /\ m \in Nat /\ m < Len(msgs)
      /\ Len(p) >= 1 /\ End(msgs, m) + Len(p) = Len(Stream(msgs)) - Len(cut)
      /\ \A i \in 1..Len(p) : p[i] = Stream(msgs)[End(msgs, m) + i]
  BY Zenon DEF At
<1>2. PICK k \in Nat, l \in Nat, c \in Nat : k = Len(msgs) /\ l = Len(p) /\ c = Len(cut)
  <2>1. Len(msgs) \in Nat /\ Len(p) \in Nat /\ Len(cut) \in Nat
    OBVIOUS
  <2>2. QED
    BY <2>1, Zenon
<1>3. m < k
  BY <1>1, <1>2, Zenon
<1>4. m \in 0..k-1 /\ m \in 0..k /\ m + 1 \in 1..k /\ m + 1 \in 0..k /\ k \in 1..k /\ k \in 0..k
  BY <1>1, <1>2, <1>3
<1>5. msgs[m + 1] \in Messages /\ msgs[k] \in Messages
  BY <1>2, <1>4, StreamIs, Zenon
<1>6. PICK w : w = Wire(msgs[m + 1])
  BY Zenon
<1>7. PICK tw \in Nat, lw \in Nat : tw = Len(w) /\ lw = Len(Wire(msgs[k])) /\ tw >= 1
  <2>1. Len(w) \in Nat /\ Len(w) >= 1
    BY <1>5, <1>6, WireLen, Zenon
  <2>2. Len(Wire(msgs[k])) \in Nat
    BY <1>5, WireLen, Zenon
  <2>3. Len(w) \in Nat /\ Len(Wire(msgs[k])) \in Nat /\ Len(w) >= 1
    BY <2>1, <2>2, Zenon
  <2>4. QED
    BY <2>3, Zenon
<1>8. PICK e \in Nat, e1 \in Nat, ek \in Nat :
        e = End(msgs, m) /\ e1 = End(msgs, m + 1) /\ ek = End(msgs, k)
  BY <1>2, <1>4, OnStream, Zenon
<1>9. /\ e1 = e + tw /\ e1 <= ek /\ (m + 1 # k => e1 + lw <= ek)
      /\ \A i \in 1..tw : Stream(msgs)[e + i] = w[i]
      /\ ek = Len(Stream(msgs))
  <2>1. End(msgs, k) = Len(Stream(msgs))
    BY <1>2, OnStream, Zenon
  <2>2. OnWire(msgs, k, m)
    BY <1>2, <1>4, OnStream, Zenon
  <2>3. /\ End(msgs, m + 1) = End(msgs, m) + Len(Wire(msgs[m + 1]))
        /\ End(msgs, m + 1) <= End(msgs, k)
        /\ \A i \in 1..Len(Wire(msgs[m + 1])) :
             Stream(msgs)[End(msgs, m) + i] = Wire(msgs[m + 1])[i]
        /\ m + 1 # k => End(msgs, m + 1) + Len(Wire(msgs[k])) <= End(msgs, k)
    BY <2>2, Zenon DEF OnWire
  <2>4. QED
    BY <1>6, <1>7, <1>8, <2>1, <2>3, Zenon
<1>10. c < lw
  <2>1. msgs # <<>>
    <3>1. Len(<<>>) = 0 /\ k # 0
      BY <1>4
    <3>2. QED
      BY <1>2, <3>1, Zenon
  <2>2. QED
    BY <1>2, <1>7, <2>1, Zenon DEF CutIsLast
<1>11. l >= 1 /\ e + l = ek - c
  BY <1>1, <1>2, <1>8, <1>9, Zenon
<1>12. m + 1 = k => e1 = ek
  BY <1>8, Zenon
<1>13. PICK n \in Nat : n = IF tw <= l THEN tw ELSE l
  OBVIOUS
<1>14. /\ n >= 1 /\ n <= l /\ n <= tw /\ (n = l \/ n = tw)
       /\ l < tw => n = l /\ m + 1 = k /\ c # 0
       /\ tw <= l => n = tw
       /\ l = tw => m + 1 = k /\ c = 0
       /\ tw < l => m + 1 < k
       /\ c # 0 /\ m + 1 = k => l < tw
  <2>1. /\ m \in Nat /\ m < k /\ tw >= 1 /\ c < lw /\ l >= 1 /\ e + l = ek - c
        /\ e1 = e + tw /\ e1 <= ek /\ (m + 1 # k => e1 + lw <= ek) /\ (m + 1 = k => e1 = ek)
    BY <1>1, <1>3, <1>7, <1>9, <1>10, <1>11, <1>12, Zenon
  <2>2. /\ n >= 1 /\ n <= l /\ n <= tw /\ (n = l \/ n = tw)
        /\ tw <= l => n = tw
    BY <1>13, <2>1
  <2>3. l < tw => n = l /\ m + 1 = k /\ c # 0
    BY <1>13, <2>1
  <2>4. /\ l = tw => m + 1 = k /\ c = 0
        /\ tw < l => m + 1 < k
        /\ c # 0 /\ m + 1 = k => l < tw
    BY <2>1
  <2>5. QED
    BY <2>2, <2>3, <2>4, Zenon
<1>15. c = 0 <=> cut = <<>>
  BY <1>2, EmptySeq
<1>16. StandsIn(m, msgs, cut, l, tw, n)
  BY <1>2, <1>14, <1>15, Zenon DEF StandsIn
<1>17. \A i \in 1..n : i \in 1..l /\ i \in 1..tw
  BY <1>14
<1>18. \A i \in 1..n : b[i] = w[i]
  BY <1>1, <1>2, <1>8, <1>9, <1>17, Zenon
<1>19. Seen(b, w, l, n)
  BY <1>7, <1>14, <1>18, Zenon DEF Seen
<1>20. QED
  BY <1>2, <1>5, <1>6, <1>7, <1>16, <1>19, Zenon

(* What is left and what is to come are the messages that are not handled. *)
LEMMA LeftIs ==
  ASSUME NEW msgs \in Seq(Messages), NEW cut \in Seq(Byte), NEW p \in Seq(Byte), NEW m, NEW d,
         NEW r, At(m, msgs, cut, p, d, r), Rest(msgs, cut)
  PROVE  p \o cut = Stream(SubSeq(msgs, m + 1, Len(msgs)))
<1>1. /\ m \in Nat /\ m < Len(msgs)
      /\ End(msgs, m) + Len(p) = Len(Stream(msgs)) - Len(cut)
      /\ \A i \in 1..Len(p) : p[i] = Stream(msgs)[End(msgs, m) + i]
  BY Zenon DEF At
<1>2. PICK n \in Nat : n = Len(msgs)
  OBVIOUS
<1>3. PICK q, ws, vs : q = SubSeq(msgs, m + 1, n) /\ ws = Wires(msgs) /\ vs = Wires(q)
  BY Zenon
<1>4. m < n
  BY <1>1, <1>2, Zenon
<1>5. PICK k \in Nat : k = n - m
  BY <1>1, <1>4
<1>6. /\ m + 1 \in Int /\ n \in Int /\ m + 1 <= n /\ n - (m + 1) + 1 = k /\ m \in 0..n
      /\ \A i \in m+1..n : i \in 1..n
      /\ \A i \in 1..k : (m + 1) + i - 1 = m + i /\ m + i \in 1..n
  BY <1>1, <1>4, <1>5
<1>7. /\ \A i \in 1..n : msgs[i] \in Messages /\ ws[i] = Wire(msgs[i]) /\ ws[i] \in Seq(Byte)
      /\ Stream(msgs) = Upto(ws, n)
  BY <1>2, <1>3, StreamIs, Zenon
<1>8. q \in Seq(Messages) /\ Len(q) = k /\ \A i \in 1..k : q[i] = msgs[m + i]
  <2>1. \A i \in m+1..n : msgs[i] \in Messages
    BY <1>6, <1>7, Zenon
  <2>2. Taken(Messages, msgs, m + 1, n, q)
    BY <1>3, <1>6, <2>1, SubSeqIs
  <2>3. /\ q \in Seq(Messages) /\ Len(q) = IF m + 1 <= n THEN n - (m + 1) + 1 ELSE 0
        /\ \A i \in 1..n - (m + 1) + 1 : q[i] = msgs[(m + 1) + i - 1]
    BY <2>2, Zenon DEF Taken
  <2>4. Len(q) = k
    BY <1>6, <2>3, Zenon
  <2>5. QED
    BY <1>6, <2>3, <2>4, Zenon
<1>9. /\ \A i \in 1..k : vs[i] = Wire(q[i]) /\ vs[i] \in Seq(Byte)
      /\ Stream(q) = Upto(vs, k)
  BY <1>3, <1>8, StreamIs, Zenon
<1>10. \A i \in 1..n - m : vs[i] = ws[m + i]
  BY <1>5, <1>6, <1>7, <1>8, <1>9, Zenon
<1>11. PICK a, t, x, z : a = Upto(ws, m) /\ t = Stream(q) /\ x = Stream(msgs) /\ z = p \o cut
  BY Zenon
<1>12. x = a \o t
  <2>1. Upto(ws, n) = Upto(ws, m) \o Upto(vs, n - m)
    <3>1. m \in 0..n /\ \A i \in 1..n : ws[i] \in Seq(Byte)
      BY <1>6, <1>7, Zenon
    <3>2. IsTail(Byte, ws, n, vs, m)
      BY <1>10, <3>1, Zenon DEF IsTail
    <3>3. QED
      BY <3>2, UptoTail
  <2>2. QED
    BY <1>5, <1>7, <1>9, <1>11, <2>1, Zenon
<1>13. a \in Seq(Byte) /\ t \in Seq(Byte) /\ Len(a) = End(msgs, m)
  <2>1. Upto(ws, m) \in Seq(Byte)
    BY <1>6, <1>7, UptoSteps
  <2>2. Stream(q) \in Seq(Byte)
    BY <1>8, OnStream, Zenon
  <2>3. QED
    BY <1>3, <1>11, <2>1, <2>2, Zenon DEF End
<1>14. PICK e \in Nat, lt \in Nat, lp \in Nat, lc \in Nat :
         e = Len(a) /\ lt = Len(t) /\ lp = Len(p) /\ lc = Len(cut)
  BY <1>13
<1>15. Joint(Byte, a, t, x, e, lt) /\ Joint(Byte, p, cut, z, lp, lc)
  BY <1>11, <1>12, <1>13, <1>14, Concatenated, Zenon DEF Joins
<1>16. /\ Len(x) = e + lt /\ \A i \in 1..lt : x[e + i] = t[i]
       /\ z \in Seq(Byte) /\ Len(z) = lp + lc
       /\ \A i \in 1..lp : z[i] = p[i]
       /\ \A i \in 1..lc : z[lp + i] = cut[i]
  BY <1>15, Zenon DEF Joint
<1>17. e + lp = (e + lt) - lc
  BY <1>1, <1>11, <1>13, <1>14, <1>16, Zenon
<1>18. lp + lc = lt /\ (e + lt) - lc = e + lp
  BY <1>17
<1>19. ASSUME NEW i \in 1..lt PROVE z[i] = t[i]
  <2>1. CASE i \in 1..lp
    <3>1. e = End(msgs, m)
      BY <1>13, <1>14, Zenon
    <3>2. p[i] = x[e + i]
      BY <1>1, <1>11, <1>14, <2>1, <3>1, Zenon
    <3>3. QED
      BY <1>16, <2>1, <3>2, Zenon
  <2>2. CASE i \notin 1..lp
    <3>1. PICK j \in 1..lc : i = lp + j /\ (e + lp) + j = e + i
      <4>1. i - lp \in 1..lc /\ i = lp + (i - lp) /\ (e + lp) + (i - lp) = e + i
        BY <1>18, <2>2
      <4>2. QED
        BY <4>1, Zenon
    <3>2. z[i] = cut[j]
      BY <1>16, <3>1, Zenon
    <3>3. cut[j] = x[(e + lp) + j]
      <4>1. \A k1 \in 1..lc : cut[k1] = x[Len(x) - lc + k1]
        BY <1>11, <1>14, Zenon DEF Rest
      <4>2. Len(x) - lc = e + lp
        BY <1>16, <1>18, Zenon
      <4>3. QED
        BY <4>1, <4>2, Zenon
    <3>4. QED
      BY <1>16, <3>1, <3>2, <3>3, Zenon
  <2>3. QED
    BY <2>1, <2>2, Zenon
<1>20. z = t
  <2>1. Len(z) = Len(t) /\ \A i \in 1..Len(z) : z[i] = t[i]
    BY <1>14, <1>16, <1>18, <1>19, Zenon
  <2>2. QED
    BY <1>13, <1>16, <2>1, SeqEqual, Zenon
<1>21. QED
  BY <1>2, <1>3, <1>11, <1>20, Zenon

(* How a call leaves things: d delivered, r replied, f a fault.            *)
Handled(msgs, cut, d, r, f) ==
  /\ cut = <<>> => ~ f /\ d = Deliveries(msgs) /\ r = Answers(msgs)
  /\ cut # <<>> =>
       LET whole == SubSeq(msgs, 1, Len(msgs) - 1)
           last == msgs[Len(msgs)]
       IN \/ d = Deliveries(whole)
          \/ /\ Leaders(msgs) = Len(msgs)
             /\ SubSeq(d, 1, Len(d) - 1) = Deliveries(whole)
             /\ d[Len(d)].topic = last.topic
             /\ IsPrefix(d[Len(d)].data, last.data)

(* Another message than a PUBLISH ends the call, and so does a topic that  *)
(* is cut off.                                                             *)
LEMMA EndsHandled ==
  ASSUME NEW msgs \in Seq(Messages), NEW cut, NEW p, NEW m, NEW d, NEW r,
         At(m, msgs, cut, p, d, r), NEW r2, NEW f,
         \/ /\ msgs[m + 1].type # PUBLISH /\ ~ f
            /\ cut # <<>> \/ r2 = Upto(Answering(msgs), m + 1)
         \/ m + 1 = Len(msgs) /\ cut # <<>>
  PROVE  Handled(msgs, cut, d, r2, f)
<1>1. m \in Nat /\ m < Len(msgs) /\ Leads(msgs, m) /\ d = Delivering(msgs, m)
  BY Zenon DEF At
<1>2. CASE cut = <<>>
  <2>1. msgs[m + 1].type # PUBLISH /\ ~ f /\ r2 = Upto(Answering(msgs), m + 1)
    BY <1>2, Zenon
  <2>2. Deliveries(msgs) = Delivering(msgs, m) /\ Answers(msgs) = Upto(Answering(msgs), m + 1)
    BY <1>1, <2>1, SomeLead, Zenon
  <2>3. QED
    BY <1>1, <1>2, <2>1, <2>2, Zenon DEF Handled
<1>3. CASE cut # <<>>
  <2>1. msgs[m + 1].type # PUBLISH \/ m + 1 = Len(msgs)
    BY Zenon
  <2>2. Deliveries(SubSeq(msgs, 1, Len(msgs) - 1)) = Delivering(msgs, m)
    BY <1>1, <2>1, WholeLead, Zenon
  <2>3. QED
    BY <1>1, <1>3, <2>2, Zenon DEF Handled
<1>4. QED
  BY <1>2, <1>3, Zenon

LEMMA Appended ==
  ASSUME NEW f, NEW m \in Nat, NEW x, NEW d, d = [k \in 1..m |-> f[k]]
  PROVE  /\ Append(d, x) = [k \in 1..m + 1 |-> IF k = m + 1 THEN x ELSE f[k]]
         /\ Len(Append(d, x)) = m + 1 /\ Append(d, x)[m + 1] = x
         /\ SubSeq(Append(d, x), 1, m) = d
<1> DEFINE T == {f[k] : k \in 1..m} \cup {x}
<1>1. x \in T /\ \A k \in 1..m : f[k] \in T
  BY Zenon
<1> HIDE DEF T
<1>2. d \in Seq(T) /\ Len(d) = m
  <2>1. d \in [1..m -> T]
    BY <1>1, Zenon
  <2>2. QED
    BY <2>1
<1>3. PICK e : e = Append(d, x)
  BY Zenon
<1>4. e \in Seq(T) /\ Len(e) = m + 1 /\ (\A k \in 1..m : e[k] = d[k]) /\ e[m + 1] = x
  BY <1>1, <1>2, <1>3, AppendProperties
<1>5. \A k \in 1..m : e[k] = f[k]
  BY <1>4, Zenon
<1>6. e = [k \in 1..m + 1 |-> e[k]]
  BY <1>4
<1>7. \A k \in 1..m + 1 : k = m + 1 \/ k \in 1..m
  OBVIOUS
<1>8. \A k \in 1..m + 1 : e[k] = IF k = m + 1 THEN x ELSE f[k]
  BY <1>4, <1>5, <1>7, Zenon
<1>9. e = [k \in 1..m + 1 |-> IF k = m + 1 THEN x ELSE f[k]]
  BY <1>6, <1>8, Zenon
<1>10. SubSeq(e, 1, m) = d
  <2>1. PICK s : s = SubSeq(e, 1, m)
    BY Zenon
  <2>2. \A k \in 1..m : e[k] \in T /\ d[k] = f[k]
    BY <1>1, <1>5, Zenon
  <2>3. 1 \in Int /\ m \in Int
    OBVIOUS
  <2>4. Taken(T, e, 1, m, s)
    BY <2>1, <2>2, <2>3, SubSeqIs
  <2>5. /\ s \in Seq(T) /\ Len(s) = IF 1 <= m THEN m - 1 + 1 ELSE 0
        /\ \A k \in 1..m - 1 + 1 : s[k] = e[1 + k - 1]
    BY <2>4, Zenon DEF Taken
  <2>6. /\ (IF 1 <= m THEN m - 1 + 1 ELSE 0) = m /\ m - 1 + 1 = m
        /\ \A k \in 1..m : 1 + k - 1 = k
    OBVIOUS
  <2>7. Len(s) = m /\ \A k \in 1..m : s[k] = d[k]
    BY <1>5, <2>2, <2>5, <2>6, Zenon
  <2>8. s = d
    BY <1>2, <2>5, <2>7, SeqEqual, Zenon
  <2>9. QED
    BY <2>1, <2>8, Zenon
<1>11. QED
  BY <1>3, <1>4, <1>9, <1>10, Zenon
LEMMA RepliesTyped ==
  ASSUME NEW msg \in Messages
  PROVE  Replies(msg.type, msg.qos, msg.id) \in Seq([type : Nat, id : Nat])
<1>1. msg.id \in Nat
  BY MessageIs, Zenon
<1>2. \A type \in Nat, id \in Nat : <<Reply(type, id)>> \in Seq([type : Nat, id : Nat])
  BY DEF Reply
<1>3. <<>> \in Seq([type : Nat, id : Nat])
  OBVIOUS
<1>4. PICK i, rs : i = msg.id /\ rs = Replies(msg.type, msg.qos, i)
  BY Zenon
<1>5. PICK a, rc, l, o, q :
        /\ a = <<Reply(PUBACK, i)>> /\ rc = <<Reply(PUBREC, i)>> /\ l = <<Reply(PUBREL, i)>>
        /\ o = <<Reply(PUBCOMP, i)>> /\ q = <<Reply(PINGRESP, 0)>>
  BY Zenon
<1>6. rs \in {a, rc, l, o, q, <<>>}
  BY <1>4, <1>5 DEF Replies
<1>7. /\ PUBACK \in Nat /\ PUBREC \in Nat /\ PUBREL \in Nat /\ PUBCOMP \in Nat
      /\ PINGRESP \in Nat /\ 0 \in Nat
  BY DEF PUBACK, PUBREC, PUBREL, PUBCOMP, PINGRESP
<1>8. i \in Nat
  BY <1>1, <1>4, Zenon
<1>9. PICK S : S = Seq([type : Nat, id : Nat])
  BY Zenon
<1>10. a \in S /\ rc \in S /\ l \in S
  BY <1>2, <1>5, <1>7, <1>8, <1>9, Zenon
<1>11. o \in S /\ q \in S /\ <<>> \in S
  BY <1>2, <1>3, <1>5, <1>7, <1>8, <1>9, Zenon
<1>12. rs \in S
  BY <1>6, <1>10, <1>11, Zenon
<1>13. QED
  BY <1>4, <1>9, <1>12, Zenon

LEMMA Answered ==
  ASSUME NEW msgs \in Seq(Messages), NEW m \in Nat, m < Len(msgs)
  PROVE  LET msg == msgs[m + 1]
         IN Upto(Answering(msgs), m + 1)
              = Upto(Answering(msgs), m) \o Replies(msg.type, msg.qos, msg.id)
<1>1. PICK n \in Nat : n = Len(msgs) /\ DOMAIN msgs = 1..n /\ \A k \in 1..n : msgs[k] \in Messages
  OBVIOUS
<1>2. PICK rs : rs = Answering(msgs)
  BY Zenon
<1>3. \A k \in 1..n : rs[k] = Replies(msgs[k].type, msgs[k].qos, msgs[k].id)
  BY <1>1, <1>2, Zenon DEF Answering
<1>4. \A k \in 1..n : rs[k] \in Seq([type : Nat, id : Nat])
  BY <1>1, <1>3, RepliesTyped, Zenon
<1>5. \A i \in 0..n-1 : Upto(rs, i + 1) = Upto(rs, i) \o rs[i + 1]
  BY <1>4, UptoSteps
<1>6. m \in 0..n-1 /\ m + 1 \in 1..n
  BY <1>1
<1>7. QED
  BY <1>2, <1>3, <1>5, <1>6, Zenon

Delivery(msg) == [topic |-> msg.topic, data |-> msg.data]

LEMMA MovesOn ==
  ASSUME NEW msgs \in Seq(Messages), NEW cut, NEW p, NEW m, NEW d, NEW r,
         At(m, msgs, cut, p, d, r), msgs[m + 1].type = PUBLISH
  PROVE  /\ Leads(msgs, m + 1)
         /\ Append(d, Delivery(msgs[m + 1])) = Delivering(msgs, m + 1)
<1>1. m \in Nat /\ Leads(msgs, m) /\ d = Delivering(msgs, m)
  BY Zenon DEF At
<1>2. \A k \in 1..m + 1 : k \in 1..m \/ k = m + 1
  BY <1>1
<1>3. Leads(msgs, m + 1)
  BY <1>1, <1>2, Zenon DEF Leads
<1> DEFINE f == [k \in 1..m + 1 |-> Delivery(msgs[k])]
<1>4. m + 1 \in 1..m + 1 /\ \A k \in 1..m : k \in 1..m + 1
  BY <1>1
<1>5. d = [k \in 1..m |-> f[k]]
  BY <1>1, <1>4, Zenon DEF Delivering, Delivery
<1>6. f[m + 1] = Delivery(msgs[m + 1])
  BY <1>4, Zenon
<1>7. f = Delivering(msgs, m + 1)
  BY Zenon DEF Delivering, Delivery
<1>8. f = [k \in 1..m + 1 |-> f[k]]
  OBVIOUS
<1> HIDE DEF f
<1>9. Append(d, f[m + 1]) = [k \in 1..m + 1 |-> IF k = m + 1 THEN f[m + 1] ELSE f[k]]
  BY <1>1, <1>5, Appended
<1>10. [k \in 1..m + 1 |-> IF k = m + 1 THEN f[m + 1] ELSE f[k]] = [k \in 1..m + 1 |-> f[k]]
  BY Zenon
<1>11. QED
  BY <1>3, <1>6, <1>7, <1>8, <1>9, <1>10, Zenon

(* The text of length l read from e on and the same one without its first tw *)
(* bytes end at the same place.                                            *)
Shifted(e, e1, l, tw, s, c) == e1 = e + tw /\ e + l = s - c
Ending(e, e1, l, tw, s, c) ==
  e1 + (l - tw) = s - c /\ \A i \in 1..l - tw : e + (tw + i) = e1 + i

LEMMA SameEnd ==
  \A e, e1, l, tw, s, c \in Nat : Shifted(e, e1, l, tw, s, c) => Ending(e, e1, l, tw, s, c)
BY DEF Shifted, Ending

(* A whole PUBLISH with another message behind it.                         *)
LEMMA PublishGoesOn ==
  ASSUME NEW msgs \in Seq(Messages), NEW cut \in Seq(Byte), NEW p \in Seq(Byte), NEW m, NEW d,
         NEW r, At(m, msgs, cut, p, d, r), msgs[m + 1].type = PUBLISH,
         m + 1 < Len(msgs),
         NEW tw \in Nat, tw = Len(Wire(msgs[m + 1])), tw < Len(p),
         NEW q, q = SubSeq(p, tw + 1, Len(p)),
         NEW d2, d2 = Append(d, Delivery(msgs[m + 1])),
         NEW r2, r2 = Upto(Answering(msgs), m + 1)
  PROVE  q \in Seq(Byte) /\ At(m + 1, msgs, cut, q, d2, r2)
<1>1. /\ m \in Nat /\ m < Len(msgs)
      /\ Len(p) >= 1 /\ End(msgs, m) + Len(p) = Len(Stream(msgs)) - Len(cut)
      /\ \A i \in 1..Len(p) : p[i] = Stream(msgs)[End(msgs, m) + i]
  BY Zenon DEF At
<1>2. PICK l \in Nat, c \in Nat, k \in Nat : l = Len(p) /\ c = Len(cut) /\ k = Len(msgs)
  <2>1. Len(msgs) \in Nat /\ Len(p) \in Nat /\ Len(cut) \in Nat
    OBVIOUS
  <2>2. QED
    BY <2>1, Zenon
<1>3. tw < l /\ m < k
  BY <1>1, <1>2, Zenon
<1>4. /\ tw + 1 \in Int /\ l \in Int /\ tw + 1 <= l /\ l - (tw + 1) + 1 = l - tw /\ l - tw \in Nat
      /\ l - tw >= 1 /\ \A i \in tw+1..l : i \in 1..l
      /\ \A i \in 1..l - tw : (tw + 1) + i - 1 = tw + i /\ tw + i \in 1..l
  BY <1>3
<1>5. \A i \in tw+1..l : p[i] \in Byte
  BY <1>2, <1>4, ElementOfSeq
<1>6. Taken(Byte, p, tw + 1, l, q)
  BY <1>2, <1>4, <1>5, SubSeqIs
<1>7. q \in Seq(Byte) /\ Len(q) = l - tw /\ \A i \in 1..l - tw : q[i] = p[tw + i]
  <2>1. /\ q \in Seq(Byte) /\ Len(q) = IF tw + 1 <= l THEN l - (tw + 1) + 1 ELSE 0
        /\ \A i \in 1..l - (tw + 1) + 1 : q[i] = p[(tw + 1) + i - 1]
    BY <1>6, Zenon DEF Taken
  <2>2. Len(q) = l - tw
    BY <1>4, <2>1, Zenon
  <2>3. ASSUME NEW i \in 1..l - tw PROVE q[i] = p[tw + i]
    <3>1. i \in 1..l - (tw + 1) + 1 /\ (tw + 1) + i - 1 = tw + i
      BY <1>4, Zenon
    <3>2. QED
      BY <2>1, <3>1, Zenon
  <2>4. QED
    BY <2>1, <2>2, <2>3, Zenon
<1>8. m \in 0..k-1 /\ m \in 0..k /\ m + 1 \in 0..k /\ m + 1 \in Nat
  BY <1>1, <1>3
<1>9. PICK e \in Nat, e1 \in Nat, s \in Nat :
        e = End(msgs, m) /\ e1 = End(msgs, m + 1) /\ s = Len(Stream(msgs)) /\ e1 = e + tw
  <2>1. /\ End(msgs, m) \in Nat /\ End(msgs, m + 1) \in Nat
        /\ Stream(msgs) \in Seq(Byte)
        /\ End(msgs, m + 1) = End(msgs, m) + Len(Wire(msgs[m + 1]))
    BY <1>2, <1>8, OnStream, Zenon DEF OnWire
  <2>2. Len(Stream(msgs)) \in Nat
    BY <2>1
  <2>3. QED
    BY <2>1, <2>2, Zenon
<1>10. e + l = s - c
  BY <1>1, <1>2, <1>9, Zenon
<1>11. e1 + (l - tw) = s - c /\ \A i \in 1..l - tw : e + (tw + i) = e1 + i
  <2>1. e1 = e + tw
    BY <1>9, Zenon
  <2>2. Shifted(e, e1, l, tw, s, c)
    BY <1>10, <2>1, Zenon DEF Shifted
  <2>3. Ending(e, e1, l, tw, s, c)
    BY <2>2, SameEnd, Zenon
  <2>4. QED
    BY <2>3, Zenon DEF Ending
<1>12. \A i \in 1..Len(q) : q[i] = Stream(msgs)[End(msgs, m + 1) + i]
  <2>1. ASSUME NEW i \in 1..l - tw PROVE q[i] = Stream(msgs)[e1 + i]
    <3>1. q[i] = p[tw + i] /\ tw + i \in 1..l /\ e + (tw + i) = e1 + i
      BY <1>4, <1>7, <1>11, Zenon
    <3>2. p[tw + i] = Stream(msgs)[e + (tw + i)]
      BY <1>1, <1>2, <1>9, <3>1, Zenon
    <3>3. QED
      BY <3>1, <3>2, Zenon
  <2>2. QED
    BY <1>7, <1>9, <2>1, Zenon
<1>13. End(msgs, m + 1) + Len(q) = Len(Stream(msgs)) - Len(cut) /\ Len(q) >= 1
  BY <1>2, <1>4, <1>7, <1>9, <1>11, Zenon
<1>14. Leads(msgs, m + 1) /\ d2 = Delivering(msgs, m + 1)
  BY MovesOn, Zenon
<1>15. QED
  BY <1>7, <1>8, <1>12, <1>13, <1>14, Zenon DEF At

(* The last one, whole or cut off.                                         *)
LEMMA PublishEnds ==
  ASSUME NEW msgs \in Seq(Messages), NEW cut, NEW p, NEW m, NEW d,
         NEW r, At(m, msgs, cut, p, d, r), msgs[m + 1].type = PUBLISH,
         m + 1 = Len(msgs), NEW topic, NEW data, topic = msgs[m + 1].topic,
         IsPrefix(data, msgs[m + 1].data), cut = <<>> => data = msgs[m + 1].data,
         NEW d2, d2 = Append(d, [topic |-> topic, data |-> data]),
         NEW r2, cut = <<>> => r2 = Upto(Answering(msgs), m + 1), NEW f, ~ f
  PROVE  Handled(msgs, cut, d2, r2, f)
<1>1. m \in Nat /\ m < Len(msgs) /\ Leads(msgs, m) /\ d = Delivering(msgs, m)
  BY Zenon DEF At
<1>2. Leads(msgs, Len(msgs))
  BY MovesOn, Zenon
<1>3. /\ Leaders(msgs) = Len(msgs)
      /\ Deliveries(msgs) = Delivering(msgs, Len(msgs))
      /\ Answers(msgs) = Upto(Answering(msgs), Len(msgs))
  BY <1>2, AllLead, Zenon
<1>4. CASE cut = <<>>
  <2>1. d2 = Append(d, Delivery(msgs[m + 1]))
    BY <1>4, Zenon DEF Delivery
  <2>2. d2 = Delivering(msgs, m + 1)
    BY <2>1, MovesOn, Zenon
  <2>3. QED
    BY <1>3, <1>4, <2>2, Zenon DEF Handled
<1>5. CASE cut # <<>>
  <2>1. Deliveries(SubSeq(msgs, 1, Len(msgs) - 1)) = Delivering(msgs, m)
    BY <1>1, WholeLead, Zenon
  <2>2. PICK x : x = [topic |-> topic, data |-> data]
    BY Zenon
  <2>3. PICK g : d = [k \in 1..m |-> g[k]]
    <3>1. d = [k \in 1..m |-> d[k]]
      BY <1>1, Zenon DEF Delivering
    <3>2. QED
      BY <3>1, Zenon
  <2>4. Len(d2) = m + 1 /\ d2[m + 1] = x /\ SubSeq(d2, 1, m) = d
    <3>1. Len(Append(d, x)) = m + 1 /\ Append(d, x)[m + 1] = x /\ SubSeq(Append(d, x), 1, m) = d
      BY <1>1, <2>3, Appended
    <3>2. QED
      BY <2>2, <3>1, Zenon
  <2>5. (m + 1) - 1 = m
    BY <1>1
  <2>6. SubSeq(d2, 1, Len(d2) - 1) = d /\ d2[Len(d2)] = x
    BY <2>4, <2>5, Zenon
  <2>7. x.topic = topic /\ x.data = data
    BY <2>2
  <2>8. QED
    BY <1>1, <1>3, <1>5, <2>1, <2>6, <2>7, Zenon DEF Handled
<1>6. QED
  BY <1>4, <1>5, Zenon
-----------------------------------------------------------------------------
(* A pass of the loop on any bytes: the length they announce is a number.  *)

(* One function that satisfies the equation of Sevens, built from its end. *)
SevensFrom(b, n, k, g) ==
  g = [i \in n+1-k..n+1 |-> IF i > n THEN 0 ELSE (b[i + 1] % 128) + 128 * g[i + 1]]

LEMMA SevensExist ==
  ASSUME NEW b, NEW n \in Nat
  PROVE  \E w : SumsSevens(b, n, w)
<1> DEFINE S == {k \in Nat : k <= n => \E g : SevensFrom(b, n, k, g)}
<1>1. 0 \in S
  <2> DEFINE w == [i \in n+1-0..n+1 |-> 0]
  <2>1. \A i \in n+1-0..n+1 : i > n
    OBVIOUS
  <2>2. SevensFrom(b, n, 0, w)
    BY <2>1 DEF SevensFrom
  <2>3. QED
    BY <2>2
<1>2. \A k \in Nat : k \in S => k + 1 \in S
  <2>1. SUFFICES ASSUME NEW k \in Nat, k \in S, k + 1 <= n
                 PROVE  \E g : SevensFrom(b, n, k + 1, g)
    OBVIOUS
  <2>2. PICK g : SevensFrom(b, n, k, g)
    BY <2>1
  <2>3. PICK m \in Nat, e \in Nat : m = n - k /\ e = n + 1
    BY <2>1
  <2>4. /\ n + 1 - k = m + 1 /\ n + 1 - (k + 1) = m /\ m <= n /\ m + 1 <= e
    BY <2>1, <2>3
  <2>5. g = [i \in m+1..e |-> IF i > n THEN 0 ELSE (b[i + 1] % 128) + 128 * g[i + 1]]
    BY <2>2, <2>3, <2>4, Zenon DEF SevensFrom
  <2> DEFINE h == [i \in m..e |-> IF i = m THEN (b[m + 1] % 128) + 128 * g[m + 1] ELSE g[i]]
  <2>6. \A i \in m..e : (i = m /\ ~ (i > n)) \/ (i # m /\ i \in m+1..e)
    BY <2>4
  <2>7. \A i \in m..n : i + 1 \in m..e /\ i + 1 # m
    BY <2>3, <2>4
  <2>8. \A i \in m..e : i > n \/ i \in m..n
    BY <2>3
  <2>9. m \in m..e /\ \A i \in m..e : i = m => h[i] = (b[i + 1] % 128) + 128 * g[i + 1]
    BY <2>4
  <2>10. \A i \in m+1..e : i \in m..e /\ i # m /\ h[i] = g[i]
    BY <2>4
  <2>11. \A i \in m..n : h[i + 1] = g[i + 1]
    BY <2>7
  <2> HIDE DEF h
  <2>12. ASSUME NEW i \in m..e
         PROVE  h[i] = IF i > n THEN 0 ELSE (b[i + 1] % 128) + 128 * h[i + 1]
    <3>1. CASE i = m
      BY <2>6, <2>8, <2>9, <2>11, <3>1
    <3>2. CASE i # m
      <4>1. i \in m+1..e /\ h[i] = g[i]
        BY <2>6, <2>10, <3>2, Zenon
      <4>2. g[i] = IF i > n THEN 0 ELSE (b[i + 1] % 128) + 128 * g[i + 1]
        BY <2>5, <4>1, Zenon
      <4>3. i > n \/ h[i + 1] = g[i + 1]
        BY <2>8, <2>11, Zenon
      <4>4. QED
        BY <4>1, <4>2, <4>3, Zenon
    <3>3. QED
      BY <3>1, <3>2
  <2>13. h = [i \in m..e |-> h[i]]
    BY Zenon DEF h
  <2>14. h = [i \in m..e |-> IF i > n THEN 0 ELSE (b[i + 1] % 128) + 128 * h[i + 1]]
    BY <2>12, <2>13, Zenon
  <2>15. SevensFrom(b, n, k + 1, h)
    BY <2>3, <2>4, <2>14, Zenon DEF SevensFrom
  <2>16. QED
    BY <2>15, Zenon
<1> HIDE DEF S
<1>3. n \in S
  BY <1>1, <1>2, Induct
<1>4. PICK g : SevensFrom(b, n, n, g)
  BY <1>3 DEF S
<1>5. n + 1 - n = 1
  OBVIOUS
<1>6. QED
  BY <1>4, <1>5 DEF SevensFrom, SumsSevens

LEMMA SevensNat ==
  ASSUME NEW b, NEW n \in Nat, \A i \in 1..n : b[i + 1] \in Nat
  PROVE  Sevens(b, n) \in Nat
<1>1. PICK f : SumsSevens(b, n, f) /\ Sevens(b, n) = f[1]
  BY SevensExist, SevensUnfolded, Zenon
<1> DEFINE S == {k \in Nat : k <= n => f[n + 1 - k] \in Nat}
<1>2. 0 \in S
  <2>1. n + 1 - 0 \in 1..n+1 /\ n + 1 - 0 > n
    OBVIOUS
  <2>2. f[n + 1 - 0] = 0
    BY <1>1, <2>1 DEF SumsSevens
  <2>3. QED
    BY <2>2
<1>3. \A k \in Nat : k \in S => k + 1 \in S
  <2>1. SUFFICES ASSUME NEW k \in Nat, k \in S, k + 1 <= n
                 PROVE  f[n + 1 - (k + 1)] \in Nat
    OBVIOUS
  <2>2. PICK m \in Nat : m = n - k
    BY <2>1
  <2>3. n + 1 - (k + 1) = m /\ n + 1 - k = m + 1 /\ m \in 1..n /\ m \in 1..n+1 /\ ~ (m > n)
    BY <2>1, <2>2
  <2>4. f[m] = (b[m + 1] % 128) + 128 * f[m + 1]
    BY <1>1, <2>3 DEF SumsSevens
  <2>5. f[m + 1] \in Nat /\ b[m + 1] \in Nat
    BY <2>1, <2>3
  <2>6. (b[m + 1] % 128) + 128 * f[m + 1] \in Nat
    BY <2>5
  <2>7. QED
    BY <2>3, <2>4, <2>6
<1> HIDE DEF S
<1>4. n \in S
  BY <1>2, <1>3, Induct
<1>5. f[n + 1 - n] \in Nat
  BY <1>4 DEF S
<1>6. n + 1 - n = 1
  OBVIOUS
<1>7. QED
  BY <1>1, <1>5, <1>6, Zenon

(* The header ends within what there is, and the length it announces is a  *)
(* number.                                                                 *)
LEMMA HeaderIn ==
  ASSUME NEW b, NEW l \in Nat \ {0}
  PROVE  HeaderEnd(b, l) \in 1..l
<1> DEFINE ends == {i \in 1..l-1 : b[i + 1] < 128}
<1>1. ends \in SUBSET Nat /\ \A i \in ends : i \in 1..l-1
  OBVIOUS
<1>2. HeaderEnd(b, l) = IF ends = {} THEN Max({1, l}) ELSE Min(ends) + 1
  BY Zenon DEF HeaderEnd
<1> HIDE DEF ends
<1>3. CASE ends = {}
  <2> DEFINE S == {1, l}
  <2>1. S \subseteq Int /\ l \in S /\ \A x \in S : l >= x
    OBVIOUS
  <2> HIDE DEF S
  <2>2. Max(S) = l
    BY <2>1, MaxOf
  <2>3. Max({1, l}) = l
    BY <2>2 DEF S
  <2>4. QED
    BY <1>2, <1>3, <2>3
<1>4. CASE ends # {}
  <2>1. PICK x \in ends : \A y \in ends : x <= y
    BY <1>1, <1>4, LeastNat
  <2>2. ends \subseteq Int
    BY <1>1
  <2>3. Min(ends) = x
    BY <2>1, <2>2, MinOf
  <2>4. x \in 1..l-1
    BY <1>1
  <2>5. QED
    BY <1>2, <1>4, <2>3, <2>4
<1>5. QED
  BY <1>3, <1>4

LEMMA TotalTyped ==
  ASSUME NEW b, NEW l \in Nat \ {0}, \A i \in 1..l : b[i] \in Nat
  PROVE  mqtt_get_total_length(b, l) \in Nat
<1>1. PICK e \in 1..l : e = HeaderEnd(b, l)
  BY HeaderIn
<1>2. e - 1 \in Nat /\ \A i \in 1..e-1 : i + 1 \in 1..l
  BY <1>1
<1>3. Sevens(b, e - 1) \in Nat
  <2>1. \A i \in 1..e-1 : b[i + 1] \in Nat
    BY <1>2
  <2>2. QED
    BY <1>2, <2>1, SevensNat
<1>4. mqtt_get_total_length(b, l) = Sevens(b, e - 1) + e
  BY <1>1, Zenon DEF mqtt_get_total_length, RemainingLength
<1>5. QED
  BY <1>3, <1>4

(* What is left of the segment after a pass that goes on.                  *)
LEMMA PassGoesOn ==
  ASSUME pdata \in Seq(Byte), ReadPacket, busy'
  PROVE  \E total \in TotalLengths(in_buffer', Len(pdata)), t \in Nat :
           /\ t = total % LengthWord /\ t < Len(pdata)
           /\ pdata' \in Seq(Byte) /\ Len(pdata') = Len(pdata) - t
<1>1. PICK l \in Nat : l = Len(pdata)
  OBVIOUS
<1>2. PICK N \in Nat : N = MQTT_BUF_SIZE
  BY RecvAssumption
<1>3. l \in 1..N-1 /\ l \in Nat \ {0}
  BY <1>1, <1>2 DEF ReadPacket, Accepted
<1>4. PICK b : b = Copied /\ b = in_buffer'
  BY Zenon DEF ReadPacket
<1>5. \A i \in 1..l : b[i] \in Nat
  <2>1. SUFFICES ASSUME NEW i \in 1..l PROVE b[i] \in Nat
    OBVIOUS
  <2>2. i \in 1..N /\ i <= l
    BY <1>3
  <2>3. b[i] = pdata[i]
    BY <1>1, <1>2, <1>4, <2>2, Zenon DEF Copied
  <2>4. pdata[i] \in Byte
    BY <1>1, ElementOfSeq
  <2>5. \A x \in Byte : x \in Nat
    BY DEF Byte
  <2>6. QED
    BY <2>3, <2>4, <2>5, Zenon
<1>6. PICK W \in Nat \ {0} : W = LengthWord
  BY RecvAssumption
<1>7. TotalLengths(b, l) \subseteq Int
  <2>1. mqtt_get_total_length(b, l) \in Nat
    BY <1>3, <1>5, TotalTyped
  <2>2. PICK R : R = -W..2*W-1
    BY Zenon
  <2>3. R \subseteq Int
    BY <2>2
  <2>4. TotalLengths(b, l) = {mqtt_get_total_length(b, l)} \/ TotalLengths(b, l) = R
    BY <1>6, <2>2, Zenon DEF TotalLengths
  <2>5. {mqtt_get_total_length(b, l)} \subseteq Int
    BY <2>1
  <2>6. CASE TotalLengths(b, l) = R
    BY <2>3, <2>6
  <2>7. CASE TotalLengths(b, l) = {mqtt_get_total_length(b, l)}
    BY <2>5, <2>7
  <2>8. QED
    BY <2>4, <2>6, <2>7, Zenon
<1>8. PICK total \in TotalLengths(b, l) : GoesOn(total % LengthWord)
  BY <1>1, <1>4, Zenon DEF ReadPacket, Delivers, Ends
<1>9. PICK t \in Nat : t = total % LengthWord
  <2>1. total % W \in Nat
    BY <1>7
  <2>2. QED
    BY <1>6, <2>1, Zenon
<1>10. t < l /\ pdata' = SubSeq(pdata, t + 1, l)
  BY <1>1, <1>8, <1>9, Zenon DEF GoesOn, Ends
<1>11. /\ t + 1 \in Int /\ l \in Int /\ t + 1 <= l /\ l - (t + 1) + 1 = l - t
       /\ \A i \in t+1..l : i \in 1..l
  BY <1>10
<1>12. \A i \in t+1..l : pdata[i] \in Byte
  BY <1>1, <1>11, ElementOfSeq
<1>13. Taken(Byte, pdata, t + 1, l, pdata')
  BY <1>10, <1>11, <1>12, SubSeqIs
<1>14. pdata' \in Seq(Byte) /\ Len(pdata') = l - t
  BY <1>11, <1>13, Zenon DEF Taken
<1>15. QED
  BY <1>1, <1>4, <1>8, <1>9, <1>10, <1>14, Zenon
-----------------------------------------------------------------------------
(* While a call on a segment that begins with a message runs, what is left *)
(* of the segment begins with one of its messages; when it has returned,   *)
(* what it did is what the properties say.                                 *)
Begun == wasInSession /\ aligned /\ (missing # <<>> => LastFits)
Judged == Begun /\ Size \in 1..MQTT_BUF_SIZE-1

RecvInv ==
  /\ sent \in Seq(Messages) /\ missing \in Seq(Byte) /\ CutIsLast(sent, missing)
  /\ pdata \in Seq(Byte)
  /\ aligned => Rest(sent, missing)
  /\ busy => ~ faulted /\ inSession = wasInSession
  /\ busy /\ Begun => \E m : At(m, sent, missing, pdata, delivered, replies)
  /\ ~ busy /\ Judged => Handled(sent, missing, delivered, replies, faulted)

LEMMA RecvInvSays == RecvInv => WholeSegmentHandled /\ CutOnlyShortens
BY Zenon DEF RecvInv, Judged, Begun, Handled, WholeSegmentHandled, CutOnlyShortens, Returned

LEMMA NothingSent ==
  /\ <<>> \in Seq(Messages) /\ <<>> \in Seq(Byte) /\ Len(<<>>) = 0
  /\ Len(Stream(<<>>)) = 0 /\ CutIsLast(<<>>, <<>>) /\ Rest(<<>>, <<>>)
<1>1. <<>> \in Seq(Messages) /\ <<>> \in Seq(Byte) /\ Len(<<>>) = 0
  OBVIOUS
<1>2. End(<<>>, 0) = 0 /\ End(<<>>, 0) = Len(Stream(<<>>))
  BY <1>1, OnStream, Zenon
<1>3. Rest(<<>>, <<>>)
  BY DEF Rest
<1>4. QED
  BY <1>1, <1>2, <1>3, Zenon DEF CutIsLast

LEMMA RecvInvStart == RecvInit => RecvInv
<1>1. SUFFICES ASSUME RecvInit PROVE RecvInv
  OBVIOUS
<1>2. sent = <<>> /\ missing = <<>> /\ pdata = <<>> /\ ~ busy
  <2>1. sent = <<>> /\ missing = <<>> /\ pdata = <<>>
    BY <1>1, Zenon DEF RecvInit
  <2>2. ~ busy
    BY <1>1, Zenon DEF RecvInit
  <2>3. QED
    BY <2>1, <2>2, Zenon
<1>3. Size = 0 - 0
  BY <1>2, NothingSent, Zenon DEF Size
<1>4. Size \notin 1..MQTT_BUF_SIZE-1
  BY <1>3
<1>5. QED
  BY <1>2, <1>4, NothingSent, Zenon DEF RecvInv, Judged

(* A segment: the whole of it is left, and nothing is handled yet.         *)
LEMMA SegmentStep ==
  ASSUME RecvInv, Segment
  PROVE  RecvInv'
<1>1. missing \in Seq(Byte) /\ ~ busy /\ ~ faulted
  BY Zenon DEF RecvInv, Segment
<1>2. PICK msgs \in SeqOf(Messages, MaxMessages) :
        LET bytes == missing \o Stream(msgs)
            least == IF msgs = <<>> THEN 1
                     ELSE Len(bytes) - Len(Wire(msgs[Len(msgs)])) + 1
        IN \E k \in least..Min({Len(bytes), MaxSegment}) :
             /\ pdata' = SubSeq(bytes, 1, k)
             /\ missing' = SubSeq(bytes, k + 1, Len(bytes))
             /\ sent' = msgs
  BY Zenon DEF Segment
<1>3. msgs \in Seq(Messages)
  <2>1. PICK j \in 0..MaxMessages : msgs \in [1..j -> Messages]
    BY Zenon DEF SeqOf
  <2>2. j \in Nat
    BY <2>1
  <2>3. QED
    BY <2>1, <2>2
<1>4. PICK n \in Nat : n = Len(msgs)
  BY <1>3
<1>5. PICK bytes, lw, most :
        /\ bytes = missing \o Stream(msgs) /\ lw = Len(Wire(msgs[Len(msgs)]))
        /\ most = Min({Len(bytes), MaxSegment})
  BY Zenon
<1>6. PICK least : least = IF msgs = <<>> THEN 1 ELSE Len(bytes) - lw + 1
  BY Zenon
<1>7. PICK k \in least..most :
        /\ pdata' = SubSeq(bytes, 1, k)
        /\ missing' = SubSeq(bytes, k + 1, Len(bytes))
        /\ sent' = msgs
  BY <1>2, <1>5, <1>6, Zenon
<1>8. Stream(msgs) \in Seq(Byte) /\ End(msgs, 0) = 0 /\ End(msgs, n) = Len(Stream(msgs))
  BY <1>3, <1>4, OnStream, Zenon
<1>9. bytes \in Seq(Byte)
  BY <1>1, <1>5, <1>8, Joined, Zenon
<1>10. PICK l \in Nat : l = Len(bytes)
  BY <1>9
<1>11. n # 0 => lw \in Nat /\ lw <= l
  <2>1. SUFFICES ASSUME n # 0 PROVE lw \in Nat /\ lw <= l
    OBVIOUS
  <2>2. n \in 1..n /\ n - 1 \in 0..n-1 /\ n - 1 \in 0..n /\ (n - 1) + 1 = n
    BY <2>1
  <2>3. msgs[n] \in Messages
    BY <1>3, <1>4, <2>2, StreamIs, Zenon
  <2>4. lw \in Nat
    BY <1>4, <1>5, <2>3, WireLen, Zenon
  <2>5. End(msgs, n - 1) \in Nat /\ End(msgs, n) = End(msgs, n - 1) + lw
    BY <1>3, <1>4, <1>5, <2>2, OnStream, Zenon DEF OnWire
  <2>6. PICK a \in Nat, c \in Nat, z \in Nat :
          a = Len(missing) /\ c = End(msgs, n - 1) /\ z = Len(Stream(msgs)) /\ l = a + z
    <3>1. Len(missing) \in Nat /\ Len(Stream(msgs)) \in Nat
      BY <1>1, <1>8
    <3>2. Len(bytes) = Len(missing) + Len(Stream(msgs))
      BY <1>1, <1>5, <1>8, Joined, Zenon
    <3>3. QED
      BY <1>10, <2>5, <3>1, <3>2, Zenon
  <2>7. PICK w \in Nat : w = lw
    BY <2>4, Zenon
  <2>8. z = c + w
    BY <1>8, <2>5, <2>6, <2>7, Zenon
  <2>9. l = a + z
    BY <2>6, Zenon
  <2>10. w <= l
    BY <2>8, <2>9
  <2>11. QED
    BY <2>4, <2>7, <2>10, Zenon
<1>12. n = 0 <=> msgs = <<>>
  BY <1>3, <1>4, EmptySeq
<1>13. k \in 1..l /\ (n # 0 => k > l - lw)
  <2>1. most <= l /\ most \in Nat
    <3>1. PICK x \in Nat : x = MaxSegment
      BY RecvAssumption
    <3>2. PICK y : y = IF l <= x THEN l ELSE x
      BY Zenon
    <3> DEFINE S == {l, x}
    <3>3. S \subseteq Int /\ y \in S /\ (\A z \in S : y <= z) /\ y \in Nat /\ y <= l
      BY <3>2
    <3> HIDE DEF S
    <3>4. Min(S) = y
      BY <3>3, MinOf
    <3>5. most = Min(S)
      BY <1>5, <1>10, <3>1, Zenon DEF S
    <3>6. QED
      BY <3>3, <3>4, <3>5, Zenon
  <2>2. CASE n = 0
    <3>1. k \in 1..most
      BY <1>6, <1>7, <1>12, <2>2, Zenon
    <3>2. QED
      BY <2>1, <2>2, <3>1
  <2>3. CASE n # 0
    <3>1. k \in l - lw + 1..most
      BY <1>6, <1>7, <1>10, <1>12, <2>3, Zenon
    <3>2. QED
      BY <1>11, <2>1, <2>3, <3>1
  <2>4. QED
    BY <2>2, <2>3, Zenon
<1>14. PICK p, c : p = SubSeq(bytes, 1, k) /\ c = SubSeq(bytes, k + 1, l)
  BY Zenon
<1>15. Taken(Byte, bytes, 1, k, p) /\ Taken(Byte, bytes, k + 1, l, c)
  <2>1. \A i \in 1..k : bytes[i] \in Byte
    BY <1>9, <1>10, <1>13, ElementOfSeq
  <2>2. \A i \in k+1..l : bytes[i] \in Byte
    BY <1>9, <1>10, <1>13, ElementOfSeq
  <2>3. 1 \in Int /\ k \in Int /\ k + 1 \in Int /\ l \in Int
    BY <1>13
  <2>4. QED
    BY <1>14, <2>1, <2>2, <2>3, SubSeqIs
<1>16. /\ p \in Seq(Byte) /\ c \in Seq(Byte) /\ Len(p) = k /\ Len(c) = l - k
       /\ \A i \in 1..k : p[i] = bytes[i]
  <2>1. /\ (IF 1 <= k THEN k - 1 + 1 ELSE 0) = k /\ k - 1 + 1 = k
        /\ (IF k + 1 <= l THEN l - (k + 1) + 1 ELSE 0) = l - k
        /\ \A i \in 1..k : 1 + i - 1 = i
    BY <1>13
  <2>2. QED
    BY <1>15, <2>1, Zenon DEF Taken
<1>17. CutIsLast(msgs, c)
  <2>1. SUFFICES ASSUME n # 0 PROVE Len(c) < lw
    BY <1>5, <1>12, Zenon DEF CutIsLast
  <2>2. l - k < lw
    BY <1>11, <1>13, <2>1
  <2>3. QED
    BY <1>16, <2>2, Zenon
<1>18. /\ sent' = msgs /\ missing' = c /\ pdata' = p /\ busy' = TRUE /\ faulted' = faulted
       /\ inSession' = inSession /\ wasInSession' = inSession
       /\ aligned' = (missing = <<>>) /\ delivered' = <<>> /\ replies' = <<>>
  BY <1>7, <1>10, <1>14, Zenon DEF Segment
<1>19. aligned' => At(0, msgs, c, p, <<>>, <<>>)
  <2>1. SUFFICES ASSUME missing = <<>> PROVE At(0, msgs, c, p, <<>>, <<>>)
    BY <1>18, Zenon
  <2>2. bytes = Stream(msgs)
    BY <1>5, <1>8, <2>1, ConcatEmptySeq, Zenon
  <2>3. PICK s \in Nat : s = Len(Stream(msgs)) /\ s = l
    BY <1>10, <2>2, Zenon
  <2>4. n # 0
    <3>1. n = 0 => l = 0
      BY <1>8, <2>3, Zenon
    <3>2. QED
      BY <1>13, <3>1
  <2>5. 0 < n /\ 0 \in Nat /\ k >= 1 /\ 0 + k = l - (l - k) /\ \A i \in 1..k : 0 + i = i
    BY <1>13, <2>4
  <2>6. \A i \in 1..0 : FALSE
    OBVIOUS
  <2>7. Leads(msgs, 0)
    BY <2>6, Zenon DEF Leads
  <2>8. <<>> = Delivering(msgs, 0)
    <3>1. [i \in 1..0 |-> [topic |-> msgs[i].topic, data |-> msgs[i].data]] = <<>>
      BY <2>6
    <3>2. QED
      BY <3>1, Zenon DEF Delivering
  <2>9. <<>> = Upto(Answering(msgs), 0)
    <3>1. PICK rs : rs = Answering(msgs)
      BY Zenon
    <3>2. \A i \in 1..0 : rs[i] \in Seq(Nat)
      BY <2>6, Zenon
    <3>3. Upto(rs, 0) = <<>>
      BY <3>2, UptoSteps
    <3>4. QED
      BY <3>1, <3>3, Zenon
  <2>10. \A i \in 1..k : p[i] = Stream(msgs)[0 + i]
    BY <1>16, <2>2, <2>5, Zenon
  <2>11. QED
    BY <1>4, <1>8, <1>16, <2>3, <2>5, <2>7, <2>8, <2>9, <2>10, Zenon DEF At
<1>20. Begun' => \E m : At(m, sent', missing', pdata', delivered', replies')
  BY <1>18, <1>19, Zenon DEF Begun
<1>21. aligned' => Rest(sent', missing')
  <2>1. SUFFICES ASSUME missing = <<>> PROVE Rest(msgs, c)
    BY <1>18, Zenon
  <2>2. bytes = Stream(msgs)
    BY <1>5, <1>8, <2>1, ConcatEmptySeq, Zenon
  <2>3. PICK j \in Nat : j = l - k
    BY <1>13
  <2>4. /\ l - (k + 1) + 1 = j /\ l - j = k
        /\ \A i \in 1..j : (k + 1) + i - 1 = k + i
    BY <1>13, <2>3
  <2>5. \A i \in 1..l - (k + 1) + 1 : c[i] = bytes[(k + 1) + i - 1]
    BY <1>15, Zenon DEF Taken
  <2>6. \A i \in 1..j : c[i] = bytes[(l - j) + i]
    BY <2>4, <2>5, Zenon
  <2>7. QED
    BY <1>10, <1>16, <2>2, <2>3, <2>6, Zenon DEF Rest
<1>22. QED
  BY <1>1, <1>3, <1>16, <1>17, <1>18, <1>20, <1>21, Zenon DEF RecvInv
(* A pass of the loop on a segment that begins with a message.             *)
LEMMA BegunPass ==
  ASSUME RecvInv, Begun, ReadPacket, UNCHANGED <<sent, missing>>
  PROVE  /\ busy' => /\ ~ faulted' /\ Len(pdata') < Len(pdata)
                     /\ \E m : At(m, sent, missing, pdata', delivered', replies')
         /\ ~ busy' => Handled(sent, missing, delivered', replies', faulted')
<1>1. /\ busy /\ Accepted /\ ~ faulted
      /\ sent \in Seq(Messages) /\ missing \in Seq(Byte) /\ CutIsLast(sent, missing)
      /\ pdata \in Seq(Byte) /\ \E m : At(m, sent, missing, pdata, delivered, replies)
  BY Zenon DEF RecvInv, ReadPacket
<1>2. PICK m : At(m, sent, missing, pdata, delivered, replies)
  BY <1>1, Zenon
<1>3. PICK l \in Nat : l = Len(pdata)
  BY <1>1
<1>4. PICK N \in Nat : N = MQTT_BUF_SIZE
  BY RecvAssumption
<1>5. N > l
  BY <1>1, <1>3, <1>4 DEF Accepted
<1>6. PICK b : b = Copied
  BY Zenon
<1>7. \A i \in 1..l : b[i] = pdata[i]
  <2>1. \A i \in 1..l : i \in 1..N /\ i <= l
    BY <1>5
  <2>2. QED
    BY <1>3, <1>4, <1>6, <2>1, Zenon DEF Copied
<1>8. PICK msg : msg = sent[m + 1]
  BY Zenon
<1>9. PICK tw : tw = Len(Wire(msg))
  BY Zenon
<1>10. /\ msg \in Messages /\ tw \in Nat
       /\ \E n \in Nat : StandsIn(m, sent, missing, l, tw, n) /\ Seen(b, Wire(msg), l, n)
  <2>1. \A i \in 1..Len(pdata) : b[i] = pdata[i]
    BY <1>3, <1>7, Zenon
  <2>2. /\ sent[m + 1] \in Messages /\ Len(pdata) \in Nat /\ Len(Wire(sent[m + 1])) \in Nat
        /\ \E n \in Nat : /\ StandsIn(m, sent, missing, Len(pdata), Len(Wire(sent[m + 1])), n)
                          /\ Seen(b, Wire(sent[m + 1]), Len(pdata), n)
    BY <1>1, <1>2, <2>1, Placing
  <2>3. QED
    BY <1>3, <1>8, <1>9, <2>2, Zenon
<1>11. PICK n \in Nat : StandsIn(m, sent, missing, l, tw, n) /\ Seen(b, Wire(msg), l, n)
  BY <1>10, Zenon
<1>12. /\ l < tw => n = l /\ m + 1 = Len(sent) /\ missing # <<>>
       /\ tw <= l => n = tw
       /\ l = tw => m + 1 = Len(sent) /\ missing = <<>>
       /\ tw < l => m + 1 < Len(sent)
  BY <1>11, Zenon DEF StandsIn
<1>13. (l < tw \/ tw <= l) /\ (l < tw \/ l = tw \/ tw < l) /\ (l = tw => tw <= l)
       /\ (tw < l => tw <= l)
  BY <1>10
<1>14. mqtt_get_type(b) = msg.type
  BY <1>10, <1>11, HeadSeen, Zenon
<1>15. tw <= l => replies' = Upto(Answering(sent), m + 1)
  <2>1. SUFFICES ASSUME tw <= l PROVE replies' = Upto(Answering(sent), m + 1)
    OBVIOUS
  <2>2. Seen(b, Wire(msg), l, Len(Wire(msg)))
    BY <1>9, <1>11, <1>12, <2>1, Zenon
  <2>3. Replies(mqtt_get_type(b), mqtt_get_qos(b), mqtt_get_id(b, N))
          = Replies(msg.type, msg.qos, msg.id)
    BY <1>5, <1>10, <2>2, IdSeen, Zenon
  <2>4. replies' = replies \o Replies(msg.type, msg.qos, msg.id)
    BY <1>4, <1>6, <2>3, Zenon DEF ReadPacket
  <2>5. m \in Nat /\ m < Len(sent) /\ replies = Upto(Answering(sent), m)
    BY <1>2, Zenon DEF At
  <2>6. QED
    BY <1>1, <1>8, <2>4, <2>5, Answered, Zenon
<1>16. CASE msg.type # PUBLISH
  <2>1. ~ busy' /\ faulted' = faulted /\ delivered' = delivered
    BY <1>6, <1>14, <1>16, Zenon DEF ReadPacket, Ends
  <2>2. missing # <<>> \/ replies' = Upto(Answering(sent), m + 1)
    BY <1>12, <1>13, <1>15, Zenon
  <2>3. Handled(sent, missing, delivered, replies', faulted)
    BY <1>1, <1>2, <1>8, <1>16, <2>2, EndsHandled, Zenon
  <2>4. QED
    BY <2>1, <2>3, Zenon
<1>17. CASE msg.type = PUBLISH
  <2>1. PICK h \in 2..5, lt \in Nat \ {0}, li \in Nat, ld \in Nat :
          PublishOn(msg, Wire(msg), h, lt, li, ld)
    BY <1>10, <1>17, PublishWire, Zenon
  <2>2. PICK topic, data :
          topic = mqtt_get_publish_topic(b, l) /\ data = PublishData(b, l, tw)
    BY Zenon
  <2>3. /\ ~ topic.null => /\ topic.bytes = msg.topic
                           /\ l > h + 2 /\ h + 2 + lt <= n /\ At16(b, h) = lt
        /\ n = Len(Wire(msg)) => ~ topic.null
    BY <1>10, <1>11, <1>17, <2>1, <2>2, TopicSeen
  <2>4. Delivers(b)
    BY <1>6, <1>14, <1>17, Zenon DEF ReadPacket
  <2>5. CASE topic.null
    <3>1. ~ busy' /\ delivered' = delivered
      BY <1>3, <2>2, <2>4, <2>5, Zenon DEF Delivers, Ends
    <3>2. m + 1 = Len(sent) /\ missing # <<>>
      BY <1>9, <1>12, <1>13, <2>3, <2>5, Zenon
    <3>3. Handled(sent, missing, delivered, replies', faulted')
      BY <1>1, <1>2, <3>2, EndsHandled, Zenon
    <3>4. QED
      BY <3>1, <3>3, Zenon
  <2>6. CASE ~ topic.null
    <3>1. /\ IsPrefix(data.bytes, msg.data)
          /\ n = Len(Wire(msg)) => data.bytes = msg.data
      <4>1. data = PublishData(b, l, Len(Wire(msg)))
        BY <1>9, <2>2, Zenon
      <4>2. QED
        BY <1>10, <1>11, <1>17, <2>1, <2>3, <2>6, <4>1, DataSeen
    <3>2. TotalLengths(b, l) = {tw}
      <4>1. h = HeadLen(msg)
        BY <2>1, Zenon DEF PublishOn
      <4>2. l >= h
        BY <2>3, <2>6
      <4>3. HeaderEnd(b, l) = h /\ mqtt_get_total_length(b, l) = Len(Wire(msg))
        BY <1>10, <1>11, <4>1, <4>2, LengthSeen
      <4>4. h <= 5
        OBVIOUS
      <4>5. QED
        BY <1>9, <4>3, <4>4, Zenon DEF TotalLengths
    <3>3. tw % LengthWord = tw
      <4>1. PICK W \in Nat : W = LengthWord /\ N < W
        BY <1>4, RecvAssumption
      <4>2. tw < W
        <5>1. CASE tw <= l
          BY <1>5, <1>10, <4>1, <5>1
        <5>2. CASE l < tw
          <6>1. m + 1 = Len(sent) /\ LastFits
            BY <1>12, <5>2, Zenon DEF Begun
          <6>2. sent # <<>>
            <7>1. m \in Nat /\ m < Len(sent)
              BY <1>2, Zenon DEF At
            <7>2. Len(sent) # 0
              BY <7>1
            <7>3. QED
              BY <7>2, NothingSent, Zenon
          <6>3. Len(Wire(sent[m + 1])) < W
            BY <4>1, <6>1, <6>2, Zenon DEF LastFits
          <6>4. QED
            BY <1>8, <1>9, <6>3, Zenon
        <5>3. QED
          BY <1>13, <5>1, <5>2, Zenon
      <4>3. tw % W = tw
        BY <1>10, <4>2
      <4>4. QED
        BY <4>1, <4>3, Zenon
    <3>4. /\ delivered' = Append(delivered, [topic |-> topic.bytes, data |-> data.bytes])
          /\ GoesOn(tw) /\ faulted' = faulted
      <4>1. PICK total \in TotalLengths(b, l) :
              /\ delivered' = Append(delivered, [topic |-> topic.bytes,
                                                data |-> PublishData(b, l, total).bytes])
              /\ GoesOn(total % LengthWord)
              /\ UNCHANGED faulted
        BY <1>3, <2>2, <2>4, <2>6, Zenon DEF Delivers
      <4>2. total = tw
        BY <3>2, <4>1, Zenon
      <4>3. QED
        BY <2>2, <3>3, <4>1, <4>2, Zenon
    <3>5. CASE tw < l
      <4>1. tw <= l /\ m + 1 < Len(sent) /\ n = tw
        BY <1>12, <1>13, <3>5, Zenon
      <4>2. replies' = Upto(Answering(sent), m + 1)
        BY <1>15, <4>1, Zenon
      <4>3. delivered' = Append(delivered, Delivery(sent[m + 1]))
        BY <1>8, <1>9, <2>3, <2>6, <3>1, <3>4, <4>1, Zenon DEF Delivery
      <4>4. pdata' = SubSeq(pdata, tw + 1, Len(pdata)) /\ busy' = busy
        BY <1>3, <3>4, <3>5, Zenon DEF GoesOn
      <4>5. pdata' \in Seq(Byte) /\ At(m + 1, sent, missing, pdata', delivered', replies')
        <5>1. tw = Len(Wire(sent[m + 1])) /\ tw < Len(pdata) /\ sent[m + 1].type = PUBLISH
          BY <1>3, <1>8, <1>9, <1>17, <3>5, Zenon
        <5>2. QED
          BY <1>1, <1>2, <1>10, <4>1, <4>2, <4>3, <4>4, <5>1, PublishGoesOn
      <4>6. Len(pdata') < Len(pdata)
        <5>1. tw > 0 /\ l - tw < l /\ tw + 1 \in Int /\ l \in Int /\ l - (tw + 1) + 1 = l - tw
              /\ tw + 1 <= l /\ \A i \in tw+1..l : i \in 1..l
          <6>1. tw \in Nat /\ tw >= 1
            BY <1>9, <1>10, WireLen, Zenon
          <6>2. QED
            BY <3>5, <6>1
        <5>2. \A i \in tw+1..l : pdata[i] \in Byte
          BY <1>1, <1>3, <5>1, ElementOfSeq
        <5>3. Taken(Byte, pdata, tw + 1, l, pdata')
          BY <1>3, <4>4, <5>1, <5>2, SubSeqIs
        <5>4. Len(pdata') = l - tw
          BY <5>1, <5>3, Zenon DEF Taken
        <5>5. QED
          BY <1>3, <5>1, <5>4, Zenon
      <4>7. QED
        BY <1>1, <3>4, <4>4, <4>5, <4>6, Zenon
    <3>6. CASE ~ (tw < l)
      <4>1. ~ busy'
        BY <1>3, <3>4, <3>6, Zenon DEF GoesOn, Ends
      <4>2. m + 1 = Len(sent) /\ (missing = <<>> => l = tw /\ n = tw)
        BY <1>12, <1>13, <3>6, Zenon
      <4>3. missing = <<>> => replies' = Upto(Answering(sent), m + 1)
        BY <1>13, <1>15, <4>2, Zenon
      <4>4. Handled(sent, missing, delivered', replies', faulted')
        <5>1. /\ sent[m + 1].type = PUBLISH /\ topic.bytes = sent[m + 1].topic
              /\ IsPrefix(data.bytes, sent[m + 1].data)
              /\ missing = <<>> => data.bytes = sent[m + 1].data
          BY <1>8, <1>9, <1>17, <2>3, <2>6, <3>1, <4>2, Zenon
        <5>2. ~ faulted'
          BY <1>1, <3>4, Zenon
        <5>3. QED
          BY <1>1, <1>2, <3>4, <4>2, <4>3, <5>1, <5>2, PublishEnds
      <4>5. QED
        BY <4>1, <4>4, Zenon
    <3>7. QED
      BY <3>5, <3>6, Zenon
  <2>7. QED
    BY <2>5, <2>6, Zenon
<1>18. QED
  BY <1>16, <1>17, Zenon

LEMMA CallStep ==
  ASSUME RecvInv, mqtt_tcpclient_recv
  PROVE  RecvInv'
<1>1. /\ sent \in Seq(Messages) /\ missing \in Seq(Byte) /\ CutIsLast(sent, missing)
      /\ sent' = sent /\ missing' = missing /\ aligned' = aligned
      /\ wasInSession' = wasInSession
      /\ aligned' => Rest(sent', missing')
  BY Zenon DEF RecvInv, mqtt_tcpclient_recv
<1>2. (Judged' <=> Judged) /\ (Begun' <=> Begun)
  BY <1>1, Zenon DEF Judged, Begun, Size, LastFits
<1>3. CASE TooLong
  <2>1. ~ busy' /\ pdata' = <<>> /\ busy /\ ~ Accepted
    BY <1>3, Zenon DEF TooLong, Ends
  <2>2. ~ Judged
    <3>1. SUFFICES ASSUME Judged PROVE FALSE
      OBVIOUS
    <3>2. /\ pdata \in Seq(Byte) /\ \E m : At(m, sent, missing, pdata, delivered, replies)
          /\ Size \in 1..MQTT_BUF_SIZE-1
      BY <2>1, <3>1, Zenon DEF RecvInv, Judged, Begun
    <3>3. PICK m : At(m, sent, missing, pdata, delivered, replies)
      BY <3>2, Zenon
    <3>4. PICK l \in Nat, k \in Nat : l = Len(pdata) /\ k = Len(sent)
      <4>1. Len(pdata) \in Nat /\ Len(sent) \in Nat
        BY <1>1, <3>2
      <4>2. QED
        BY <4>1, Zenon
    <3>5. m \in Nat /\ m < k /\ l >= 1 /\ End(sent, m) + l = Size
      BY <3>3, <3>4, Zenon DEF At, Size
    <3>6. m \in 0..k
      BY <3>5
    <3>7. PICK e \in Nat : e = End(sent, m)
      BY <1>1, <3>4, <3>6, OnStream, Zenon
    <3>8. e + l \in 1..MQTT_BUF_SIZE-1
      BY <3>2, <3>5, <3>7, Zenon
    <3>9. l \in 1..MQTT_BUF_SIZE-1
      BY <3>5, <3>8, RecvAssumption
    <3>10. QED
      BY <2>1, <3>4, <3>9, Zenon DEF Accepted
  <2>3. QED
    BY <1>1, <1>2, <2>1, <2>2, NothingSent, Zenon DEF RecvInv
<1>4. CASE ReadPacketConnecting
  <2>1. ~ busy' /\ pdata' = <<>> /\ busy /\ ~ inSession
    BY <1>4, Zenon DEF ReadPacketConnecting, Ends
  <2>2. ~ wasInSession
    BY <2>1, Zenon DEF RecvInv
  <2>3. ~ Judged
    BY <2>2, Zenon DEF Judged, Begun
  <2>4. QED
    BY <1>1, <1>2, <2>1, <2>3, NothingSent, Zenon DEF RecvInv
<1>5. CASE ReadPacket
  <2>1. busy /\ inSession' = inSession /\ inSession = wasInSession /\ ~ faulted
    BY <1>5, Zenon DEF ReadPacket, RecvInv
  <2>2. pdata' \in Seq(Byte)
    <3>1. CASE busy'
      BY <1>5, <3>1, PassGoesOn, Zenon DEF RecvInv
    <3>2. CASE ~ busy'
      <4>1. pdata' = <<>>
        BY <1>5, <2>1, <3>2, Zenon DEF ReadPacket, Delivers, GoesOn, Ends
      <4>2. QED
        BY <4>1, NothingSent, Zenon
    <3>3. QED
      BY <3>1, <3>2, Zenon
  <2>3. CASE Begun
    <3>1. /\ busy' => /\ ~ faulted'
                      /\ \E m : At(m, sent, missing, pdata', delivered', replies')
          /\ ~ busy' => Handled(sent, missing, delivered', replies', faulted')
      BY <1>1, <1>5, <2>3, BegunPass, Zenon
    <3>2. QED
      BY <1>1, <2>1, <2>2, <3>1, Zenon DEF RecvInv
  <2>4. CASE ~ Begun
    <3>1. busy' => faulted' = faulted
      BY <1>5, Zenon DEF ReadPacket, Delivers, Ends
    <3>2. busy' => ~ faulted' /\ inSession' = wasInSession'
      BY <1>1, <2>1, <3>1, Zenon
    <3>3. ~ Begun' /\ ~ Judged'
      BY <1>2, <2>4, Zenon DEF Judged
    <3>4. QED
      BY <1>1, <2>2, <3>2, <3>3, Zenon DEF RecvInv
  <2>5. QED
    BY <2>3, <2>4, Zenon
<1>6. QED
  BY <1>3, <1>4, <1>5, Zenon DEF mqtt_tcpclient_recv

LEMMA RecvInvStep == RecvInv /\ [RecvNext]_recvVars => RecvInv'
<1>1. SUFFICES ASSUME RecvInv, [RecvNext]_recvVars PROVE RecvInv'
  OBVIOUS
<1>2. CASE Segment
  BY <1>1, <1>2, SegmentStep, Zenon
<1>3. CASE Restart
  <2>1. /\ ~ busy /\ busy' = busy /\ ~ wasInSession' /\ sent' = <<>> /\ missing' = <<>>
        /\ pdata' = pdata
    BY <1>3, Zenon DEF Restart
  <2>2. ~ Begun' /\ ~ Judged'
    BY <2>1, Zenon DEF Judged, Begun
  <2>3. QED
    BY <1>1, <2>1, <2>2, NothingSent, Zenon DEF RecvInv
<1>4. CASE mqtt_tcpclient_recv
  BY <1>1, <1>4, CallStep, Zenon
<1>5. CASE UNCHANGED recvVars
  <2>1. /\ sent' = sent /\ missing' = missing /\ pdata' = pdata /\ busy' = busy
        /\ faulted' = faulted /\ inSession' = inSession /\ wasInSession' = wasInSession
        /\ aligned' = aligned /\ delivered' = delivered /\ replies' = replies
    BY <1>5, Zenon DEF recvVars
  <2>2. (Judged' <=> Judged) /\ (Begun' <=> Begun)
    BY <2>1, Zenon DEF Judged, Begun, Size, LastFits
  <2>3. /\ sent' \in Seq(Messages) /\ missing' \in Seq(Byte) /\ CutIsLast(sent', missing')
        /\ pdata' \in Seq(Byte)
        /\ aligned' => Rest(sent', missing')
        /\ busy' => ~ faulted' /\ inSession' = wasInSession'
    BY <1>1, <2>1, Zenon DEF RecvInv
  <2>4. busy' /\ Begun' => \E m : At(m, sent', missing', pdata', delivered', replies')
    BY <1>1, <2>1, <2>2, Zenon DEF RecvInv
  <2>5. ~ busy' /\ Judged' => Handled(sent', missing', delivered', replies', faulted')
    BY <1>1, <2>1, <2>2, Zenon DEF RecvInv
  <2>6. QED
    BY <2>3, <2>4, <2>5, Zenon DEF RecvInv
<1>6. QED
  BY <1>1, <1>2, <1>3, <1>4, <1>5, Zenon DEF RecvNext

LEMMA RecvInvAlways == RecvSpec => []RecvInv
BY RecvInvStart, RecvInvStep, PTL DEF RecvSpec

THEOREM WholeSegmentsHandled == RecvSpec => []WholeSegmentHandled
BY RecvInvAlways, RecvInvSays, PTL

THEOREM CutsOnlyShorten == RecvSpec => []CutOnlyShortens
BY RecvInvAlways, RecvInvSays, PTL

(* What a pass does to the rest of the segment.                            *)
Shrinks == Len(pdata') < Len(pdata)
AnnouncesNothing == \E total \in TotalLengths(in_buffer', Len(pdata)) : total % LengthWord = 0
GoesDown == Shrinks \/ (AnnouncesNothing /\ ~ (aligned /\ LastFits))

LEMMA PassShrinks ==
  ASSUME RecvInv, RecvNext, busy, busy'
  PROVE  GoesDown
<1>1. ReadPacket /\ UNCHANGED <<sent, missing>>
  BY Zenon DEF RecvNext, Segment, Restart, mqtt_tcpclient_recv, TooLong, ReadPacketConnecting, Ends
<1>2. CASE aligned /\ LastFits
  <2>1. Begun
    BY <1>1, <1>2, Zenon DEF Begun, RecvInv, ReadPacket
  <2>2. QED
    BY <1>1, <2>1, BegunPass, Zenon DEF Shrinks, GoesDown
<1>3. CASE ~ (aligned /\ LastFits)
  <2>1. pdata \in Seq(Byte)
    BY Zenon DEF RecvInv
  <2>2. PICK total \in TotalLengths(in_buffer', Len(pdata)), t \in Nat :
          t = total % LengthWord /\ Len(pdata') = Len(pdata) - t
    BY <1>1, <2>1, PassGoesOn, Zenon
  <2>3. Len(pdata) \in Nat
    BY <2>1
  <2>4. t = 0 \/ Len(pdata') < Len(pdata)
    BY <2>2, <2>3
  <2>5. QED
    BY <1>3, <2>2, <2>4, Zenon DEF Shrinks, AnnouncesNothing, GoesDown
<1>4. QED
  BY <1>2, <1>3, Zenon

TakesOne == pdata' \o missing = Stream(SubSeq(sent, Len(delivered') + 1, Len(sent)))

LEMMA PassTakesOne ==
  ASSUME RecvInv, RecvNext, busy, busy', aligned, LastFits
  PROVE  TakesOne
<1>1. ReadPacket /\ UNCHANGED <<sent, missing>>
  BY Zenon DEF RecvNext, Segment, Restart, mqtt_tcpclient_recv, TooLong, ReadPacketConnecting, Ends
<1>2. Begun
  BY <1>1, Zenon DEF Begun, RecvInv, ReadPacket
<1>3. /\ sent \in Seq(Messages) /\ missing \in Seq(Byte) /\ pdata \in Seq(Byte)
      /\ Rest(sent, missing)
  BY Zenon DEF RecvInv
<1>4. PICK m : At(m, sent, missing, pdata', delivered', replies')
  BY <1>1, <1>2, BegunPass, Zenon
<1>5. pdata' \in Seq(Byte)
  BY <1>1, <1>3, PassGoesOn, Zenon
<1>6. Len(delivered') = m
  <2>1. m \in Nat /\ delivered' = Delivering(sent, m)
    BY <1>4, Zenon DEF At
  <2>2. DOMAIN delivered' = 1..m
    BY <2>1, Zenon DEF Delivering
  <2>3. QED
    BY <2>1 DEF Delivering
<1>7. pdata' \o missing = Stream(SubSeq(sent, m + 1, Len(sent)))
  BY <1>3, <1>4, <1>5, LeftIs
<1>8. QED
  BY <1>6, <1>7, Zenon DEF TakesOne

(* On a segment that begins with a message, for any number and any lengths *)
(* of the messages as long as message_length can hold that of the last, a  *)
(* pass that goes on takes up one message and no more (mqtt.c:343-356).    *)
THEOREM PassesTakeMessages == RecvSpec => PassTakesOneMessage
<1>1. RecvInv /\ [RecvNext]_recvVars => [busy /\ busy' /\ aligned /\ LastFits => TakesOne]_recvVars
  BY PassTakesOne, Zenon
<1>2. RecvSpec => [][busy /\ busy' /\ aligned /\ LastFits => TakesOne]_recvVars
  BY <1>1, RecvInvAlways, PTL DEF RecvSpec
<1>3. QED
  BY <1>2 DEF PassTakesOneMessage, TakesOne

(* A pass of the READPACKET loop that goes on (mqtt.c:343-356) leaves      *)
(* fewer bytes of the segment, whatever they are, unless the length they   *)
(* announce may be 0 in a uint16_t; and this is never so where the segment *)
(* begins with a message and message_length can hold the last one's.       *)
THEOREM LoopEnds == RecvSpec => [][busy /\ busy' => GoesDown]_recvVars
<1>1. RecvInv /\ [RecvNext]_recvVars => [busy /\ busy' => GoesDown]_recvVars
  BY PassShrinks, Zenon
<1>2. QED
  BY <1>1, RecvInvAlways, PTL DEF RecvSpec
=============================================================================
