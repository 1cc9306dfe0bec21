-------------------------- MODULE FrameQueueProofs --------------------------
(***************************************************************************)
(* The framing invariant of the outbound queue, and that it implements     *)
(* LossyQueue, for every set of packets, every ring size and every         *)
(* interleaving of calls that give up half way.                            *)
(***************************************************************************)
EXTENDS FrameQueue, SequenceTheorems, TLAPS

Inv == TypeOK /\ FrameAligned

(* The types a packet brings along.                                        *)
LEMMA PacketType ==
  ASSUME TypeOK
  PROVE  /\ packet \in Seq(Byte)
         /\ Len(packet) \in Nat
         /\ i \in Nat /\ i >= 1
         /\ i <= Len(packet) => packet[i] \in Byte
<1>1. packet \in Seq(Byte) /\ i \in 1..Len(packet)+1
  BY FrameAssumption DEF TypeOK
<1>2. QED
  BY <1>1

(* v XOR 0x20 is a byte, and takes each marker to a byte that is none.     *)
LEMMA FlipByte ==
  /\ \A v \in Byte : Flip(v) \in Byte
  /\ \A v \in Byte : IsSpecial(v) => ~IsSpecial(Flip(v))
  BY DEF Flip, Byte, IsSpecial, EscMark, BeginMark, EndMark

(* One byte more in the ring keeps the frames apart, unless it is put      *)
(* behind an end marker and is no begin marker.                            *)
LEMMA AppendAligned ==
  ASSUME NEW r \in Seq(Byte), NEW v \in Byte,
         \A k \in 1..Len(r)-1 : r[k] = EndMark => r[k+1] = BeginMark,
         r = <<>> \/ r[Len(r)] # EndMark \/ v = BeginMark
  PROVE  LET s == Append(r, v)
         IN  /\ s \in Seq(Byte)
             /\ s # <<>> /\ Len(s) = Len(r) + 1 /\ s[Len(s)] = v
             /\ r # <<>> => s[1] = r[1]
             /\ r = <<>> => s[1] = v
             /\ \A k \in 1..Len(s)-1 : s[k] = EndMark => s[k+1] = BeginMark
<1> DEFINE s == Append(r, v)
<1>1. /\ s \in Seq(Byte)
      /\ Len(s) = Len(r) + 1 /\ s[Len(s)] = v
      /\ \A k \in 1..Len(r) : s[k] = r[k]
      /\ Len(r) \in Nat
  OBVIOUS
<1>2. s # <<>>
  BY <1>1
<1>3. (r # <<>> => s[1] = r[1]) /\ (r = <<>> => s[1] = v)
  BY <1>1
<1>4. ASSUME NEW k \in 1..Len(s)-1, s[k] = EndMark PROVE s[k+1] = BeginMark
  <2>1. CASE k < Len(r)
    BY <1>1, <1>4, <2>1
  <2>2. CASE k = Len(r)
    BY <1>1, <1>4, <2>2
  <2>3. QED
    BY <1>1, <2>1, <2>2
<1>5. QED
  BY <1>1, <1>2, <1>3, <1>4

(* Dropping the first byte keeps the frames apart.                         *)
LEMMA TailAligned ==
  ASSUME NEW r \in Seq(Byte), r # <<>>,
         \A k \in 1..Len(r)-1 : r[k] = EndMark => r[k+1] = BeginMark
  PROVE  LET s == Tail(r)
         IN  /\ s \in Seq(Byte) /\ Len(s) = Len(r) - 1
             /\ Head(r) = r[1] /\ Head(r) \in Byte
             /\ s # <<>> /\ r[1] = EndMark => s[1] = BeginMark
             /\ \A k \in 1..Len(s)-1 : s[k] = EndMark => s[k+1] = BeginMark
<1> DEFINE s == Tail(r)
<1>1. /\ s \in Seq(Byte) /\ Len(s) = Len(r) - 1
      /\ Head(r) = r[1] /\ Head(r) \in Byte
      /\ \A k \in 1..Len(s) : s[k] = r[k+1]
      /\ Len(r) \in Nat /\ Len(r) >= 1
  BY HeadTailProperties
<1>2. ASSUME s # <<>>, r[1] = EndMark PROVE s[1] = BeginMark
  <2>1. Len(s) >= 1
    BY <1>1, <1>2
  <2>2. QED
    BY <1>1, <1>2, <2>1
<1>3. ASSUME NEW k \in 1..Len(s)-1, s[k] = EndMark PROVE s[k+1] = BeginMark
  <2>1. s[k] = r[k+1] /\ s[k+1] = r[k+2]
    BY <1>1
  <2>2. QED
    BY <1>1, <1>3, <2>1
<1>4. QED
  BY <1>1, <1>2, <1>3

(* PROTO_ParseByte keeps the parser's type, and keeps or sets isBegin      *)
(* unless it sees an end marker.                                           *)
LEMMA ParseByteType ==
  ASSUME TypeOK, NEW v \in Byte
  PROVE  LET st == PROTO_ParseByte(parser, v)
         IN  /\ st \in [isBegin : BOOLEAN, isEsc : BOOLEAN, buf : Seq(Byte)]
             /\ Len(st.buf) <= MaxLen
             /\ v # EndMark /\ (parser.isBegin \/ v = BeginMark) => st.isBegin
<1>1. /\ parser \in [isBegin : BOOLEAN, isEsc : BOOLEAN, buf : Seq(Byte)]
      /\ Len(parser.buf) <= MaxLen /\ MaxLen \in Nat
      /\ Flip(v) \in Byte
  BY FlipByte, FrameAssumption DEF TypeOK
<1>2. CASE v = EscMark
  <2>1. PROTO_ParseByte(parser, v) = [parser EXCEPT !.isEsc = TRUE]
    BY <1>2 DEF PROTO_ParseByte, EscMark, BeginMark, EndMark
  <2>2. v # BeginMark
    BY <1>2 DEF EscMark, BeginMark
  <2>3. QED
    BY <1>1, <2>1, <2>2
<1>3. CASE v = BeginMark
  <2>1. PROTO_ParseByte(parser, v) =
          [isBegin |-> TRUE, isEsc |-> FALSE, buf |-> <<>>]
    BY <1>3 DEF PROTO_ParseByte, EscMark, BeginMark, EndMark
  <2>2. <<>> \in Seq(Byte) /\ Len(<<>>) <= MaxLen
    BY <1>1
  <2>3. QED
    BY <2>1, <2>2
<1>4. CASE v = EndMark
  <2>1. PROTO_ParseByte(parser, v) = [parser EXCEPT !.isBegin = FALSE]
    BY <1>4 DEF PROTO_ParseByte, EscMark, BeginMark, EndMark
  <2>2. QED
    BY <1>1, <1>4, <2>1
<1>5. CASE v \notin {EscMark, BeginMark, EndMark} /\ ~parser.isBegin
  BY <1>1, <1>5 DEF PROTO_ParseByte
<1>6. CASE v \notin {EscMark, BeginMark, EndMark} /\ parser.isBegin
  <2> DEFINE w == IF parser.isEsc THEN Flip(v) ELSE v
             b == IF Len(parser.buf) < MaxLen THEN Append(parser.buf, w)
                                              ELSE parser.buf
  <2>1. PROTO_ParseByte(parser, v) = [parser EXCEPT !.isEsc = FALSE, !.buf = b]
    BY <1>1, <1>6 DEF PROTO_ParseByte
  <2>2. b \in Seq(Byte) /\ Len(b) <= MaxLen
    BY <1>1
  <2> HIDE DEF b
  <2>3. QED
    BY <1>1, <1>6, <2>1, <2>2
<1>7. QED
  BY <1>2, <1>3, <1>4, <1>5, <1>6

(* NoParser and every parser PROTO_Init may leave are parsers.             *)
LEMMA FreshType ==
  /\ NoParser \in [isBegin : BOOLEAN, isEsc : BOOLEAN, buf : Seq(Byte)]
  /\ Len(NoParser.buf) <= MaxLen
  /\ \A st \in FreshParsers :
       /\ st \in [isBegin : BOOLEAN, isEsc : BOOLEAN, buf : Seq(Byte)]
       /\ Len(st.buf) <= MaxLen
<1>1. <<>> \in Seq(Byte) /\ Len(<<>>) <= MaxLen
  BY FrameAssumption
<1>2. QED
  BY <1>1 DEF NoParser, FreshParsers

-----------------------------------------------------------------------------
(* Where a byte of the ring stands: in the frame of the packet src, after  *)
(* done bytes of it, behind an escape mark or not, with n frames completed *)
(* before it.                                                              *)
Place == [n : Nat, src : Packet, done : Nat, esc : BOOLEAN]

\* v is what PROTO_AddRb may put at x.
Fits(v, x) ==
  CASE v = BeginMark -> TRUE
    [] v = EscMark -> ~x.esc /\ x.done < Len(x.src)
    [] v = EndMark -> ~x.esc /\ x.done = Len(x.src)
    [] OTHER -> /\ x.done < Len(x.src)
                /\ x.esc => /\ IsSpecial(x.src[x.done + 1])
                            /\ v = Flip(x.src[x.done + 1])
                /\ ~x.esc => v = x.src[x.done + 1]

\* The place behind v, put at x.
Behind(v, x) ==
  [n |-> IF v = EndMark THEN x.n + 1 ELSE x.n,
   src |-> x.src,
   done |-> IF v = BeginMark THEN 0
            ELSE IF v \in {EscMark, EndMark} THEN x.done ELSE x.done + 1,
   esc |-> v = EscMark]

\* The bytes of the ring r stand at the places t, and its end markers
\* complete the frames of the packets in m.
Framed(r, t, m) ==
  /\ t \in [1..Len(r) -> Place]
  /\ \A k \in 1..Len(r) : Fits(r[k], t[k])
  /\ \A k \in 1..Len(r) :
       r[k] = EndMark => t[k].n < Len(m) /\ m[t[k].n + 1] = t[k].src
  /\ \A k \in 1..Len(r)-1 : r[k+1] # BeginMark => t[k+1] = Behind(r[k], t[k])
  /\ \A j, k \in 1..Len(r) : j < k => Behind(r[j], t[j]).n <= t[k].n
  /\ \A k \in 1..Len(r) : Behind(r[k], t[k]).n <= Len(m)
  /\ r # <<>> => t[1].n = 0 /\ Len(m) = Behind(r[Len(r)], t[Len(r)]).n
  /\ \A k \in 1..Len(r)-1 : t[k+1].n = Behind(r[k], t[k]).n
  /\ r = <<>> => m = <<>>

\* A parser that has read a frame up to the place x.
Reads(st, x) ==
  /\ st.isBegin
  /\ st.isEsc = x.esc
  /\ st.buf = SubSeq(x.src, 1, x.done)

\* Where PROTO_AddRb goes on.
Here == [n |-> Len(mq), src |-> packet, done |-> i - 1, esc |-> pc = "escaped"]

(* What the ring holds of the packets accepted: every byte of it has its   *)
(* place, a read in mid-frame has decoded what came before, and the frame  *)
(* that is being put goes on where its last byte left off.                 *)
Queued ==
  /\ pc = "begin" => i = 1
  /\ \E t \in [1..Len(ring) -> Place] :
       /\ Framed(ring, t, mq)
       /\ ring # <<>> /\ ring[1] # BeginMark => Reads(parser, t[1])
       /\ pc \in {"body", "escaped"} => Behind(ring[Len(ring)], t[Len(ring)]) = Here

(* Where a byte leads to is a place, and only an end marker is counted.    *)
LEMMA BehindPlace ==
  ASSUME NEW v \in Byte, NEW x \in Place
  PROVE  /\ Behind(v, x) \in Place
         /\ Behind(v, x).n = IF v = EndMark THEN x.n + 1 ELSE x.n
<1>1. /\ x.n \in Nat /\ x.done \in Nat /\ x.src \in Packet
      /\ (v = EscMark) \in BOOLEAN
  BY DEF Place
<1>2. QED
  BY <1>1 DEF Behind, Place

(* v XOR 0x20 twice is v, for the three markers.                           *)
LEMMA FlipBack ==
  \A v \in Byte : IsSpecial(v) => Flip(Flip(v)) = v
  BY DEF Flip, Byte, IsSpecial, EscMark, BeginMark, EndMark

(* PROTO_ParseByte undoes PROTO_AddRb: a parser that reads the frame up to *)
(* a place reads it up to the place behind the next byte.                  *)
LEMMA ParseFollows ==
  ASSUME NEW st \in [isBegin : BOOLEAN, isEsc : BOOLEAN, buf : Seq(Byte)],
         NEW v \in Byte, NEW x \in Place, Fits(v, x), v # EndMark,
         v # BeginMark => Reads(st, x)
  PROVE  Reads(PROTO_ParseByte(st, v), Behind(v, x))
<1>0. /\ EscMark # BeginMark /\ EndMark # BeginMark /\ EscMark # EndMark
      /\ x.n \in Nat /\ x.done \in Nat /\ x.src \in Packet /\ x.esc \in BOOLEAN
      /\ x.src \in Seq(Byte) /\ Len(x.src) \in Nat /\ Len(x.src) <= MaxLen
      /\ MaxLen \in Nat
  BY FrameAssumption DEF EscMark, BeginMark, EndMark, Place
<1>1. CASE v = BeginMark
  <2>1. /\ Behind(v, x).done = 0 /\ ~Behind(v, x).esc
        /\ Behind(v, x).src = x.src
    BY <1>1, <1>0 DEF Behind
  <2>2. PROTO_ParseByte(st, v) =
          [isBegin |-> TRUE, isEsc |-> FALSE, buf |-> <<>>]
    BY <1>1, <1>0 DEF PROTO_ParseByte
  <2>3. SubSeq(x.src, 1, 0) = <<>>
    BY <1>0
  <2>4. Behind(v, x).esc = FALSE
    BY <1>1, <1>0 DEF Behind
  <2>5. LET st1 == PROTO_ParseByte(st, v)
        IN  st1.isBegin /\ st1.isEsc = FALSE /\ st1.buf = <<>>
    BY <2>2
  <2>6. QED
    BY <2>1, <2>3, <2>4, <2>5 DEF Reads
<1>2. CASE v = EscMark
  <2>1. /\ Behind(v, x).done = x.done /\ Behind(v, x).esc = TRUE
        /\ Behind(v, x).src = x.src
    BY <1>2, <1>0 DEF Behind
  <2>2. PROTO_ParseByte(st, v) = [st EXCEPT !.isEsc = TRUE]
    BY <1>2, <1>0 DEF PROTO_ParseByte
  <2>3. Reads(st, x)
    BY <1>0, <1>2
  <2>4. QED
    BY <2>1, <2>2, <2>3 DEF Reads
<1>3. CASE v \notin {BeginMark, EscMark, EndMark}
  <2> DEFINE c == x.src[x.done + 1]
             w == IF st.isEsc THEN Flip(v) ELSE v
  <2>2. /\ Behind(v, x).done = x.done + 1 /\ Behind(v, x).esc = FALSE
        /\ Behind(v, x).src = x.src
    BY <1>3 DEF Behind
  <2>3. Reads(st, x)
    BY <1>3
  <2>4. /\ x.done < Len(x.src)
        /\ x.esc => IsSpecial(c) /\ v = Flip(c)
        /\ ~x.esc => v = c
    BY <1>3 DEF Fits
  <2>5. c \in Byte
    BY <1>0, <2>4
  <2>6. w = c
    <3>1. CASE x.esc
      BY <2>3, <2>4, <2>5, <3>1, FlipBack DEF Reads
    <3>2. CASE ~x.esc
      BY <2>3, <2>4, <3>2 DEF Reads
    <3>3. QED
      BY <3>1, <3>2
  <2>7. Len(st.buf) < MaxLen
    <3>1. Len(SubSeq(x.src, 1, x.done)) = x.done
      BY <1>0, <2>4
    <3>2. QED
      BY <1>0, <2>3, <2>4, <3>1 DEF Reads
  <2>8. PROTO_ParseByte(st, v) =
          [st EXCEPT !.isEsc = FALSE, !.buf = Append(st.buf, w)]
    BY <1>3, <2>3, <2>7 DEF PROTO_ParseByte, Reads
  <2>9. Append(SubSeq(x.src, 1, x.done), c) = SubSeq(x.src, 1, x.done + 1)
    BY <1>0, <2>4, <2>5
  <2> HIDE DEF w, c
  <2>10. QED
    BY <2>2, <2>3, <2>6, <2>8, <2>9 DEF Reads
<1>4. QED
  BY <1>1, <1>2, <1>3

\* The places of the bytes of r, and of one more at x.
Longer(t, r, x) == [k \in 1..Len(r)+1 |-> IF k <= Len(r) THEN t[k] ELSE x]

(* A byte more: the places of the bytes before it stay.                    *)
LEMMA FramedAppend ==
  ASSUME NEW r \in Seq(Byte), NEW m \in Seq(Packet),
         NEW t \in [1..Len(r) -> Place], Framed(r, t, m),
         NEW v \in Byte, NEW x \in Place, Fits(v, x), x.n = Len(m),
         v = BeginMark \/ (r # <<>> /\ x = Behind(r[Len(r)], t[Len(r)]))
  PROVE  LET s == Append(r, v)
             u == Longer(t, r, x)
         IN  /\ u \in [1..Len(s) -> Place]
             /\ u[Len(s)] = x /\ s[Len(s)] = v
             /\ v # EndMark => Framed(s, u, m)
             /\ v = EndMark => Framed(s, u, Append(m, x.src))
<1> DEFINE s == Append(r, v)
           u == Longer(t, r, x)
           q == IF v = EndMark THEN Append(m, x.src) ELSE m
<1>1. /\ s \in Seq(Byte) /\ Len(s) = Len(r) + 1 /\ s[Len(s)] = v
      /\ \A k \in 1..Len(r) : s[k] = r[k] /\ r[k] \in Byte
      /\ Len(r) \in Nat /\ s # <<>>
  OBVIOUS
<1>2. /\ u \in [1..Len(s) -> Place]
      /\ \A k \in 1..Len(r) : u[k] = t[k] /\ t[k] \in Place
      /\ u[Len(s)] = x
  BY <1>1 DEF Longer
<1>3. x.src \in Packet /\ x.n \in Nat
  BY DEF Place
<1>4. /\ Len(m) \in Nat /\ q \in Seq(Packet) /\ Len(m) <= Len(q)
      /\ \A k \in 1..Len(m) : q[k] = m[k]
      /\ v # EndMark => q = m
      /\ v = EndMark => Len(q) = Len(m) + 1 /\ q[Len(m) + 1] = x.src
  BY <1>3
<1>5. Behind(v, x).n = Len(q)
  BY <1>3, <1>4, BehindPlace
<1>6. \A k \in 1..Len(r) : Behind(r[k], t[k]).n \in Nat /\ t[k].n \in Nat
  BY <1>1, <1>2, BehindPlace DEF Place
<1> HIDE DEF s, u, q
<1>7. ASSUME NEW k \in 1..Len(s) PROVE Fits(s[k], u[k])
  <2>1. k \in 1..Len(r) \/ k = Len(s)
    BY <1>1
  <2>2. QED
    BY <1>1, <1>2, <2>1 DEF Framed
<1>8. ASSUME NEW k \in 1..Len(s), s[k] = EndMark
      PROVE  u[k].n < Len(q) /\ q[u[k].n + 1] = u[k].src
  <2>1. CASE k \in 1..Len(r)
    <3>1. t[k].n < Len(m) /\ m[t[k].n + 1] = t[k].src
      BY <1>1, <1>8, <2>1 DEF Framed
    <3>2. t[k].n + 1 \in 1..Len(m) /\ t[k].n < Len(q)
      BY <1>4, <1>6, <2>1, <3>1
    <3>3. q[t[k].n + 1] = m[t[k].n + 1] /\ u[k] = t[k]
      BY <1>2, <1>4, <2>1, <3>2
    <3>4. QED
      BY <3>1, <3>2, <3>3
  <2>2. CASE k = Len(s)
    BY <1>1, <1>2, <1>3, <1>4, <1>8, <2>2
  <2>3. QED
    BY <1>1, <2>1, <2>2
<1>9. ASSUME NEW k \in 1..Len(s)-1
      PROVE  /\ s[k+1] # BeginMark => u[k+1] = Behind(s[k], u[k])
             /\ u[k+1].n = Behind(s[k], u[k]).n
  <2>1. CASE k < Len(r)
    <3>1. k \in 1..Len(r)-1 /\ k \in 1..Len(r) /\ k+1 \in 1..Len(r)
      BY <1>1, <2>1
    <3>2. QED
      BY <1>1, <1>2, <3>1 DEF Framed
  <2>2. CASE k = Len(r)
    <3>1. k \in 1..Len(r) /\ k + 1 = Len(s) /\ r # <<>>
      BY <1>1, <2>2
    <3>2. Behind(r[k], t[k]).n = Len(m)
      BY <2>2, <3>1 DEF Framed
    <3>3. QED
      BY <1>1, <1>2, <2>2, <3>1, <3>2
  <2>3. QED
    BY <1>1, <2>1, <2>2
<1>10. ASSUME NEW j \in 1..Len(s), NEW k \in 1..Len(s), j < k
       PROVE  Behind(s[j], u[j]).n <= u[k].n
  <2>1. j \in 1..Len(r)
    BY <1>1, <1>10
  <2>2. CASE k \in 1..Len(r)
    BY <1>1, <1>2, <1>10, <2>1, <2>2 DEF Framed
  <2>3. CASE k = Len(s)
    BY <1>1, <1>2, <2>1, <2>3 DEF Framed
  <2>4. QED
    BY <1>1, <2>2, <2>3
<1>11. ASSUME NEW k \in 1..Len(s) PROVE Behind(s[k], u[k]).n <= Len(q)
  <2>1. CASE k \in 1..Len(r)
    <3>1. Behind(r[k], t[k]).n <= Len(m)
      BY <2>1 DEF Framed
    <3>2. QED
      BY <1>1, <1>2, <1>4, <1>6, <2>1, <3>1
  <2>2. CASE k = Len(s)
    BY <1>1, <1>2, <1>4, <1>5, <2>2
  <2>3. QED
    BY <1>1, <2>1, <2>2
<1>12. u[1].n = 0 /\ Len(q) = Behind(s[Len(s)], u[Len(s)]).n
  <2>1. CASE r = <<>>
    <3>1. Len(r) = 0 /\ Len(s) = 1 /\ Len(m) = 0
      BY <1>1, <2>1 DEF Framed
    <3>2. QED
      BY <1>1, <1>2, <1>5, <3>1
  <2>2. CASE r # <<>>
    <3>1. 1 \in 1..Len(r)
      BY <1>1, <2>2
    <3>2. QED
      BY <1>1, <1>2, <1>5, <2>2, <3>1 DEF Framed
  <2>3. QED
    BY <2>1, <2>2
<1>13. Framed(s, u, q)
  BY <1>1, <1>2, <1>7, <1>8, <1>9, <1>10, <1>11, <1>12 DEF Framed
<1>14. v = EndMark => q = Append(m, x.src)
  BY DEF q
<1>15. QED
  BY <1>1, <1>2, <1>4, <1>13, <1>14 DEF s, u

(* A byte less that ends no frame: the places of the others stay.          *)
LEMMA FramedTail ==
  ASSUME NEW r \in Seq(Byte), NEW m \in Seq(Packet), r # <<>>,
         NEW t \in [1..Len(r) -> Place], Framed(r, t, m), r[1] # EndMark
  PROVE  LET s == Tail(r)
             u == [k \in 1..Len(s) |-> t[k+1]]
         IN  /\ u \in [1..Len(s) -> Place]
             /\ Framed(s, u, m)
             /\ s # <<>> => u[1] = t[2] /\ s[1] = r[2]
             /\ s # <<>> => u[Len(s)] = t[Len(r)] /\ s[Len(s)] = r[Len(r)]
<1> DEFINE s == Tail(r)
           u == [k \in 1..Len(s) |-> t[k+1]]
<1>1. /\ s \in Seq(Byte) /\ Len(s) = Len(r) - 1
      /\ \A k \in 1..Len(s) : s[k] = r[k+1]
      /\ Len(r) \in Nat /\ Len(r) >= 1
      /\ \A k \in 1..Len(s) : k + 1 \in 1..Len(r)
  BY HeadTailProperties
<1>2. /\ u \in [1..Len(s) -> Place]
      /\ \A k \in 1..Len(s) : u[k] = t[k+1]
  BY <1>1
<1>3. 1 \in 1..Len(r) /\ r[1] \in Byte /\ t[1] \in Place
  BY <1>1
<1> HIDE DEF s, u
<1>4. /\ \A k \in 1..Len(s) : Fits(s[k], u[k])
      /\ \A k \in 1..Len(s) :
           s[k] = EndMark => u[k].n < Len(m) /\ m[u[k].n + 1] = u[k].src
      /\ \A k \in 1..Len(s) : Behind(s[k], u[k]).n <= Len(m)
  BY <1>1, <1>2 DEF Framed
<1>5. ASSUME NEW k \in 1..Len(s)-1
      PROVE  /\ s[k+1] # BeginMark => u[k+1] = Behind(s[k], u[k])
             /\ u[k+1].n = Behind(s[k], u[k]).n
  <2>1. k \in 1..Len(s) /\ k+1 \in 1..Len(s) /\ k+1 \in 1..Len(r)-1
    BY <1>1
  <2>2. s[k+1] = r[(k+1)+1] /\ u[k+1] = t[(k+1)+1] /\ s[k] = r[k+1] /\ u[k] = t[k+1]
    BY <1>1, <1>2, <2>1
  <2>3. QED
    BY <2>1, <2>2 DEF Framed
<1>6. ASSUME NEW j \in 1..Len(s), NEW k \in 1..Len(s), j < k
      PROVE  Behind(s[j], u[j]).n <= u[k].n
  <2>1. j+1 \in 1..Len(r) /\ k+1 \in 1..Len(r) /\ j+1 < k+1
    BY <1>1, <1>6
  <2>2. QED
    BY <1>1, <1>2, <2>1 DEF Framed
<1>7. Behind(r[1], t[1]).n = 0
  <2>1. t[1].n = 0
    BY DEF Framed
  <2>2. QED
    BY <1>3, <2>1, BehindPlace
<1>8. ASSUME s # <<>>
      PROVE  /\ u[1].n = 0 /\ Len(m) = Behind(s[Len(s)], u[Len(s)]).n
             /\ u[1] = t[2] /\ s[1] = r[2]
             /\ u[Len(s)] = t[Len(r)] /\ s[Len(s)] = r[Len(r)]
  <2>1. 1 \in 1..Len(s) /\ Len(s) \in 1..Len(s) /\ 1 \in 1..Len(r)-1
    BY <1>1, <1>8
  <2>2. u[1] = t[1+1] /\ s[1] = r[1+1] /\ u[Len(s)] = t[Len(r)] /\ s[Len(s)] = r[Len(r)]
    BY <1>1, <1>2, <2>1
  <2>3. t[1+1].n = Behind(r[1], t[1]).n
    BY <2>1 DEF Framed
  <2>4. Len(m) = Behind(r[Len(r)], t[Len(r)]).n
    BY DEF Framed
  <2>5. QED
    BY <1>7, <2>2, <2>3, <2>4
<1>9. ASSUME s = <<>> PROVE m = <<>>
  <2>1. Len(r) = 1
    BY <1>1, <1>9
  <2>2. Len(m) = 0
    BY <1>7, <2>1 DEF Framed
  <2>3. QED
    BY <2>2
<1>10. Framed(s, u, m)
  BY <1>2, <1>4, <1>5, <1>6, <1>8, <1>9 DEF Framed
<1>11. QED
  BY <1>2, <1>8, <1>10 DEF s, u

\* The same place with one frame less before it.
Earlier(x) == [n |-> x.n - 1, src |-> x.src, done |-> x.done, esc |-> x.esc]

(* What may stand at a place, and where it leads, depends on the frames    *)
(* before it in their number only.                                         *)
LEMMA EarlierPlace ==
  ASSUME NEW v \in Byte, NEW x \in Place, x.n >= 1
  PROVE  /\ Earlier(x) \in Place
         /\ Earlier(x).n \in Nat /\ x.n \in Nat /\ Earlier(x).n + 1 = x.n
         /\ Earlier(x).src = x.src
         /\ Fits(v, x) => Fits(v, Earlier(x))
         /\ Behind(v, Earlier(x)) = Earlier(Behind(v, x))
         /\ Behind(v, Earlier(x)).n \in Nat /\ Behind(v, x).n \in Nat
         /\ Behind(v, Earlier(x)).n + 1 = Behind(v, x).n
<1>1. /\ x.n \in Nat /\ x.n - 1 \in Nat /\ x.src \in Packet
      /\ x.done \in Nat /\ x.esc \in BOOLEAN
  BY DEF Place
<1>2. /\ Earlier(x) \in Place
      /\ Earlier(x).n = x.n - 1 /\ Earlier(x).src = x.src
      /\ Earlier(x).done = x.done /\ Earlier(x).esc = x.esc
  BY <1>1 DEF Earlier, Place
<1>3. Fits(v, x) => Fits(v, Earlier(x))
  BY <1>2 DEF Fits
<1>4. Behind(v, Earlier(x)) = Earlier(Behind(v, x))
  <2> DEFINE d == IF v = BeginMark THEN 0
                  ELSE IF v \in {EscMark, EndMark} THEN x.done ELSE x.done + 1
             n1 == IF v = EndMark THEN x.n - 1 + 1 ELSE x.n - 1
             n2 == (IF v = EndMark THEN x.n + 1 ELSE x.n) - 1
             e == v = EscMark
  <2>1. Behind(v, Earlier(x)) = [n |-> n1, src |-> x.src, done |-> d, esc |-> e]
    BY <1>2, Zenon DEF Behind
  <2>2. Earlier(Behind(v, x)) = [n |-> n2, src |-> x.src, done |-> d, esc |-> e]
    BY DEF Behind, Earlier
  <2>3. n1 = n2
    BY <1>1
  <2> HIDE DEF d, n1, n2, e
  <2>4. QED
    BY <2>1, <2>2, <2>3, Zenon
<1>5. /\ Behind(v, Earlier(x)).n = IF v = EndMark THEN Earlier(x).n + 1 ELSE Earlier(x).n
      /\ Behind(v, x).n = IF v = EndMark THEN x.n + 1 ELSE x.n
  BY <1>2, BehindPlace
<1>6. QED
  BY <1>1, <1>2, <1>3, <1>4, <1>5

(* The end marker of a frame: its packet is the oldest in the queue, and   *)
(* one frame less stands before every byte behind it.                      *)
LEMMA FramedPop ==
  ASSUME NEW r \in Seq(Byte), NEW m \in Seq(Packet), r # <<>>,
         NEW t \in [1..Len(r) -> Place], Framed(r, t, m), r[1] = EndMark
  PROVE  LET s == Tail(r)
             u == [k \in 1..Len(s) |-> Earlier(t[k+1])]
         IN  /\ m # <<>> /\ Head(m) = t[1].src
             /\ u \in [1..Len(s) -> Place]
             /\ Framed(s, u, Tail(m))
<1> DEFINE s == Tail(r)
           u == [k \in 1..Len(s) |-> Earlier(t[k+1])]
           q == Tail(m)
<1>1. /\ s \in Seq(Byte) /\ Len(s) = Len(r) - 1
      /\ \A k \in 1..Len(s) : s[k] = r[k+1] /\ s[k] \in Byte
      /\ Len(r) \in Nat /\ Len(r) >= 1
      /\ \A k \in 1..Len(s) : k + 1 \in 1..Len(r)
  BY HeadTailProperties
<1>2. 1 \in 1..Len(r) /\ r[1] \in Byte /\ t[1] \in Place /\ t[1].n = 0
  BY <1>1 DEF Framed
<1>3. Behind(r[1], t[1]).n = 1
  BY <1>2, BehindPlace
<1>4. 0 < Len(m) /\ m[1] = t[1].src
  BY <1>2 DEF Framed
<1>5. /\ m # <<>> /\ Head(m) = t[1].src
      /\ q \in Seq(Packet) /\ Len(q) = Len(m) - 1 /\ Len(m) \in Nat
      /\ \A k \in 1..Len(q) : q[k] = m[k+1]
  BY <1>4, HeadTailProperties
<1>5a. Len(m) \in Nat /\ Len(q) \in Nat /\ Len(q) + 1 = Len(m)
  BY <1>5
<1>6. \A k \in 1..Len(s) : t[k+1] \in Place /\ t[k+1].n >= 1
  <2>1. TAKE k \in 1..Len(s)
  <2>2. k + 1 \in 1..Len(r) /\ 1 < k + 1
    BY <1>1
  <2>3. t[k+1] \in Place /\ Behind(r[1], t[1]).n <= t[k+1].n
    BY <1>2, <2>2 DEF Framed
  <2>4. QED
    BY <1>3, <2>3 DEF Place
<1>7. \A k \in 1..Len(s) :
        /\ u[k] = Earlier(t[k+1]) /\ u[k] \in Place
        /\ u[k].n \in Nat /\ t[k+1].n \in Nat /\ u[k].n + 1 = t[k+1].n
        /\ u[k].src = t[k+1].src
        /\ Fits(r[k+1], t[k+1]) => Fits(s[k], u[k])
        /\ Behind(s[k], u[k]) = Earlier(Behind(r[k+1], t[k+1]))
        /\ Behind(s[k], u[k]).n \in Nat /\ Behind(r[k+1], t[k+1]).n \in Nat
        /\ Behind(s[k], u[k]).n + 1 = Behind(r[k+1], t[k+1]).n
  <2>1. TAKE k \in 1..Len(s)
  <2>2. s[k] = r[k+1] /\ s[k] \in Byte /\ t[k+1] \in Place /\ t[k+1].n >= 1
    BY <1>1, <1>6
  <2>3. u[k] = Earlier(t[k+1])
    OBVIOUS
  <2> HIDE DEF s, u, q
  <2>4. PICK v \in Byte, x \in Place : v = s[k] /\ v = r[k+1] /\ x = t[k+1] /\ x.n >= 1
    BY <2>2, Zenon
  <2>5. /\ Earlier(x) \in Place
        /\ Earlier(x).n \in Nat /\ x.n \in Nat /\ Earlier(x).n + 1 = x.n
        /\ Earlier(x).src = x.src
        /\ Fits(v, x) => Fits(v, Earlier(x))
        /\ Behind(v, Earlier(x)) = Earlier(Behind(v, x))
        /\ Behind(v, Earlier(x)).n \in Nat /\ Behind(v, x).n \in Nat
        /\ Behind(v, Earlier(x)).n + 1 = Behind(v, x).n
    BY <2>4, EarlierPlace, Zenon
  <2>6. QED
    BY <2>3, <2>4, <2>5, Zenon
<1>8. u \in [1..Len(s) -> Place]
  BY <1>7
<1> HIDE DEF s, u, q
<1>10. ASSUME NEW k \in 1..Len(s) PROVE Fits(s[k], u[k])
  BY <1>1, <1>7 DEF Framed
<1>11. ASSUME NEW k \in 1..Len(s), s[k] = EndMark
       PROVE  u[k].n < Len(q) /\ q[u[k].n + 1] = u[k].src
  <2>1. t[k+1].n < Len(m)
    BY <1>1, <1>11 DEF Framed
  <2>1a. m[t[k+1].n + 1] = t[k+1].src
    BY <1>1, <1>11 DEF Framed
  <2>2. u[k].n \in Nat /\ t[k+1].n \in Nat /\ u[k].n + 1 = t[k+1].n
    BY <1>7
  <2>3. u[k].n + 1 \in 1..Len(q) /\ u[k].n < Len(q)
    <3> DEFINE a == u[k].n
               b == t[k+1].n
               c == Len(m)
               d == Len(q)
    <3>1. /\ a \in Nat /\ b \in Nat /\ c \in Nat /\ d \in Nat
          /\ a + 1 = b /\ b < c /\ d + 1 = c
      BY <1>5a, <2>1, <2>2
    <3> HIDE DEF a, b, c, d
    <3>2. a + 1 \in 1..d /\ a < d
      BY <3>1
    <3>3. QED
      BY <3>2 DEF a, d
  <2>4. q[u[k].n + 1] = m[(u[k].n + 1) + 1]
    BY <1>5, <2>3
  <2>5. QED
    BY <1>7, <2>1a, <2>2, <2>3, <2>4
<1>12. ASSUME NEW k \in 1..Len(s)-1
       PROVE  /\ s[k+1] # BeginMark => u[k+1] = Behind(s[k], u[k])
              /\ u[k+1].n = Behind(s[k], u[k]).n
  <2>1. k \in 1..Len(s) /\ k+1 \in 1..Len(s) /\ k+1 \in 1..Len(r)-1
    BY <1>1
  <2>2. s[k+1] = r[(k+1)+1] /\ s[k] = r[k+1]
    BY <1>1, <2>1
  <2>3. t[(k+1)+1].n = Behind(r[k+1], t[k+1]).n
    BY <2>1 DEF Framed
  <2>4. /\ u[k+1].n \in Nat /\ u[k+1].n + 1 = t[(k+1)+1].n
        /\ u[k+1] = Earlier(t[(k+1)+1])
    BY <1>7, <2>1
  <2>5. /\ Behind(s[k], u[k]).n \in Nat
        /\ Behind(s[k], u[k]).n + 1 = Behind(r[k+1], t[k+1]).n
        /\ Behind(s[k], u[k]) = Earlier(Behind(r[k+1], t[k+1]))
    BY <1>7, <2>1
  <2>6. u[k+1].n = Behind(s[k], u[k]).n
    BY <2>3, <2>4, <2>5
  <2>7. ASSUME s[k+1] # BeginMark PROVE u[k+1] = Behind(s[k], u[k])
    <3>1. t[(k+1)+1] = Behind(r[k+1], t[k+1])
      BY <2>1, <2>2, <2>7 DEF Framed
    <3>2. QED
      BY <2>4, <2>5, <3>1
  <2>8. QED
    BY <2>6, <2>7
<1>13. ASSUME NEW j \in 1..Len(s), NEW k \in 1..Len(s), j < k
       PROVE  Behind(s[j], u[j]).n <= u[k].n
  <2>1. j+1 \in 1..Len(r) /\ k+1 \in 1..Len(r) /\ j+1 < k+1
    BY <1>1, <1>13
  <2>2. Behind(r[j+1], t[j+1]).n <= t[k+1].n
    BY <2>1 DEF Framed
  <2>3. /\ u[k].n \in Nat /\ u[k].n + 1 = t[k+1].n
        /\ Behind(s[j], u[j]).n \in Nat
        /\ Behind(s[j], u[j]).n + 1 = Behind(r[j+1], t[j+1]).n
    BY <1>7
  <2>4. PICK x \in Nat, y \in Nat : x = u[k].n /\ y = Behind(s[j], u[j]).n
    BY <2>3, Zenon
  <2>5. y + 1 <= x + 1
    BY <2>2, <2>3, <2>4, Zenon
  <2>6. y <= x
    BY <2>5
  <2>7. QED
    BY <2>4, <2>6, Zenon
<1>14. ASSUME NEW k \in 1..Len(s) PROVE Behind(s[k], u[k]).n <= Len(q)
  <2>1. Behind(r[k+1], t[k+1]).n <= Len(m)
    BY <1>1 DEF Framed
  <2>2. /\ Behind(s[k], u[k]).n \in Nat
        /\ Behind(s[k], u[k]).n + 1 = Behind(r[k+1], t[k+1]).n
    BY <1>7
  <2>3. QED
    BY <1>5, <2>1, <2>2
<1>15. ASSUME s # <<>>
       PROVE  u[1].n = 0 /\ Len(q) = Behind(s[Len(s)], u[Len(s)]).n
  <2>1. 1 \in 1..Len(s) /\ Len(s) \in 1..Len(s) /\ 1 \in 1..Len(r)-1
    BY <1>1, <1>15
  <2>2. t[1+1].n = Behind(r[1], t[1]).n
    BY <2>1 DEF Framed
  <2>3. Len(m) = Behind(r[Len(s)+1], t[Len(s)+1]).n
    BY <1>1 DEF Framed
  <2>4. u[1].n \in Nat /\ u[1].n + 1 = t[1+1].n
    BY <1>7, <2>1
  <2>5. /\ Behind(s[Len(s)], u[Len(s)]).n \in Nat
        /\ Behind(s[Len(s)], u[Len(s)]).n + 1 = Behind(r[Len(s)+1], t[Len(s)+1]).n
    BY <1>7, <2>1
  <2>6. QED
    BY <1>3, <1>5a, <2>2, <2>3, <2>4, <2>5
<1>16. ASSUME s = <<>> PROVE q = <<>>
  <2>1. Len(r) = 1
    BY <1>1, <1>16
  <2>2. Len(m) = 1
    BY <1>3, <2>1 DEF Framed
  <2>3. QED
    BY <1>5, <2>2
<1>17. Framed(s, u, q)
  BY <1>8, <1>10, <1>11, <1>12, <1>13, <1>14, <1>15, <1>16 DEF Framed
<1>18. QED
  BY <1>5, <1>8, <1>17 DEF s, u, q

-----------------------------------------------------------------------------
(* A call starts.                                                          *)
LEMMA CallInv ==
  ASSUME Inv,
         (\E who \in {"append", "publish"}, p \in Packet : CallPuts(who, p))
           \/ CallGets
  PROVE  Inv'
<1>1. ASSUME NEW who \in {"append", "publish"}, NEW p \in Packet, CallPuts(who, p)
      PROVE  Inv'
  <2>1. p \in Seq(Byte) /\ 1 \in 1..Len(p)+1
    BY FrameAssumption
  <2>2. TypeOK'
    BY <1>1, <2>1 DEF Inv, TypeOK, CallPuts
  <2>3. FrameAligned'
    BY <1>1 DEF Inv, FrameAligned, CallPuts
  <2>4. QED
    BY <2>2, <2>3 DEF Inv
<1>2. ASSUME CallGets PROVE Inv'
  <2>1. TypeOK'
    BY <1>2, FreshType DEF Inv, TypeOK, CallGets
  <2>2. FrameAligned'
    BY <1>2 DEF Inv, FrameAligned, CallGets
  <2>3. QED
    BY <2>1, <2>2 DEF Inv
<1>3. QED
  BY <1>1, <1>2

(* PROTO_AddRb puts a byte: four actions, one per place in the frame.      *)
LEMMA PutInv ==
  ASSUME Inv, PutBegin \/ PutPlain \/ PutEscape \/ PutEscaped \/ PutEnd
  PROVE  Inv'
<1>1. /\ packet \in Seq(Byte) /\ Len(packet) \in Nat
      /\ i \in Nat /\ i >= 1
      /\ i <= Len(packet) => packet[i] \in Byte
  BY PacketType DEF Inv
<1>2. ring \in Seq(Byte) /\ Len(ring) \in Nat /\ Size \in Nat
  BY FrameAssumption DEF Inv, TypeOK
<1>3. /\ EscMark \in Byte /\ BeginMark \in Byte /\ EndMark \in Byte
      /\ EscMark # EndMark /\ BeginMark # EndMark
  BY DEF Byte, EscMark, BeginMark, EndMark
<1>4. ASSUME PutBegin PROVE Inv'
  <2>1. /\ pc = "begin" /\ pc' = "body"
        /\ Len(ring) < Size /\ ring' = Append(ring, BeginMark)
        /\ UNCHANGED <<caller, packet, i, parser, ok, out, mq>>
    BY <1>4 DEF PutBegin, PutByte
  <2>2. TypeOK'
    BY <1>2, <1>3, <2>1 DEF Inv, TypeOK
  <2>3. FrameAligned'
    BY <1>2, <1>3, <2>1, AppendAligned DEF Inv, FrameAligned
  <2>4. QED
    BY <2>2, <2>3 DEF Inv
<1>5. ASSUME PutPlain PROVE Inv'
  <2>1. /\ pc = "body" /\ pc' = "body"
        /\ i <= Len(packet) /\ ~IsSpecial(packet[i]) /\ i' = i + 1
        /\ Len(ring) < Size /\ ring' = Append(ring, packet[i])
        /\ UNCHANGED <<caller, packet, parser, ok, out, mq>>
    BY <1>5 DEF PutPlain, PutByte
  <2>2. packet[i] # EndMark
    BY <2>1 DEF IsSpecial
  <2>3. TypeOK'
    BY <1>1, <1>2, <2>1 DEF Inv, TypeOK
  <2>4. FrameAligned'
    BY <1>1, <1>2, <2>1, <2>2, AppendAligned DEF Inv, FrameAligned
  <2>5. QED
    BY <2>3, <2>4 DEF Inv
<1>6. ASSUME PutEscape PROVE Inv'
  <2>1. /\ pc = "body" /\ pc' = "escaped"
        /\ i <= Len(packet) /\ IsSpecial(packet[i])
        /\ Len(ring) < Size /\ ring' = Append(ring, EscMark)
        /\ UNCHANGED <<caller, packet, i, parser, ok, out, mq>>
    BY <1>6 DEF PutEscape, PutByte
  <2>2. TypeOK'
    <3>1. IsSpecial(packet[i])'
      BY <2>1 DEF IsSpecial
    <3>2. QED
      BY <1>1, <1>2, <1>3, <2>1, <3>1 DEF Inv, TypeOK
  <2>3. FrameAligned'
    BY <1>1, <1>2, <1>3, <2>1, AppendAligned DEF Inv, FrameAligned
  <2>4. QED
    BY <2>2, <2>3 DEF Inv
<1>7. ASSUME PutEscaped PROVE Inv'
  <2>1. /\ pc = "escaped" /\ pc' = "body" /\ i' = i + 1
        /\ Len(ring) < Size /\ ring' = Append(ring, Flip(packet[i]))
        /\ UNCHANGED <<caller, packet, parser, ok, out, mq>>
    BY <1>7 DEF PutEscaped, PutByte
  <2>2. i <= Len(packet) /\ IsSpecial(packet[i])
    BY <2>1 DEF Inv, TypeOK
  <2>3. Flip(packet[i]) \in Byte /\ Flip(packet[i]) # EndMark
    <3>1. Flip(packet[i]) \in Byte /\ ~IsSpecial(Flip(packet[i]))
      BY <1>1, <2>2, FlipByte
    <3>2. QED
      BY <3>1 DEF IsSpecial
  <2>4. TypeOK'
    BY <1>1, <1>2, <2>1, <2>2, <2>3 DEF Inv, TypeOK
  <2>5. FrameAligned'
    BY <1>2, <2>1, <2>3, AppendAligned DEF Inv, FrameAligned
  <2>6. QED
    BY <2>4, <2>5 DEF Inv
<1>8. ASSUME PutEnd PROVE Inv'
  <2>1. /\ pc = "body" /\ pc' = "idle" /\ ok' = TRUE
        /\ Len(ring) < Size /\ ring' = Append(ring, EndMark)
        /\ mq' = Append(mq, packet)
        /\ UNCHANGED <<caller, packet, i, parser, out>>
    BY <1>8 DEF PutEnd, PutByte
  <2>2. TypeOK'
    BY <1>2, <1>3, <2>1 DEF Inv, TypeOK
  <2>3. FrameAligned'
    BY <1>2, <1>3, <2>1, AppendAligned DEF Inv, FrameAligned
  <2>4. QED
    BY <2>2, <2>3 DEF Inv
<1>9. QED
  BY <1>4, <1>5, <1>6, <1>7, <1>8

(* A call gives up: a full ring, or no end marker left in it.              *)
LEMMA FailInv ==
  ASSUME Inv, PutsFails \/ GetsFails
  PROVE  Inv'
<1>1. ASSUME PutsFails PROVE Inv'
  <2>1. TypeOK'
    BY <1>1, FreshType DEF Inv, TypeOK, PutsFails, Return
  <2>2. FrameAligned'
    BY <1>1 DEF Inv, FrameAligned, PutsFails, Return
  <2>3. QED
    BY <2>1, <2>2 DEF Inv
<1>2. ASSUME GetsFails PROVE Inv'
  <2>1. TypeOK'
    BY <1>2, FreshType DEF Inv, TypeOK, GetsFails, Return
  <2>2. FrameAligned'
    BY <1>2 DEF Inv, FrameAligned, GetsFails, Return
  <2>3. QED
    BY <2>1, <2>2 DEF Inv
<1>3. QED
  BY <1>1, <1>2

(* PROTO_ParseRb takes a byte.                                             *)
LEMMA GetInv ==
  ASSUME Inv, GetByte \/ GetEnd, GetEnd => mq # <<>>
  PROVE  Inv'
<1>1. /\ ring # <<>> /\ pc = "read" /\ ring' = Tail(ring)
      /\ ring \in Seq(Byte) /\ Len(ring) \in Nat /\ Size \in Nat
  <2>1. ring # <<>> /\ pc = "read" /\ ring' = Tail(ring)
    BY DEF GetByte, GetEnd
  <2>2. QED
    BY <2>1, FrameAssumption DEF Inv, TypeOK
<1>2. /\ ring' \in Seq(Byte) /\ Len(ring') = Len(ring) - 1
      /\ Head(ring) = ring[1] /\ Head(ring) \in Byte
      /\ ring' # <<>> /\ ring[1] = EndMark => ring'[1] = BeginMark
      /\ \A k \in 1..Len(ring')-1 : ring'[k] = EndMark => ring'[k+1] = BeginMark
  BY <1>1, TailAligned DEF Inv, FrameAligned
<1>3. ASSUME GetByte PROVE Inv'
  <2>1. /\ Head(ring) # EndMark
        /\ parser' = PROTO_ParseByte(parser, Head(ring))
        /\ UNCHANGED <<pc, caller, packet, i, ok, out, mq>>
    BY <1>3 DEF GetByte
  <2>2. /\ parser' \in [isBegin : BOOLEAN, isEsc : BOOLEAN, buf : Seq(Byte)]
        /\ Len(parser'.buf) <= MaxLen
        /\ parser.isBegin \/ Head(ring) = BeginMark => parser'.isBegin
    BY <1>2, <2>1, ParseByteType DEF Inv
  <2>3. parser'.isBegin
    BY <1>1, <1>2, <2>2 DEF Inv, FrameAligned
  <2>4. TypeOK'
    BY <1>1, <1>2, <2>1, <2>2 DEF Inv, TypeOK
  <2>5. FrameAligned'
    BY <1>1, <1>2, <2>1, <2>3 DEF FrameAligned
  <2>6. QED
    BY <2>4, <2>5 DEF Inv
<1>4. ASSUME GetEnd PROVE Inv'
  <2>1. /\ Head(ring) = EndMark /\ parser' = NoParser
        /\ pc' \in {"idle", "begin"}
        /\ pc' = "begin" => caller = "publish"
        /\ UNCHANGED <<caller, packet>>
        /\ i' = i \/ i' = 1
        /\ ok' = TRUE \/ ok' = ok
        /\ out' = parser.buf \/ out' = out
        /\ mq' = Tail(mq) /\ mq # <<>>
    BY <1>4 DEF GetEnd, Return
  <2>2. 1 \in 1..Len(packet)+1
    BY PacketType DEF Inv
  <2>3. out' \in Seq(Byte) /\ ok' \in BOOLEAN /\ i' \in 1..Len(packet)+1
    BY <2>1, <2>2 DEF Inv, TypeOK
  <2>4. /\ parser' \in [isBegin : BOOLEAN, isEsc : BOOLEAN, buf : Seq(Byte)]
        /\ Len(parser'.buf) <= MaxLen
    BY <2>1, FreshType
  <2>5. mq' \in Seq(Packet)
    BY <2>1 DEF Inv, TypeOK
  <2>6. TypeOK'
    BY <1>1, <1>2, <2>1, <2>3, <2>4, <2>5 DEF Inv, TypeOK
  <2>7. FrameAligned'
    BY <1>1, <1>2, <2>1 DEF FrameAligned
  <2>8. QED
    BY <2>6, <2>7 DEF Inv
<1>5. QED
  BY <1>3, <1>4

-----------------------------------------------------------------------------
(* What the reader finds at an end marker, and in an empty ring.           *)
LEMMA OldestIsRead ==
  ASSUME Inv, Queued
  PROVE  /\ ring = <<>> => mq = <<>>
         /\ ring # <<>> /\ Head(ring) = EndMark => mq # <<>> /\ Head(mq) = parser.buf
<1>1. PICK t \in [1..Len(ring) -> Place] :
        /\ Framed(ring, t, mq)
        /\ ring # <<>> /\ ring[1] # BeginMark => Reads(parser, t[1])
  BY DEF Queued
<1>2. ring = <<>> => mq = <<>>
  BY <1>1 DEF Framed
<1>3. ASSUME ring # <<>>, Head(ring) = EndMark
      PROVE  mq # <<>> /\ Head(mq) = parser.buf
  <2>1. /\ ring \in Seq(Byte) /\ mq \in Seq(Packet) /\ ring[1] = EndMark
        /\ 1 \in 1..Len(ring) /\ EndMark # BeginMark /\ EndMark # EscMark
    BY <1>3 DEF Inv, TypeOK, EndMark, BeginMark, EscMark
  <2>2. mq # <<>> /\ Head(mq) = t[1].src
    BY <1>1, <1>3, <2>1, FramedPop
  <2>3. t[1].done = Len(t[1].src)
    <3>1. Fits(EndMark, t[1])
      BY <1>1, <2>1 DEF Framed
    <3>2. QED
      BY <2>1, <3>1 DEF Fits
  <2>4. t[1].src \in Seq(Byte)
    BY <1>1, <2>1, FrameAssumption DEF Place
  <2>5. parser.buf = SubSeq(t[1].src, 1, t[1].done)
    BY <1>1, <1>3, <2>1 DEF Reads
  <2>6. QED
    BY <2>2, <2>3, <2>4, <2>5
<1>4. QED
  BY <1>2, <1>3

(* A call starts: no frame is open on either side.                         *)
LEMMA CallQueued ==
  ASSUME Inv, Queued,
         (\E who \in {"append", "publish"}, p \in Packet : CallPuts(who, p))
           \/ CallGets
  PROVE  Queued'
<1>1. /\ UNCHANGED <<ring, mq>> /\ pc' \in {"begin", "read"}
      /\ pc' = "begin" => i' = 1
      /\ pc = "idle"
  BY DEF CallPuts, CallGets
<1>2. ring = <<>> \/ ring[1] = BeginMark
  BY <1>1 DEF Inv, FrameAligned
<1>3. PICK t \in [1..Len(ring) -> Place] : Framed(ring, t, mq)
  BY DEF Queued
<1>4. QED
  BY <1>1, <1>2, <1>3 DEF Queued

(* A byte that fits where PROTO_AddRb goes on.                             *)
LEMMA PutQueued ==
  ASSUME Inv, Queued, NEW v \in Byte, Fits(v, Here),
         pc \in {"begin", "body", "escaped"}, pc = "begin" => v = BeginMark,
         ring' = Append(ring, v),
         mq' = IF v = EndMark THEN Append(mq, packet) ELSE mq,
         pc' # "begin",
         pc' \in {"body", "escaped"} => Behind(v, Here) = Here'
  PROVE  Queued'
<1>1. /\ ring \in Seq(Byte) /\ mq \in Seq(Packet) /\ Len(mq) \in Nat
      /\ packet \in Packet /\ i - 1 \in Nat
      /\ (pc = "escaped") \in BOOLEAN
  BY PacketType DEF Inv, TypeOK
<1>2. PICK x \in Place : x = Here /\ x.n = Len(mq) /\ x.src = packet
  <2>1. Here \in Place
    BY <1>1 DEF Here, Place
  <2>2. Here.n = Len(mq) /\ Here.src = packet
    BY Zenon DEF Here
  <2>3. QED
    BY <2>1, <2>2, Zenon
<1>3. PICK t \in [1..Len(ring) -> Place] :
        /\ Framed(ring, t, mq)
        /\ pc \in {"body", "escaped"} => Behind(ring[Len(ring)], t[Len(ring)]) = Here
  BY DEF Queued
<1>4. /\ pc \in {"body", "escaped"} => ring # <<>>
      /\ ring # <<>> => ring[1] = BeginMark
  BY DEF Inv, FrameAligned
<1>5. v = BeginMark \/ (ring # <<>> /\ x = Behind(ring[Len(ring)], t[Len(ring)]))
  BY <1>2, <1>3, <1>4
<1>5a. Fits(v, x)
  BY <1>2
<1> DEFINE s == Append(ring, v)
           u == Longer(t, ring, x)
<1>6. /\ u \in [1..Len(s) -> Place]
      /\ u[Len(s)] = x /\ s[Len(s)] = v
      /\ Framed(s, u, mq')
  <2>1. /\ u \in [1..Len(s) -> Place]
        /\ u[Len(s)] = x /\ s[Len(s)] = v
        /\ v # EndMark => Framed(s, u, mq)
        /\ v = EndMark => Framed(s, u, Append(mq, x.src))
    <3>1. /\ ring \in Seq(Byte) /\ mq \in Seq(Packet) /\ x.n = Len(mq)
          /\ t \in [1..Len(ring) -> Place] /\ Framed(ring, t, mq)
      BY <1>1, <1>2, <1>3
    <3>2. QED
      BY <1>5, <1>5a, <3>1, FramedAppend
  <2> HIDE DEF u, s
  <2>2. QED
    BY <1>2, <2>1
<1>7. ring'[1] = BeginMark
  BY <1>1, <1>4
<1> HIDE DEF u, s
<1>8. ring' = s
  BY DEF s
<1>9. QED
  BY <1>2, <1>6, <1>7, <1>8 DEF Queued

(* PROTO_AddRb puts the next byte of the packet's frame.                   *)
LEMMA PutsQueued ==
  ASSUME Inv, Queued, PutBegin \/ PutPlain \/ PutEscape \/ PutEscaped \/ PutEnd
  PROVE  Queued'
<1>1. /\ packet \in Seq(Byte) /\ Len(packet) \in Nat
      /\ i \in Nat /\ i >= 1
      /\ i <= Len(packet) => packet[i] \in Byte
  BY PacketType DEF Inv
<1>2. /\ EscMark \in Byte /\ BeginMark \in Byte /\ EndMark \in Byte
      /\ EscMark # EndMark /\ BeginMark # EndMark /\ EscMark # BeginMark
  BY DEF Byte, EscMark, BeginMark, EndMark
<1>3. /\ Here.n = Len(mq) /\ Here.src = packet /\ Here.done = i - 1
      /\ pc # "escaped" => ~Here.esc
      /\ pc = "escaped" => Here.esc
      /\ (i - 1) + 1 = i /\ (i + 1) - 1 = i
  <2>1. Here.esc = (pc = "escaped")
    BY Zenon DEF Here
  <2>2. Here.n = Len(mq) /\ Here.src = packet /\ Here.done = i - 1
    BY Zenon DEF Here
  <2>3. (i - 1) + 1 = i /\ (i + 1) - 1 = i
    BY <1>1
  <2>4. QED
    BY <2>1, <2>2, <2>3, Zenon
<1>4. CASE PutBegin
  <2>1. /\ pc = "begin" /\ pc' = "body" /\ ring' = Append(ring, BeginMark)
        /\ UNCHANGED <<packet, i, mq>> /\ i = 1
    BY <1>4 DEF PutBegin, PutByte, Queued
  <2>2. Fits(BeginMark, Here)
    BY <1>2 DEF Fits
  <2>3. Behind(BeginMark, Here) =
          [n |-> Len(mq), src |-> packet, done |-> 0, esc |-> FALSE]
    BY <1>2, <1>3 DEF Behind
  <2>4. Here' = [n |-> Len(mq), src |-> packet, done |-> 0, esc |-> FALSE]
    <3>1. i' - 1 = 0 /\ (pc' = "escaped") = FALSE
      BY <2>1
    <3>2. QED
      BY <2>1, <3>1, Zenon DEF Here
  <2>5. QED
    BY <1>2, <2>1, <2>2, <2>3, <2>4, PutQueued
<1>5. CASE PutPlain
  <2>1. /\ pc = "body" /\ pc' = "body"
        /\ i <= Len(packet) /\ ~IsSpecial(packet[i]) /\ i' = i + 1
        /\ ring' = Append(ring, packet[i]) /\ UNCHANGED <<packet, mq>>
    BY <1>5 DEF PutPlain, PutByte
  <2>2. packet[i] \notin {EscMark, BeginMark, EndMark} /\ packet[i] \in Byte
    BY <1>1, <2>1 DEF IsSpecial
  <2>3. Fits(packet[i], Here)
    BY <1>1, <1>3, <2>1, <2>2 DEF Fits
  <2>4. Behind(packet[i], Here) =
          [n |-> Len(mq), src |-> packet, done |-> i, esc |-> FALSE]
    BY <1>3, <2>2 DEF Behind
  <2>5. Here' = [n |-> Len(mq), src |-> packet, done |-> i, esc |-> FALSE]
    <3>1. i' - 1 = i /\ (pc' = "escaped") = FALSE
      BY <1>3, <2>1
    <3>2. QED
      BY <2>1, <3>1, Zenon DEF Here
  <2>6. QED
    BY <2>1, <2>2, <2>3, <2>4, <2>5, PutQueued
<1>6. CASE PutEscape
  <2>1. /\ pc = "body" /\ pc' = "escaped" /\ i <= Len(packet)
        /\ ring' = Append(ring, EscMark) /\ UNCHANGED <<packet, i, mq>>
    BY <1>6 DEF PutEscape, PutByte
  <2>2. Fits(EscMark, Here)
    BY <1>1, <1>2, <1>3, <2>1 DEF Fits
  <2>3. Behind(EscMark, Here) =
          [n |-> Len(mq), src |-> packet, done |-> i - 1, esc |-> TRUE]
    BY <1>2, <1>3 DEF Behind
  <2>4. Here' = [n |-> Len(mq), src |-> packet, done |-> i - 1, esc |-> TRUE]
    BY <2>1 DEF Here
  <2>5. QED
    BY <1>2, <2>1, <2>2, <2>3, <2>4, PutQueued
<1>7. CASE PutEscaped
  <2>1. /\ pc = "escaped" /\ pc' = "body" /\ i' = i + 1
        /\ ring' = Append(ring, Flip(packet[i])) /\ UNCHANGED <<packet, mq>>
    BY <1>7 DEF PutEscaped, PutByte
  <2>2. i <= Len(packet) /\ IsSpecial(packet[i]) /\ packet[i] \in Byte
    BY <1>1, <2>1 DEF Inv, TypeOK
  <2>3. /\ Flip(packet[i]) \in Byte
        /\ Flip(packet[i]) \notin {EscMark, BeginMark, EndMark}
    <3>1. Flip(packet[i]) \in Byte /\ ~IsSpecial(Flip(packet[i]))
      BY <2>2, FlipByte
    <3>2. QED
      BY <3>1 DEF IsSpecial
  <2>4. Fits(Flip(packet[i]), Here)
    BY <1>1, <1>3, <2>1, <2>2, <2>3 DEF Fits
  <2>5. Behind(Flip(packet[i]), Here) =
          [n |-> Len(mq), src |-> packet, done |-> i, esc |-> FALSE]
    BY <1>3, <2>3 DEF Behind
  <2>6. Here' = [n |-> Len(mq), src |-> packet, done |-> i, esc |-> FALSE]
    <3>1. i' - 1 = i /\ (pc' = "escaped") = FALSE
      BY <1>3, <2>1
    <3>2. QED
      BY <2>1, <3>1, Zenon DEF Here
  <2>7. QED
    BY <2>1, <2>3, <2>4, <2>5, <2>6, PutQueued
<1>8. CASE PutEnd
  <2>1. /\ pc = "body" /\ pc' = "idle" /\ i > Len(packet)
        /\ ring' = Append(ring, EndMark) /\ mq' = Append(mq, packet)
    BY <1>8 DEF PutEnd, PutByte
  <2>2. i - 1 = Len(packet)
    BY <1>1, <2>1 DEF Inv, TypeOK
  <2>3. Fits(EndMark, Here)
    BY <1>2, <1>3, <2>1, <2>2 DEF Fits
  <2>4. QED
    BY <1>2, <2>1, <2>3, PutQueued
<1>9. QED
  BY <1>4, <1>5, <1>6, <1>7, <1>8

(* A call that gives up leaves the bytes of its frame, and no end marker.  *)
LEMMA FailQueued ==
  ASSUME Inv, Queued, PutsFails \/ GetsFails
  PROVE  Queued'
<1>1. /\ UNCHANGED <<ring, mq>> /\ pc' \in {"idle", "read"}
      /\ pc # "read" \/ ring = <<>>
  BY DEF PutsFails, GetsFails, Return
<1>2. ring = <<>> \/ ring[1] = BeginMark
  BY <1>1 DEF Inv, FrameAligned
<1>3. PICK t \in [1..Len(ring) -> Place] : Framed(ring, t, mq)
  BY DEF Queued
<1>4. QED
  BY <1>1, <1>2, <1>3 DEF Queued

(* PROTO_ParseRb takes a byte.                                             *)
LEMMA GetQueued ==
  ASSUME Inv, Queued, GetByte \/ GetEnd
  PROVE  Queued'
<1>1. /\ ring # <<>> /\ pc = "read" /\ ring' = Tail(ring)
      /\ ring \in Seq(Byte) /\ mq \in Seq(Packet) /\ Len(ring) \in Nat
  <2>1. ring # <<>> /\ pc = "read" /\ ring' = Tail(ring)
    BY DEF GetByte, GetEnd
  <2>2. QED
    BY <2>1 DEF Inv, TypeOK
<1>2. /\ Head(ring) = ring[1] /\ ring[1] \in Byte
      /\ ring' # <<>> /\ ring[1] = EndMark => ring'[1] = BeginMark
  BY <1>1, TailAligned DEF Inv, FrameAligned
<1>3. PICK t \in [1..Len(ring) -> Place] :
        /\ Framed(ring, t, mq)
        /\ ring[1] # BeginMark => Reads(parser, t[1])
  BY <1>1 DEF Queued
<1>4. CASE GetByte
  <2>1. /\ ring[1] # EndMark /\ parser' = PROTO_ParseByte(parser, ring[1])
        /\ pc' = "read" /\ mq' = mq
    BY <1>1, <1>2, <1>4 DEF GetByte
  <2> DEFINE s == Tail(ring)
             u == [k \in 1..Len(s) |-> t[k+1]]
  <2>2a. /\ u \in [1..Len(s) -> Place] /\ Framed(s, u, mq)
         /\ s # <<>> => u[1] = t[2] /\ s[1] = ring[2]
    BY <1>1, <1>3, <2>1, FramedTail
  <2> HIDE DEF u, s
  <2>2. /\ u \in [1..Len(ring') -> Place] /\ Framed(ring', u, mq)
        /\ ring' # <<>> => u[1] = t[2] /\ ring'[1] = ring[2]
    BY <1>1, <2>2a DEF s
  <2>3. Reads(parser', Behind(ring[1], t[1]))
    <3>1. t[1] \in Place /\ Fits(ring[1], t[1])
      BY <1>1, <1>3 DEF Framed
    <3>2. parser \in [isBegin : BOOLEAN, isEsc : BOOLEAN, buf : Seq(Byte)]
      BY DEF Inv, TypeOK
    <3>3. QED
      BY <1>2, <1>3, <2>1, <3>1, <3>2, ParseFollows
  <2>4. ring' # <<>> /\ ring'[1] # BeginMark => u[1] = Behind(ring[1], t[1])
    <3>1. ring' # <<>> => 1 \in 1..Len(ring)-1
      BY <1>1
    <3>2. QED
      BY <1>3, <2>2, <3>1 DEF Framed
  <2>5. QED
    BY <2>1, <2>2, <2>3, <2>4 DEF Queued
<1>5. CASE GetEnd
  <2>1. /\ ring[1] = EndMark /\ mq' = Tail(mq)
        /\ pc' \in {"idle", "begin"}
    BY <1>2, <1>5 DEF GetEnd, Return
  <2>1a. pc' = "begin" => i' = 1
    BY <1>5 DEF GetEnd, Return
  <2> DEFINE s == Tail(ring)
             u == [k \in 1..Len(s) |-> Earlier(t[k+1])]
  <2>2a. u \in [1..Len(s) -> Place] /\ Framed(s, u, Tail(mq))
    BY <1>1, <1>3, <2>1, FramedPop
  <2> HIDE DEF u, s
  <2>2. u \in [1..Len(ring') -> Place] /\ Framed(ring', u, mq')
    BY <1>1, <2>1, <2>2a DEF s
  <2>3. QED
    <3>1. ~(ring' # <<>> /\ ring'[1] # BeginMark)
      BY <1>2, <2>1, Zenon
    <3>2. pc' \notin {"body", "escaped"}
      BY <2>1
    <3>3. QED
      BY <2>1a, <2>2, <3>1, <3>2 DEF Queued
<1>6. QED
  BY <1>4, <1>5

-----------------------------------------------------------------------------
IInv == Inv /\ Queued

(* The inductive invariant of the queue.                                   *)
LEMMA QueueInv == Spec => []IInv
<1>1. Init => IInv
  <2> SUFFICES ASSUME Init PROVE IInv
    OBVIOUS
  <2>1. 1 \in 1..Len(packet)+1
    BY FrameAssumption DEF Init
  <2>2. TypeOK
    BY <2>1, FreshType, FrameAssumption DEF Init, TypeOK
  <2>3. FrameAligned
    BY DEF Init, FrameAligned
  <2>4. Queued
    <3> DEFINE t == [k \in 1..Len(ring) |-> Here]
    <3>1. Len(ring) = 0 /\ ring = <<>> /\ mq = <<>> /\ pc = "idle"
      BY DEF Init
    <3>2. t \in [1..Len(ring) -> Place] /\ Framed(ring, t, mq)
      BY <3>1 DEF Framed
    <3>3. QED
      BY <3>1, <3>2 DEF Queued
  <2>5. QED
    BY <2>2, <2>3, <2>4 DEF Inv, IInv
<1>2. IInv /\ [Next]_vars => IInv'
  <2> SUFFICES ASSUME Inv, Queued, [Next]_vars PROVE Inv' /\ Queued'
    BY DEF IInv
  <2>1. CASE \/ \E who \in {"append", "publish"}, p \in Packet : CallPuts(who, p)
             \/ CallGets
    BY <2>1, CallInv, CallQueued
  <2>2. CASE PutBegin \/ PutPlain \/ PutEscape \/ PutEscaped \/ PutEnd
    BY <2>2, PutInv, PutsQueued
  <2>3. CASE PutsFails \/ GetsFails
    BY <2>3, FailInv, FailQueued
  <2>4. CASE GetByte \/ GetEnd
    <3>1. GetEnd => mq # <<>>
      BY OldestIsRead DEF GetEnd
    <3>2. QED
      BY <2>4, <3>1, GetInv, GetQueued
  <2>5. CASE UNCHANGED vars
    <3>1. Inv'
      BY <2>5 DEF vars, Inv, TypeOK, FrameAligned
    <3>2. Queued'
      BY <2>5 DEF vars, Queued, Here
    <3>3. QED
      BY <3>1, <3>2
  <2>6. QED
    BY <2>1, <2>2, <2>3, <2>4, <2>5 DEF Next, Step
<1>3. QED
  BY <1>1, <1>2, PTL DEF Spec

(* The ring stays within its size and the frames in it stay apart, in the  *)
(* middle of every call and after every call that gave up half way         *)
(* (proto.c:56-128): a reader never depends on the unset isBegin.          *)
THEOREM FramesStayAligned == Spec => [](TypeOK /\ FrameAligned)
<1>1. IInv => TypeOK /\ FrameAligned
  BY DEF IInv, Inv
<1>2. QED
  BY <1>1, QueueInv, PTL

(* Every variable keeps its type, in the middle of every call too: the     *)
(* ring never holds more than its size, and a call's position never leaves *)
(* its packet (proto.c:56-128, queue.c:42-50).                             *)
THEOREM QueueTyped == Spec => []TypeOK
BY FramesStayAligned, PTL

(* The queue and the loop of its publishers implement LossyQueue: what     *)
(* QUEUE_Gets hands out is the oldest packet that was accepted and not yet *)
(* handed out, whole and unchanged, behind whatever refused calls left in  *)
(* the ring; a publisher's loop throws packets out oldest first, and says  *)
(* that there is none left only when there is none (queue.c, proto.c,      *)
(* mqtt.c:521-527).                                                        *)
THEOREM QueueImplementsLossyQueue == Spec => ImplementsLossyQueue
<1>1. Init => Abstract!QueueInit
  BY DEF Init, Abstract!QueueInit
<1>2. IInv /\ [Next]_vars => [Abstract!QueueNext]_(Abstract!queueVars)
  <2> SUFFICES ASSUME Inv, Queued, [Next]_vars
               PROVE  [Abstract!QueueNext]_(Abstract!queueVars)
    BY DEF IInv
  <2> USE DEF Abstract!QueueNext, Abstract!queueVars
  <2>1. ASSUME NEW who \in {"append", "publish"}, NEW p \in Packet, CallPuts(who, p)
        PROVE  Abstract!Call
    BY <2>1 DEF CallPuts, Abstract!Call
  <2>2. CASE CallGets
    BY <2>2 DEF CallGets, Abstract!Call
  <2>3. CASE PutBegin \/ PutPlain \/ PutEscape \/ PutEscaped \/ GetByte
    BY <2>3 DEF PutBegin, PutPlain, PutEscape, PutEscaped, PutByte, GetByte
  <2>4. CASE PutEnd
    <3>1. caller \in {"append", "publish"}
      BY <2>4 DEF PutEnd, Inv, TypeOK
    <3>2. QED
      BY <2>4, <3>1 DEF PutEnd, PutByte, Abstract!Accept, Abstract!Return
  <2>5. CASE PutsFails
    BY <2>5 DEF PutsFails, Return, Abstract!Refuse, Abstract!Return
  <2>6. CASE GetEnd
    <3>1. mq # <<>> /\ Head(mq) = parser.buf
      BY <2>6, OldestIsRead DEF GetEnd
    <3>2. QED
      BY <2>6, <3>1 DEF GetEnd, Return, Abstract!Evict, Abstract!Take, Abstract!Return
  <2>7. CASE GetsFails
    <3>1. mq = <<>> /\ caller \in {"publish", "task"}
      BY <2>7, OldestIsRead DEF GetsFails, Inv, TypeOK
    <3>2. QED
      BY <2>7, <3>1 DEF GetsFails, Return, Abstract!Refuse, Abstract!NothingToTake,
                        Abstract!Return
  <2>8. CASE UNCHANGED vars
    BY <2>8 DEF vars
  <2>9. QED
    BY <2>1, <2>2, <2>3, <2>4, <2>5, <2>6, <2>7, <2>8 DEF Next, Step
<1>3. QED
  BY <1>1, <1>2, QueueInv, PTL DEF Spec, ImplementsLossyQueue, Abstract!QueueSpec
=============================================================================
