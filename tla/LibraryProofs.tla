---------------------------- MODULE LibraryProofs ----------------------------
(***************************************************************************)
(* Proofs about the two parts of lib/mqtt that call nothing else.  RingBuf,*)
(* for every set of bytes and every buffer size: the inductive invariant   *)
(* RingTypeOK /\ PointersAgree, and the refinement of the bounded queue    *)
(* ByteFifo.  Utils, for every text, word and int: what each parser's      *)
(* variables hold when it has read that much of the text, and from it what *)
(* it returns.                                                             *)
(***************************************************************************)
EXTENDS RingBuf, Utils, SequenceTheorems, WellFoundedInduction, TLAPS

Inv == RingTypeOK /\ PointersAgree

(* The set-up calls re-establish the invariant whatever came before.       *)
LEMMA InitCallInv ==
  ASSUME Inv, NEW n \in Sizes, NEW allocated \in BOOLEAN,
         RINGBUF_Init(n, allocated)
  PROVE  Inv'
  BY RingAssumption DEF Inv, RingTypeOK, PointersAgree, RINGBUF_Init, Slot, Ok, Failed

(* RINGBUF_Put keeps the pointers in range and in agreement, across the    *)
(* wrap-around of p_w (ringbuf.c:42).                                      *)
LEMMA PutInv ==
  ASSUME Inv, NEW c \in Value, RINGBUF_Put(c)
  PROVE  Inv'
<1>1. CASE fill_cnt >= size
  BY <1>1 DEF Inv, RingTypeOK, PointersAgree, RINGBUF_Put, Slot, Ok, Failed
<1>2. CASE fill_cnt < size
  <2>1. /\ fill_cnt' = fill_cnt + 1
        /\ slots' = [slots EXCEPT ![p_w] = c]
        /\ p_w' = Wrap(p_w + 1)
        /\ status' = Ok
        /\ UNCHANGED <<p_r, size, byte>>
    BY <1>2 DEF RINGBUF_Put, Inv, RingTypeOK
  <2>2. RingTypeOK'
    BY <1>2, <2>1 DEF Inv, RingTypeOK, Wrap, Ok, Failed
  <2>3. PointersAgree'
    BY <1>2, <2>1 DEF Inv, RingTypeOK, PointersAgree, Slot, Wrap
  <2>4. QED
    BY <2>2, <2>3 DEF Inv
<1>3. QED
  BY <1>1, <1>2 DEF Inv, RingTypeOK

(* RINGBUF_Get does the same for p_r (ringbuf.c:63).                       *)
LEMMA GetInv ==
  ASSUME Inv, RINGBUF_Get
  PROVE  Inv'
<1>1. CASE fill_cnt <= 0
  BY <1>1 DEF Inv, RingTypeOK, PointersAgree, RINGBUF_Get, Slot, Ok, Failed
<1>2. CASE fill_cnt > 0
  <2>1. /\ fill_cnt' = fill_cnt - 1
        /\ byte' = slots[p_r]
        /\ p_r' = Wrap(p_r + 1)
        /\ status' = Ok
        /\ UNCHANGED <<slots, p_w, size>>
    BY <1>2 DEF RINGBUF_Get, Inv, RingTypeOK
  <2>2. RingTypeOK'
    BY <1>2, <2>1 DEF Inv, RingTypeOK, Wrap, Ok, Failed
  <2>3. PointersAgree'
    BY <1>2, <2>1 DEF Inv, RingTypeOK, PointersAgree, Slot, Wrap
  <2>4. QED
    BY <2>2, <2>3 DEF Inv
<1>3. QED
  BY <1>1, <1>2 DEF Inv, RingTypeOK

(* The pointers stay inside the buffer and agree with fill_cnt in every    *)
(* reachable state, for every buffer size (ringbuf.c:16-67).               *)
THEOREM RingInvariant == RingSpec => [](RingTypeOK /\ PointersAgree)
<1>1. RingInit => Inv
  BY DEF RingInit, Inv, RingTypeOK, PointersAgree, Ok, Failed
<1>2. Inv /\ [RingNext]_ringVars => Inv'
  <2> SUFFICES ASSUME Inv, [RingNext]_ringVars PROVE Inv'
    OBVIOUS
  <2>1. CASE \E n \in Sizes, allocated \in BOOLEAN : RINGBUF_Init(n, allocated)
    BY <2>1, InitCallInv
  <2>2. CASE \E c \in Value : RINGBUF_Put(c)
    BY <2>2, PutInv
  <2>3. CASE RINGBUF_Get
    BY <2>3, GetInv
  <2>4. CASE UNCHANGED ringVars
    BY <2>4 DEF ringVars, Inv, RingTypeOK, PointersAgree, Slot
  <2>5. QED
    BY <2>1, <2>2, <2>3, <2>4 DEF RingNext
<1>3. Inv => RingTypeOK /\ PointersAgree
  BY DEF Inv
<1>4. QED
  BY <1>1, <1>2, <1>3, PTL DEF RingSpec

(* Every variable keeps its type: the fill count never leaves 0..size, and  *)
(* the pointers never leave the buffer (ringbuf.c:32-67).                  *)
THEOREM RingTyped == RingSpec => []RingTypeOK
BY RingInvariant, PTL

-----------------------------------------------------------------------------
(* The contents are a sequence of bytes of length fill_cnt.                *)
LEMMA ContentsType ==
  ASSUME Inv
  PROVE  /\ Contents \in Seq(Value)
         /\ Len(Contents) = fill_cnt
         /\ \A k \in 1..fill_cnt : Contents[k] = slots[Slot(k - 1)]
<1>1. \A k \in 1..fill_cnt : slots[Slot(k - 1)] \in Value
  BY DEF Inv, RingTypeOK, Slot
<1>2. fill_cnt \in Nat
  BY DEF Inv, RingTypeOK
<1>3. QED
  BY <1>1, <1>2 DEF Contents

(* A successful RINGBUF_Put appends to the contents.                       *)
LEMMA PutAppends ==
  ASSUME Inv, NEW c \in Value, RINGBUF_Put(c), fill_cnt < size
  PROVE  Contents' = Append(Contents, c)
<1>1. /\ fill_cnt' = fill_cnt + 1
      /\ slots' = [slots EXCEPT ![p_w] = c]
      /\ UNCHANGED <<p_r, size>>
  BY DEF RINGBUF_Put, Inv, RingTypeOK
<1>2. Inv'
  BY PutInv
<1>3. /\ Contents \in Seq(Value)
      /\ Len(Contents) = fill_cnt
      /\ \A k \in 1..fill_cnt : Contents[k] = slots[Slot(k - 1)]
  BY ContentsType
<1>4. /\ Contents' \in Seq(Value)
      /\ Len(Contents') = fill_cnt'
      /\ \A k \in 1..fill_cnt' : Contents'[k] = slots'[Slot(k - 1)']
  <2>1. fill_cnt' \in Nat
    BY <1>2 DEF Inv, RingTypeOK
  <2>2. ASSUME NEW k \in 1..fill_cnt' PROVE slots'[Slot(k - 1)'] \in Value
    <3>1. Slot(k - 1)' = Slot(k - 1)
      BY <1>1 DEF Slot
    <3>2. Slot(k - 1) \in 0..size-1
      BY <1>1 DEF Slot, Inv, RingTypeOK
    <3>3. slots' \in [0..size-1 -> Value]
      BY <1>1 DEF Inv, RingTypeOK
    <3>4. QED
      BY <3>1, <3>2, <3>3
  <2>3. QED
    BY <2>1, <2>2 DEF Contents
<1>5. \A k \in 1..fill_cnt' : Contents'[k] = Append(Contents, c)[k]
  <2>1. TAKE k \in 1..fill_cnt'
  <2>2. Slot(k - 1)' = Slot(k - 1)
    BY <1>1 DEF Slot
  <2>3. CASE k <= fill_cnt
    <3>1. Slot(k - 1) # p_w
      BY <2>3 DEF Inv, RingTypeOK, PointersAgree, Slot
    <3>2. Slot(k - 1) \in 0..size-1
      BY <2>3 DEF Inv, RingTypeOK, Slot
    <3>3. slots'[Slot(k - 1)] = slots[Slot(k - 1)]
      BY <1>1, <3>1, <3>2 DEF Inv, RingTypeOK
    <3>4. QED
      BY <1>3, <1>4, <2>2, <2>3, <3>3 DEF Inv, RingTypeOK
  <2>4. CASE k = fill_cnt + 1
    <3>1. Slot(k - 1) = p_w
      BY <2>4 DEF Inv, RingTypeOK, PointersAgree, Slot
    <3>2. slots'[p_w] = c
      BY <1>1 DEF Inv, RingTypeOK
    <3>3. QED
      BY <1>3, <1>4, <2>2, <2>4, <3>1, <3>2 DEF Inv, RingTypeOK
  <2>5. k <= fill_cnt \/ k = fill_cnt + 1
    BY <1>1 DEF Inv, RingTypeOK
  <2>6. QED
    BY <2>3, <2>4, <2>5
<1>6. /\ Append(Contents, c) \in Seq(Value)
      /\ Len(Append(Contents, c)) = fill_cnt'
  BY <1>1, <1>3
<1>7. QED
  BY <1>4, <1>5, <1>6, SeqEqual

(* A successful RINGBUF_Get hands out the head and leaves the tail.        *)
LEMMA GetTakesHead ==
  ASSUME Inv, RINGBUF_Get, fill_cnt > 0
  PROVE  /\ Contents # <<>>
         /\ byte' = Head(Contents)
         /\ Contents' = Tail(Contents)
<1>1. /\ fill_cnt' = fill_cnt - 1
      /\ byte' = slots[p_r]
      /\ p_r' = Wrap(p_r + 1)
      /\ UNCHANGED <<slots, size>>
  BY DEF RINGBUF_Get, Inv, RingTypeOK
<1>2. Inv'
  BY GetInv
<1>3. /\ Contents \in Seq(Value)
      /\ Len(Contents) = fill_cnt
      /\ \A k \in 1..fill_cnt : Contents[k] = slots[Slot(k - 1)]
  BY ContentsType
<1>4. /\ Contents' \in Seq(Value)
      /\ Len(Contents') = fill_cnt'
      /\ \A k \in 1..fill_cnt' : Contents'[k] = slots'[Slot(k - 1)']
  <2>1. fill_cnt' \in Nat
    BY <1>2 DEF Inv, RingTypeOK
  <2>2. ASSUME NEW k \in 1..fill_cnt' PROVE slots'[Slot(k - 1)'] \in Value
    <3>1. Slot(k - 1)' = Slot(k)
      BY <1>1 DEF Slot, Wrap, Inv, RingTypeOK
    <3>2. Slot(k) \in 0..size-1
      BY <1>1 DEF Slot, Inv, RingTypeOK
    <3>3. slots' \in [0..size-1 -> Value]
      BY <1>1 DEF Inv, RingTypeOK
    <3>4. QED
      BY <3>1, <3>2, <3>3
  <2>3. QED
    BY <2>1, <2>2 DEF Contents
<1>5. Contents # <<>>
  BY <1>3
<1>6. byte' = Head(Contents)
  <2>1. Head(Contents) = slots[Slot(0)]
    BY <1>3, <1>5 DEF Inv, RingTypeOK
  <2>2. Slot(0) = p_r
    BY DEF Slot, Inv, RingTypeOK
  <2>3. QED
    BY <1>1, <2>1, <2>2
<1>7. /\ Tail(Contents) \in Seq(Value)
      /\ Len(Tail(Contents)) = fill_cnt - 1
      /\ \A k \in 1..fill_cnt - 1 : Tail(Contents)[k] = Contents[k + 1]
  BY <1>3, <1>5, HeadTailProperties
<1>8. \A k \in 1..fill_cnt' : Contents'[k] = Tail(Contents)[k]
  <2>1. TAKE k \in 1..fill_cnt'
  <2>2. Slot(k - 1)' = Slot(k)
    BY <1>1 DEF Slot, Wrap, Inv, RingTypeOK
  <2>3. QED
    BY <1>1, <1>3, <1>4, <1>7, <2>2 DEF Inv, RingTypeOK
<1>9. Contents' = Tail(Contents)
  BY <1>1, <1>4, <1>7, <1>8, SeqEqual
<1>10. QED
  BY <1>5, <1>6, <1>9

-----------------------------------------------------------------------------
(* RINGBUF_Put is the queue's Put.                                         *)
LEMMA PutRefines ==
  ASSUME Inv, NEW c \in Value, RINGBUF_Put(c)
  PROVE  Fifo!Put(c)
<1>1. Len(Contents) = fill_cnt
  BY ContentsType
<1>2. CASE fill_cnt >= size
  <2>1. /\ status' = Failed /\ Failed = Fifo!Failed
        /\ UNCHANGED <<slots, p_r, fill_cnt, size, byte>>
    BY <1>2 DEF RINGBUF_Put, Inv, RingTypeOK, Failed, Fifo!Failed
  <2>2. Contents' = Contents
    BY <2>1 DEF Contents, Slot
  <2>3. Len(Contents) = size
    BY <1>1, <1>2 DEF Inv, RingTypeOK
  <2>4. QED
    BY <2>1, <2>2, <2>3 DEF Fifo!Put
<1>3. CASE fill_cnt < size
  <2>1. Contents' = Append(Contents, c)
    BY <1>3, PutAppends
  <2>2. status' = 0 /\ UNCHANGED <<size, byte>>
    BY <1>3 DEF RINGBUF_Put, Inv, RingTypeOK, Ok
  <2>3. QED
    BY <1>1, <1>3, <2>1, <2>2 DEF Fifo!Put, Fifo!Ok
<1>4. QED
  BY <1>2, <1>3 DEF Inv, RingTypeOK

(* RINGBUF_Get is the queue's Get.                                         *)
LEMMA GetRefines ==
  ASSUME Inv, RINGBUF_Get
  PROVE  Fifo!Get
<1>1. Contents \in Seq(Value) /\ Len(Contents) = fill_cnt
  BY ContentsType
<1>2. CASE fill_cnt <= 0
  <2>1. Contents = <<>>
    BY <1>1, <1>2 DEF Inv, RingTypeOK
  <2>2. QED
    BY <1>2, <2>1 DEF Inv, RingTypeOK, RINGBUF_Get, Fifo!Get, Contents, Slot, Failed, Fifo!Failed
<1>3. CASE fill_cnt > 0
  <2>1. Contents # <<>> /\ byte' = Head(Contents) /\ Contents' = Tail(Contents)
    BY <1>3, GetTakesHead
  <2>2. status' = 0 /\ UNCHANGED size
    BY <1>3 DEF RINGBUF_Get, Inv, RingTypeOK, Ok
  <2>3. QED
    BY <2>1, <2>2 DEF Fifo!Get, Fifo!Ok
<1>4. QED
  BY <1>2, <1>3 DEF Inv, RingTypeOK

(* RINGBUF_Init is the queue's set-up.                                     *)
LEMMA SetupRefines ==
  ASSUME Inv, NEW n \in Sizes, NEW allocated \in BOOLEAN,
         RINGBUF_Init(n, allocated)
  PROVE  Fifo!Setup(n)
<1>1. Contents' = <<>>
  BY DEF RINGBUF_Init, Contents
<1>2. QED
  BY <1>1 DEF RINGBUF_Init, Fifo!Setup, Ok, Failed, Fifo!Ok, Fifo!Failed

(* The ring buffer implements the bounded byte queue: what its callers see *)
(* never depends on where the pointers stand (ringbuf.c:16-67).            *)
THEOREM RingImplementsFifo == RingSpec => ImplementsFifo
<1>1. RingInit => Fifo!FifoInit
  BY DEF RingInit, Fifo!FifoInit, Contents, Ok, Fifo!Ok
<1>2. Inv /\ [RingNext]_ringVars => [Fifo!FifoNext]_(Fifo!fifoVars)
  <2> SUFFICES ASSUME Inv, [RingNext]_ringVars
               PROVE  Fifo!FifoNext \/ UNCHANGED Fifo!fifoVars
    OBVIOUS
  <2>1. CASE \E n \in Sizes, allocated \in BOOLEAN : RINGBUF_Init(n, allocated)
    BY <2>1, SetupRefines DEF Fifo!FifoNext
  <2>2. CASE \E c \in Value : RINGBUF_Put(c)
    BY <2>2, PutRefines DEF Fifo!FifoNext
  <2>3. CASE RINGBUF_Get
    BY <2>3, GetRefines DEF Fifo!FifoNext
  <2>4. CASE UNCHANGED ringVars
    BY <2>4 DEF ringVars, Fifo!fifoVars, Contents, Slot
  <2>5. QED
    BY <2>1, <2>2, <2>3, <2>4 DEF RingNext
<1>3. RingSpec => []Inv
  BY RingInvariant, PTL DEF Inv
<1>4. QED
  BY <1>1, <1>2, <1>3, PTL DEF RingSpec, ImplementsFifo, Fifo!FifoSpec
-----------------------------------------------------------------------------
(* Induction over the naturals, from the order being well founded.         *)
LEMMA LeastNat ==
  ASSUME NEW T \in SUBSET Nat, T # {}
  PROVE  \E x \in T : \A y \in T : x <= y
<1> DEFINE R == {ss \in Nat \X Nat : ss[1] < ss[2]}
<1>1. IsWellFoundedOn(R, Nat)
  BY NatLessThanWellFounded DEF OpToRel
<1>2. PICK x \in T : \A y \in T : ~ (<<y, x>> \in R)
  <2> HIDE DEF R
  <2> QED BY <1>1, WFMin
<1>3. ASSUME NEW y \in T PROVE x <= y
  <2>1. <<y, x>> \in Nat \X Nat /\ <<y, x>>[1] = y /\ <<y, x>>[2] = x
    OBVIOUS
  <2>2. ~ (y < x)
    BY <1>2, <2>1
  <2>3. QED
    BY <2>2
<1>4. QED
  BY <1>2, <1>3

LEMMA Induct ==
  ASSUME NEW S, 0 \in S, \A n \in Nat : n \in S => n + 1 \in S
  PROVE  Nat \subseteq S
<1>1. SUFFICES ASSUME Nat \ S # {} PROVE FALSE
  OBVIOUS
<1>2. PICK x \in Nat \ S : \A y \in Nat \ S : x <= y
  BY <1>1, LeastNat
<1>3. x # 0 /\ x - 1 \in Nat /\ x - 1 \in S
  BY <1>2
<1>4. QED
  BY <1>2, <1>3
-----------------------------------------------------------------------------
(* The parsers of utils.c.  The recursive function of Number gives the     *)
(* value of each prefix of the digits; there is one such function.         *)
Values(s, base, n, f) ==
  f = [k \in 0..n |-> IF k = 0 THEN 0 ELSE f[k - 1] * base + s[k]]

LEMMA NumberUnfolded ==
  ASSUME NEW s, NEW base, NEW w, Values(s, base, Len(s), w)
  PROVE  \E f : Values(s, base, Len(s), f) /\ Number(s, base) = f[Len(s)]
<1> DEFINE value[k \in 0..Len(s)] == IF k = 0 THEN 0 ELSE value[k - 1] * base + s[k]
<1>1. Values(s, base, Len(s), value)
  BY Zenon DEF Values
<1>2. Number(s, base) = value[Len(s)]
  BY Zenon DEF Number
<1> HIDE DEF value
<1>3. QED
  BY <1>1, <1>2

(* A digit more on the right multiplies what is there by the base.         *)
Growing(s, t, base, n, f) ==
  /\ Values(s, base, n, f) /\ \A k \in 0..n : f[k] \in Nat
  /\ t[n + 1] \in Nat /\ \A k \in 1..n : t[k] = s[k]
Grown(t, base, n, f, g) ==
  /\ Values(t, base, n + 1, g) /\ \A k \in 0..n+1 : g[k] \in Nat
  /\ g[n] = f[n] /\ g[n + 1] = f[n] * base + t[n + 1]

LEMMA ValuesGrow ==
  ASSUME NEW base \in Nat, NEW n \in Nat, NEW s, NEW t, NEW f, Growing(s, t, base, n, f)
  PROVE  \E g : Grown(t, base, n, f, g)
<1>0. /\ Values(s, base, n, f) /\ \A k \in 0..n : f[k] \in Nat
      /\ t[n + 1] \in Nat /\ \A k \in 1..n : t[k] = s[k]
  BY Zenon DEF Growing
<1> DEFINE x == f[n] * base + t[n + 1]
           g == [k \in 0..n+1 |-> IF k = n + 1 THEN x ELSE f[k]]
<1>1. f = [k \in 0..n |-> IF k = 0 THEN 0 ELSE f[k - 1] * base + s[k]]
  BY <1>0, Zenon DEF Values
<1>2. f[n] \in Nat /\ f[n] * base \in Nat
  BY <1>0
<1>3. x \in Nat
  BY <1>0, <1>2
<1>4. g[n] = f[n] /\ g[n + 1] = x /\ g[0] = 0
  BY <1>1
<1>5. ASSUME NEW k \in 1..n PROVE g[k] = g[k - 1] * base + t[k]
  <2>1. k \in 0..n /\ k - 1 \in 0..n /\ k # n + 1 /\ k - 1 # n + 1 /\ k # 0
    OBVIOUS
  <2>2. f[k] = f[k - 1] * base + s[k]
    BY <1>1, <2>1
  <2>3. g[k] = f[k] /\ g[k - 1] = f[k - 1] /\ t[k] = s[k]
    BY <1>0, <2>1
  <2>4. QED
    BY <2>2, <2>3, Zenon
<1>6. g[n + 1] = g[(n + 1) - 1] * base + t[n + 1]
  <2>1. (n + 1) - 1 = n
    OBVIOUS
  <2>2. QED
    BY <1>4, <2>1, Zenon
<1>7. g = [k \in 0..n+1 |-> IF k = 0 THEN 0 ELSE g[k - 1] * base + t[k]]
  <2>1. ASSUME NEW k \in 0..n+1
        PROVE  g[k] = IF k = 0 THEN 0 ELSE g[k - 1] * base + t[k]
    <3>1. k = 0 \/ (k \in 1..n /\ k # 0) \/ (k = n + 1 /\ k # 0)
      OBVIOUS
    <3> HIDE DEF g
    <3>2. QED
      BY <1>4, <1>5, <1>6, <3>1, Zenon
  <2>2. g = [k \in 0..n+1 |-> g[k]]
    OBVIOUS
  <2> HIDE DEF g
  <2>3. QED
    BY <2>1, <2>2
<1>8. \A k \in 0..n+1 : g[k] \in Nat
  BY <1>0, <1>3
<1> HIDE DEF g
<1>9. QED
  BY <1>4, <1>7, <1>8, Zenon DEF Values, Grown

LEMMA ValuesExist ==
  ASSUME NEW base \in Nat, NEW s \in Seq(Nat)
  PROVE  \E f : Values(s, base, Len(s), f) /\ \A k \in 0..Len(s) : f[k] \in Nat
<1> DEFINE S == {m \in Nat : m <= Len(s) =>
                   \E f : Values(s, base, m, f) /\ \A k \in 0..m : f[k] \in Nat}
<1>1. 0 \in S
  <2> DEFINE w == [k \in 0..0 |-> 0]
  <2>1. w = [k \in 0..0 |-> IF k = 0 THEN 0 ELSE w[k - 1] * base + s[k]]
    OBVIOUS
  <2>2. \A k \in 0..0 : w[k] \in Nat
    OBVIOUS
  <2> HIDE DEF w
  <2>3. QED
    BY <2>1, <2>2 DEF Values
<1>2. ASSUME NEW m \in Nat, m \in S PROVE m + 1 \in S
  <2>1. SUFFICES ASSUME m + 1 <= Len(s)
                 PROVE \E f : Values(s, base, m + 1, f) /\ \A k \in 0..m+1 : f[k] \in Nat
    OBVIOUS
  <2>2. PICK f : Values(s, base, m, f) /\ \A k \in 0..m : f[k] \in Nat
    BY <1>2, <2>1
  <2>3. s[m + 1] \in Nat
    BY <2>1
  <2>4. Growing(s, s, base, m, f)
    BY <2>2, <2>3, Zenon DEF Growing
  <2>5. PICK g : Grown(s, base, m, f, g)
    BY <2>4, ValuesGrow, Zenon
  <2>6. QED
    BY <2>5, Zenon DEF Grown
<1>3. Len(s) \in S
  <2> HIDE DEF S
  <2>1. QED
    BY <1>1, <1>2, Induct, LenProperties
<1>4. QED
  BY <1>3

LEMMA OneValues ==
  ASSUME NEW s, NEW base, NEW n \in Nat, NEW f, NEW g,
         Values(s, base, n, f), Values(s, base, n, g)
  PROVE  f = g
<1> DEFINE S == {m \in Nat : m \in 0..n => f[m] = g[m]}
<1>1. f = [k \in 0..n |-> IF k = 0 THEN 0 ELSE f[k - 1] * base + s[k]]
  BY Zenon DEF Values
<1>2. g = [k \in 0..n |-> IF k = 0 THEN 0 ELSE g[k - 1] * base + s[k]]
  BY Zenon DEF Values
<1>3. 0 \in S
  BY <1>1, <1>2
<1>4. ASSUME NEW m \in Nat, m \in S PROVE m + 1 \in S
  <2>1. SUFFICES ASSUME m + 1 \in 0..n PROVE f[m + 1] = g[m + 1]
    OBVIOUS
  <2>2. m \in 0..n /\ f[m] = g[m] /\ m + 1 # 0 /\ (m + 1) - 1 = m
    BY <1>4, <2>1
  <2>3. f[m + 1] = f[m] * base + s[m + 1]
    BY <1>1, <2>1, <2>2
  <2>4. g[m + 1] = g[m] * base + s[m + 1]
    BY <1>2, <2>1, <2>2
  <2>5. QED
    BY <2>2, <2>3, <2>4, Zenon
<1>5. Nat \subseteq S
  <2> HIDE DEF S
  <2> QED BY <1>3, <1>4, Induct
<1>6. ASSUME NEW k \in 0..n PROVE f[k] = g[k]
  BY <1>5
<1>7. QED
  BY <1>1, <1>2, <1>6

LEMMA NumberIs ==
  ASSUME NEW s, NEW base, Len(s) \in Nat, NEW w, Values(s, base, Len(s), w)
  PROVE  Number(s, base) = w[Len(s)]
BY NumberUnfolded, OneValues

LEMMA NumberEmpty == \A base \in Nat : Number(<<>>, base) = 0
<1>1. ASSUME NEW base \in Nat PROVE Number(<<>>, base) = 0
  <2>1. PICK f : Values(<<>>, base, Len(<<>>), f)
    BY ValuesExist, EmptySeq
  <2>2. Len(<<>>) = 0 /\ 0 \in 0..0
    OBVIOUS
  <2>3. f[0] = 0
    BY <2>1, <2>2 DEF Values
  <2>4. QED
    BY <2>1, <2>2, <2>3, NumberIs
<1>2. QED
  BY <1>1

LEMMA NumberNat ==
  ASSUME NEW base \in Nat, NEW s \in Seq(Nat)
  PROVE  Number(s, base) \in Nat
<1>1. PICK f : Values(s, base, Len(s), f) /\ \A k \in 0..Len(s) : f[k] \in Nat
  BY ValuesExist
<1>2. Len(s) \in Nat /\ Len(s) \in 0..Len(s)
  OBVIOUS
<1>3. QED
  BY <1>1, <1>2, NumberIs

LEMMA NumberAppend ==
  ASSUME NEW base \in Nat, NEW s \in Seq(Nat), NEW c \in Nat
  PROVE  Number(Append(s, c), base) = Number(s, base) * base + c
<1> DEFINE t == Append(s, c)
           n == Len(s)
<1>1. PICK f : Values(s, base, n, f) /\ \A k \in 0..n : f[k] \in Nat
  BY ValuesExist
<1>2. /\ n \in Nat /\ Len(t) = n + 1 /\ t[n + 1] = c
      /\ \A k \in 1..n : t[k] = s[k]
  OBVIOUS
<1> HIDE DEF t
<1>3. PICK g : Values(t, base, n + 1, g) /\ g[n + 1] = f[n] * base + t[n + 1]
  <2> HIDE DEF n
  <2>1. n \in Nat /\ t[n + 1] \in Nat
    BY <1>2
  <2>2. Growing(s, t, base, n, f)
    BY <1>1, <1>2, <2>1, Zenon DEF Growing
  <2>3. PICK g : Grown(t, base, n, f, g)
    BY <2>1, <2>2, ValuesGrow, Zenon
  <2>4. QED
    BY <2>3, Zenon DEF Grown
<1>4. Number(s, base) = f[n] /\ Number(t, base) = g[n + 1]
  BY <1>1, <1>2, <1>3, NumberIs
<1>5. QED
  BY <1>2, <1>3, <1>4 DEF t
-----------------------------------------------------------------------------
(* The characters of a text.                                               *)
Text == Seq(0..Other)

Taken(T, s, m, n, p) ==
  /\ p \in Seq(T) /\ Len(p) = (IF m <= n THEN n - m + 1 ELSE 0)
  /\ \A k \in 1..n - m + 1 : p[k] = s[m + k - 1]

LEMMA SubSeqIs ==
  ASSUME NEW T, NEW s, NEW m \in Int, NEW n \in Int, \A k \in m..n : s[k] \in T
  PROVE  Taken(T, s, m, n, SubSeq(s, m, n))
<1>1. /\ SubSeq(s, m, n) \in Seq(T)
      /\ Len(SubSeq(s, m, n)) = IF m <= n THEN n - m + 1 ELSE 0
      /\ \A i \in 1..n - m + 1 : SubSeq(s, m, n)[i] = s[m + i - 1]
  BY SubSeqProperties
<1>2. QED
  BY <1>1, Zenon DEF Taken

(* A part of a sequence.                                                   *)
Cut(t, a, b) == SubSeq(t, a + 1, b)

LEMMA CutIs ==
  ASSUME NEW t \in Text, NEW a \in Nat, NEW b \in Nat, a <= b, b <= Len(t)
  PROVE  /\ Cut(t, a, b) \in Text
         /\ Len(Cut(t, a, b)) = b - a
         /\ \A j \in 1..b - a : Cut(t, a, b)[j] = t[a + j]
<1>1. /\ \A j \in a + 1..b : t[j] \in 0..Other
      /\ a + 1 \in Int /\ b \in Int
  <2>1. Len(t) \in Nat /\ \A j \in 1..Len(t) : t[j] \in 0..Other
    BY ElementOfSeq, LenProperties DEF Text
  <2>2. \A j \in a + 1..b : j \in 1..Len(t)
    BY <2>1
  <2>3. QED
    BY <2>1, <2>2
<1>2. PICK x : x = SubSeq(t, a + 1, b)
  BY Zenon
<1>3. Taken(0..Other, t, a + 1, b, x)
  BY <1>1, <1>2, SubSeqIs, Zenon
<1>4. /\ x \in Text /\ Len(x) = IF a + 1 <= b THEN b - (a + 1) + 1 ELSE 0
      /\ \A j \in 1..b - (a + 1) + 1 : x[j] = t[a + 1 + j - 1]
  BY <1>3, Zenon DEF Taken, Text
<1>5. /\ (IF a + 1 <= b THEN b - (a + 1) + 1 ELSE 0) = b - a /\ b - (a + 1) + 1 = b - a
      /\ \A j \in 1..b - a : a + 1 + j - 1 = a + j
  OBVIOUS
<1>6. Len(x) = b - a /\ \A j \in 1..b - a : x[j] = t[a + j]
  BY <1>4, <1>5, Zenon
<1>7. QED
  BY <1>2, <1>4, <1>6, Zenon DEF Cut

(* A parser has read t up to the place m, the first behind the digits of   *)
(* the number i + 1; q[1] to q[i] are the dots before it.                  *)
Piece(t, q, k) == Cut(t, q[k - 1], q[k] - 1)
Scanned(t, m, i, q) ==
  /\ q \in [0..4 -> Nat] /\ q[0] = 0 /\ i \in 0..3
  /\ m \in Nat /\ m <= Len(t) + 1 /\ q[i + 1] = m
  /\ \A k \in 1..i+1 : /\ q[k - 1] < q[k]
                       /\ \A j \in q[k - 1] + 1..q[k] - 1 : t[j] \in Decimal
  /\ \A k \in 1..i : t[q[k]] = Dot

LEMMA ScannedNothing == \E q : Scanned(<<>>, 1, 0, q)
<1> DEFINE q == [k \in 0..4 |-> k]
<1>1. q \in [0..4 -> Nat] /\ q[0] = 0 /\ q[0 + 1] = 1 /\ \A k \in 1..0+1 : q[k - 1] = 0 /\ q[k] = 1
  OBVIOUS
<1>2. Len(<<>>) = 0
  OBVIOUS
<1> HIDE DEF q
<1>3. Scanned(<<>>, 1, 0, q)
  BY <1>1, <1>2 DEF Scanned
<1>4. QED
  BY <1>3

LEMMA AppendIs ==
  ASSUME NEW t \in Text, NEW c \in 0..Other
  PROVE  /\ Append(t, c) \in Text /\ Len(Append(t, c)) = Len(t) + 1
         /\ Append(t, c)[Len(t) + 1] = c /\ Len(t) \in Nat
         /\ \A k \in 1..Len(t) : Append(t, c)[k] = t[k]
BY DEF Text

(* The dots are in order, all before the place.                            *)
LEMMA Order ==
  ASSUME NEW t, Len(t) \in Nat, NEW m, NEW i, NEW q, Scanned(t, m, i, q)
  PROVE  /\ \A k \in 0..i : q[k] \in Nat /\ q[k] < m
         /\ \A k \in 1..i+1 : /\ q[k] \in Nat /\ q[k] <= m /\ q[k] <= Len(t) + 1
                            /\ k - 1 \in 0..i /\ q[k - 1] \in Nat /\ q[k - 1] < q[k]
         /\ \A k \in 1..i : q[k] \in 1..Len(t)
<1>1. /\ q \in [0..4 -> Nat] /\ q[0] = 0 /\ i \in 0..3
      /\ m \in Nat /\ m <= Len(t) + 1 /\ q[i + 1] = m
  BY DEF Scanned
<1>2. \A k \in 1..i+1 : q[k - 1] < q[k]
  BY DEF Scanned
<1>3. q[0] \in Nat /\ q[1] \in Nat /\ q[2] \in Nat /\ q[3] \in Nat /\ q[4] \in Nat
  BY <1>1
<1>4. q[0] < q[1]
  <2>1. 1 \in 1..i+1 /\ 1 - 1 = 0
    BY <1>1
  <2>2. QED
    BY <1>2, <2>1
<1>5. i >= 1 => q[1] < q[2]
  <2>1. i >= 1 => 2 \in 1..i+1
    BY <1>1
  <2>2. 2 - 1 = 1
    OBVIOUS
  <2>3. QED
    BY <1>2, <2>1, <2>2
<1>6. i >= 2 => q[2] < q[3]
  <2>1. i >= 2 => 3 \in 1..i+1
    BY <1>1
  <2>2. 3 - 1 = 2
    OBVIOUS
  <2>3. QED
    BY <1>2, <2>1, <2>2
<1>7. i >= 3 => q[3] < q[4]
  <2>1. i >= 3 => 4 \in 1..i+1
    BY <1>1
  <2>2. 4 - 1 = 3
    OBVIOUS
  <2>3. QED
    BY <1>2, <2>1, <2>2
<1>8. i = 0 \/ i = 1 \/ i = 2 \/ i = 3
  BY <1>1
<1>9. \A k \in 0..i : q[k] \in Nat /\ q[k] < m
  <2>1. CASE i = 0
    BY <1>1, <1>3, <1>4, <2>1
  <2>2. CASE i = 1
    BY <1>1, <1>3, <1>4, <1>5, <2>2
  <2>3. CASE i = 2
    BY <1>1, <1>3, <1>4, <1>5, <1>6, <2>3
  <2>4. CASE i = 3
    BY <1>1, <1>3, <1>4, <1>5, <1>6, <1>7, <2>4
  <2>5. QED
    BY <1>8, <2>1, <2>2, <2>3, <2>4
<1>10. ASSUME NEW k \in 1..i+1
       PROVE  /\ q[k] \in Nat /\ q[k] <= m /\ q[k] <= Len(t) + 1
              /\ k - 1 \in 0..i /\ q[k - 1] \in Nat /\ q[k - 1] < q[k]
  <2>1. k - 1 \in 0..i /\ (k = i + 1 \/ k \in 0..i)
    BY <1>1
  <2>2. q[k] \in Nat /\ q[k] <= m
    <3>1. CASE k = i + 1
      BY <1>1, <3>1
    <3>2. CASE k \in 0..i
      <4>1. q[k] \in Nat /\ q[k] < m /\ m \in Nat
        BY <1>1, <1>9, <3>2, Zenon
      <4>2. QED
        BY <4>1
    <3>3. QED
      BY <2>1, <3>1, <3>2, Zenon
  <2>3. q[k] <= Len(t) + 1
    <3>1. m \in Nat /\ m <= Len(t) + 1
      BY <1>1
    <3>2. QED
      BY <2>2, <3>1
  <2>4. q[k - 1] \in Nat /\ q[k - 1] < q[k]
    BY <1>2, <1>9, <2>1, Zenon
  <2>5. QED
    BY <2>1, <2>2, <2>3, <2>4, Zenon
<1>11. ASSUME NEW k \in 1..i PROVE q[k] \in 1..Len(t)
  <2>1. k \in 1..i+1 /\ k \in 0..i
    BY <1>1
  <2>2. q[k] < m /\ q[k - 1] < q[k] /\ q[k - 1] \in Nat /\ q[k] \in Nat
    BY <1>9, <1>10, <2>1
  <2>3. m \in Nat /\ m <= Len(t) + 1 /\ Len(t) \in Nat
    BY <1>1
  <2>4. QED
    BY <2>2, <2>3
<1>12. QED
  BY <1>9, <1>10, <1>11

(* What was read stays where it is.                                        *)
LEMMA ScannedStays ==
  ASSUME NEW t \in Text, NEW c \in 0..Other, NEW m, NEW i, NEW q, Scanned(t, m, i, q)
  PROVE  /\ Scanned(Append(t, c), m, i, q)
         /\ m <= Len(t) => Append(t, c)[m] = t[m]
<1> DEFINE u == Append(t, c)
<1>1. /\ Len(u) = Len(t) + 1 /\ Len(t) \in Nat
      /\ \A k \in 1..Len(t) : u[k] = t[k]
  BY AppendIs DEF Text
<1> HIDE DEF u
<1>2. /\ q \in [0..4 -> Nat] /\ q[0] = 0 /\ i \in 0..3
      /\ m \in Nat /\ m <= Len(t) + 1 /\ q[i + 1] = m
  BY DEF Scanned
<1>3. \A k \in 1..i+1 : q[k - 1] < q[k]
  BY DEF Scanned
<1>4. /\ \A k \in 1..i+1 : /\ q[k] \in Nat /\ q[k] <= Len(t) + 1 /\ q[k - 1] \in Nat
      /\ q[0] < m /\ \A k \in 1..i : q[k] \in 1..Len(t)
  <2>1. 0 \in 0..i
    BY <1>2
  <2>2. Len(t) \in Nat
    BY <1>1, Zenon
  <2>3. QED
    BY <2>1, <2>2, Order, Zenon
<1>5. \A k \in 1..i : q[k] \in 1..Len(t)
  BY <1>4
<1>6. ASSUME NEW k \in 1..i+1, NEW j \in q[k - 1] + 1..q[k] - 1 PROVE u[j] \in Decimal
  <2>1. j \in 1..Len(t)
    BY <1>1, <1>4
  <2>2. QED
    BY <1>1, <2>1 DEF Scanned
<1>7. \A k \in 1..i : u[q[k]] = Dot
  BY <1>1, <1>5 DEF Scanned
<1>8. Scanned(u, m, i, q)
  <2>1. m <= Len(u) + 1
    BY <1>1, <1>2
  <2>2. QED
    BY <1>2, <1>3, <1>6, <1>7, <2>1, Zenon DEF Scanned
<1>9. m <= Len(t) => m \in 1..Len(t)
  BY <1>2, <1>4, <1>1
<1>10. QED
  BY <1>1, <1>8, <1>9 DEF u

(* The pieces before the place keep their digits.                          *)
LEMMA PieceStays ==
  ASSUME NEW t \in Text, NEW c \in 0..Other, NEW m, NEW i, NEW q, Scanned(t, m, i, q),
         NEW k \in 1..i+1
  PROVE  /\ Piece(Append(t, c), q, k) = Piece(t, q, k)
         /\ Piece(t, q, k) \in Seq(Decimal)
         /\ Len(Piece(t, q, k)) = q[k] - q[k - 1] - 1
         /\ \A j \in 1..Len(Piece(t, q, k)) : Piece(t, q, k)[j] = t[q[k - 1] + j]
<1> DEFINE u == Append(t, c)
           a == q[k - 1]
           b == q[k] - 1
           v == Cut(u, a, b)
           w == Cut(t, a, b)
<1>1. /\ Len(u) = Len(t) + 1 /\ Len(t) \in Nat /\ u \in Text 
      /\ \A j \in 1..Len(t) : u[j] = t[j]
  BY AppendIs DEF Text
<1>2. /\ a \in Nat /\ b \in Nat /\ a <= b /\ b <= Len(t) /\ b <= Len(u)
      /\ b - a = q[k] - q[k - 1] - 1
  BY <1>1, Order
<1>3. \A j \in a + 1..b : t[j] \in Decimal
  BY DEF Scanned
<1> HIDE DEF a, b, u
<1>4. /\ w \in Text /\ Len(w) = b - a
      /\ \A j \in 1..b - a : w[j] = t[a + j]
  <2>1. t \in Text
    OBVIOUS
  <2>2. QED
    BY <1>2, <2>1, CutIs, Zenon
<1>5. /\ v \in Text /\ Len(v) = b - a
      /\ \A j \in 1..b - a : v[j] = u[a + j]
  BY <1>1, <1>2, CutIs, Zenon
<1>6. \A j \in 1..b - a : a + j \in 1..Len(t) /\ a + j \in a + 1..b
  BY <1>1, <1>2
<1> HIDE DEF v, w
<1>7. \A j \in 1..Len(w) : v[j] = w[j] /\ w[j] \in Decimal
  BY <1>1, <1>3, <1>4, <1>5, <1>6
<1>8. v = w
  BY <1>4, <1>5, <1>7, SeqEqual DEF Text
<1>9. w \in Seq(Decimal)
  BY <1>4, <1>7, SeqDef DEF Text
<1>10. Piece(u, q, k) = v /\ Piece(t, q, k) = w
  BY Zenon DEF Piece, v, w, a, b
<1>11. QED
  BY <1>2, <1>4, <1>8, <1>9, <1>10 DEF u, a

(* What is cut off the end of a text grows with the text.                   *)
LEMMA EndGrows ==
  ASSUME NEW t \in Text, NEW c \in 0..Other, NEW a \in Nat, a <= Len(t)
  PROVE  /\ Cut(t, a, Len(t)) \in Text
         /\ Len(Cut(t, a, Len(t))) = Len(t) - a
         /\ \A j \in 1..Len(t) - a : Cut(t, a, Len(t))[j] = t[a + j]
         /\ Cut(Append(t, c), a, Len(t) + 1) = Append(Cut(t, a, Len(t)), c)
<1> DEFINE u == Append(t, c)
           n == Len(t)
           v == Cut(u, a, n + 1)
           w == Cut(t, a, n)
           z == Append(w, c)
<1>1. /\ Len(u) = n + 1 /\ n \in Nat /\ u \in Text /\ u[n + 1] = c
      /\ \A j \in 1..n : u[j] = t[j]
  BY AppendIs DEF Text
<1> HIDE DEF u
<1>2. w \in Text /\ Len(w) = n - a /\ \A j \in 1..n - a : w[j] = t[a + j]
  <2>1. n <= Len(t) /\ a <= n
    BY <1>1
  <2> HIDE DEF n
  <2>2. QED
    BY <1>1, <2>1, CutIs
<1>3. v \in Text /\ Len(v) = n + 1 - a /\ \A j \in 1..n + 1 - a : v[j] = u[a + j]
  <2> DEFINE e == n + 1
  <2>1. e \in Nat /\ a <= e /\ e <= Len(u) /\ u \in Text
    BY <1>1
  <2> HIDE DEF e
  <2>2. /\ Cut(u, a, e) \in Text /\ Len(Cut(u, a, e)) = e - a
        /\ \A j \in 1..e - a : Cut(u, a, e)[j] = u[a + j]
    BY <2>1, CutIs
  <2>3. QED
    BY <2>2 DEF e
<1> HIDE DEF v, w, n
<1>4. /\ z \in Text /\ Len(z) = n + 1 - a /\ z[n + 1 - a] = c
      /\ \A j \in 1..n - a : z[j] = w[j]
  <2>1. /\ z \in Text /\ Len(z) = Len(w) + 1 /\ z[Len(w) + 1] = c
        /\ \A j \in 1..Len(w) : z[j] = w[j]
    BY <1>2, AppendIs
  <2>2. Len(w) + 1 = n + 1 - a /\ Len(w) = n - a
    BY <1>1, <1>2
  <2>3. QED
    BY <2>1, <2>2
<1> HIDE DEF z
<1>5. \A j \in 1..n + 1 - a : v[j] = z[j]
  <2>1. SUFFICES ASSUME NEW j \in 1..n + 1 - a PROVE v[j] = z[j]
    OBVIOUS
  <2>2. CASE j = n + 1 - a
    <3>1. a + j = n + 1
      BY <1>1, <2>2
    <3>2. QED
      BY <1>1, <1>3, <1>4, <2>2, <3>1
  <2>3. CASE j # n + 1 - a
    <3>1. j \in 1..n - a /\ a + j \in 1..n
      BY <1>1, <2>3
    <3>2. QED
      BY <1>1, <1>2, <1>3, <1>4, <3>1
  <2>4. QED
    BY <2>2, <2>3
<1>6. v = z
  BY <1>3, <1>4, <1>5, SeqEqual DEF Text
<1>7. QED
  BY <1>2, <1>6 DEF Text, n, u, v, w, z

Longer(s, t, c) == s = Append(t, c)
Blank(s) == s = <<>>

(* One more digit: the piece under way is longer by it.                    *)
LEMMA ScannedDigit ==
  ASSUME NEW t \in Text, NEW c \in Decimal, NEW i, NEW q, Scanned(t, Len(t) + 1, i, q)
  PROVE  \E p : /\ Scanned(Append(t, c), Len(t) + 2, i, p)
                /\ \A k \in 0..i : p[k] = q[k]
                /\ \A k \in 1..i : Piece(Append(t, c), p, k) = Piece(t, q, k)
                /\ Longer(Piece(Append(t, c), p, i + 1), Piece(t, q, i + 1), c)
<1> DEFINE u == Append(t, c)
           n == Len(t)
           p == [k \in 0..4 |-> IF k = i + 1 THEN n + 2 ELSE q[k]]
<1>1. /\ Len(u) = n + 1 /\ n \in Nat /\ u \in Text /\ u[n + 1] = c
      /\ \A j \in 1..n : u[j] = t[j]
  BY AppendIs DEF Text, Decimal, Other
<1>2. /\ q \in [0..4 -> Nat] /\ q[0] = 0 /\ i \in 0..3 /\ q[i + 1] = n + 1
      /\ \A k \in 1..i+1 : q[k - 1] < q[k]
      /\ \A k \in 1..i+1 : \A j \in q[k - 1] + 1..q[k] - 1 : t[j] \in Decimal
      /\ \A k \in 1..i : t[q[k]] = Dot
  BY DEF Scanned
<1>3. /\ p \in [0..4 -> Nat] /\ p[i + 1] = n + 2
      /\ \A k \in 0..i : p[k] = q[k] /\ q[k] \in Nat /\ q[k] <= n
  BY <1>1, <1>2
<1> HIDE DEF p, u, n
<1>4. \A k \in 1..i+1 :
        /\ k - 1 \in 0..i /\ p[k - 1] = q[k - 1] /\ q[k - 1] \in Nat /\ q[k - 1] <= n
        /\ \/ k = i + 1 /\ p[k] = n + 2 /\ q[k] = n + 1
           \/ k \in 1..i /\ p[k] = q[k] /\ q[k] \in Nat /\ q[k] <= n
  <2>1. \A k \in 1..i+1 : k - 1 \in 0..i /\ (k = i + 1 \/ (k \in 1..i /\ k \in 0..i))
    BY <1>2
  <2>2. QED
    BY <1>2, <1>3, <2>1
<1>5. ASSUME NEW k \in 1..i+1, NEW j \in p[k - 1] + 1..p[k] - 1 PROVE u[j] \in Decimal
  <2>1. /\ p[k - 1] = q[k - 1] /\ q[k - 1] \in Nat
        /\ \/ p[k] = n + 2 /\ q[k] = n + 1
           \/ p[k] = q[k] /\ q[k] \in Nat /\ q[k] <= n
    BY <1>4
  <2>2. j \in q[k - 1] + 1..p[k] - 1
    BY <2>1
  <2>3. j = n + 1 \/ (j \in q[k - 1] + 1..q[k] - 1 /\ j \in 1..n)
    BY <1>1, <2>1, <2>2
  <2>4. QED
    BY <1>1, <1>2, <2>3
<1>6. ASSUME NEW k \in 1..i+1 PROVE p[k - 1] < p[k]
  <2>1. CASE k = i + 1 /\ p[k] = n + 2
    <3>1. p[k - 1] \in Nat /\ p[k - 1] <= n /\ n \in Nat
      BY <1>1, <1>4, Zenon
    <3>2. QED
      BY <2>1, <3>1
  <2>2. CASE p[k] = q[k]
    BY <1>2, <1>4, <2>2, Zenon
  <2>3. QED
    BY <1>4, <2>1, <2>2, Zenon
<1>7. ASSUME NEW k \in 1..i PROVE u[p[k]] = Dot
  <2>1. k \in 0..i /\ p[k] = q[k]
    <3>1. k \in 0..i
      BY <1>2
    <3>2. QED
      BY <1>3, <3>1, Zenon
  <2>2. q[k] \in 1..n
    BY Order DEF n
  <2>3. u[q[k]] = t[q[k]] /\ t[q[k]] = Dot
    BY <1>1, <1>2, <2>2, Zenon
  <2>4. QED
    BY <2>1, <2>3, Zenon
<1>8. Scanned(u, n + 2, i, p)
  <2>1. 0 \in 0..i /\ n + 2 \in Nat /\ n + 2 <= Len(u) + 1
    BY <1>1, <1>2
  <2>2. p[0] = 0
    BY <1>2, <1>3, <2>1, Zenon
  <2>3. QED
    BY <1>2, <1>3, <1>5, <1>6, <1>7, <2>1, <2>2, Zenon DEF Scanned
<1>9. ASSUME NEW k \in 1..i PROVE Piece(u, p, k) = Piece(t, q, k)
  <2>1. k \in 0..i /\ k - 1 \in 0..i /\ k \in 1..i+1 /\ c \in 0..Other
    BY <1>2 DEF Decimal, Other
  <2>2. Piece(u, q, k) = Piece(t, q, k)
    BY <2>1, PieceStays DEF u
  <2>3. QED
    BY <1>3, <2>1, <2>2 DEF Piece
<1>10. Longer(Piece(u, p, i + 1), Piece(t, q, i + 1), c)
  <2>1. /\ q[i] \in Nat /\ q[i] <= n /\ p[i] = q[i] /\ i \in 0..i /\ i + 1 \in 0..4
        /\ (i + 1) - 1 = i /\ (n + 2) - 1 = n + 1 /\ (n + 1) - 1 = n
    <3>1. /\ i \in 0..i /\ i + 1 \in 0..4
          /\ (i + 1) - 1 = i /\ (n + 2) - 1 = n + 1 /\ (n + 1) - 1 = n
      BY <1>1, <1>2
    <3>2. QED
      BY <1>3, <3>1, Zenon
  <2>2. /\ Piece(u, p, i + 1) = Cut(u, q[i], n + 1)
        /\ Piece(t, q, i + 1) = Cut(t, q[i], n)
    BY <1>2, <1>3, <2>1, Zenon DEF Piece
  <2>3. c \in 0..Other
    BY DEF Decimal, Other
  <2>4. Cut(u, q[i], n + 1) = Append(Cut(t, q[i], n), c)
    BY <2>1, <2>3, EndGrows DEF u, n
  <2>5. QED
    BY <2>2, <2>4, Zenon DEF Longer
<1>11. QED
  BY <1>3, <1>8, <1>9, <1>10 DEF u, n

(* A dot behind the piece under way begins the next one, which is empty.   *)
DotRead(t, i, q, p) ==
  /\ Scanned(Append(t, Dot), Len(t) + 2, i + 1, p)
  /\ \A k \in 0..i+1 : p[k] = q[k]
  /\ \A k \in 1..i+1 : Piece(Append(t, Dot), p, k) = Piece(t, q, k)
  /\ Blank(Piece(Append(t, Dot), p, i + 2))

LEMMA ScannedDot ==
  ASSUME NEW t \in Text, NEW i, NEW q, Scanned(t, Len(t) + 1, i, q), i < 3
  PROVE  \E p : DotRead(t, i, q, p)
<1> DEFINE u == Append(t, Dot)
           n == Len(t)
           p == [k \in 0..4 |-> IF k = i + 2 THEN n + 2 ELSE q[k]]
<1>1. Dot \in 0..Other
  BY DEF Dot, Other
<1>2. /\ Len(u) = n + 1 /\ n \in Nat /\ u \in Text /\ u[n + 1] = Dot
      /\ \A j \in 1..n : u[j] = t[j]
  BY <1>1, AppendIs DEF Text
<1>3. /\ q \in [0..4 -> Nat] /\ q[0] = 0 /\ i \in 0..2 /\ q[i + 1] = n + 1
      /\ \A k \in 1..i+1 : q[k - 1] < q[k]
      /\ \A k \in 1..i+1 : \A j \in q[k - 1] + 1..q[k] - 1 : t[j] \in Decimal
      /\ \A k \in 1..i : t[q[k]] = Dot
  BY DEF Scanned
<1>4. /\ p \in [0..4 -> Nat] /\ p[i + 2] = n + 2
      /\ \A k \in 0..i+1 : p[k] = q[k] /\ q[k] \in Nat /\ q[k] <= n + 1
      /\ \A k \in 0..i : q[k] <= n
  <2>1. i + 2 \in 0..4 /\ \A k \in 0..i+1 : k \in 0..4 /\ k # i + 2
    BY <1>3
  <2>2. /\ p[i + 2] = n + 2 /\ \A k \in 0..i+1 : p[k] = q[k]
        /\ \A k \in 0..4 : p[k] \in Nat
    BY <1>2, <1>3, <2>1
  <2>3. p \in [0..4 -> Nat]
    BY <2>2
  <2>4. ASSUME NEW k \in 0..i+1 PROVE q[k] \in Nat /\ q[k] <= n + 1
    <3>1. n \in Nat /\ q[i + 1] = n + 1 /\ (k = i + 1 \/ k \in 0..i)
      BY <1>2, <1>3
    <3>2. \A l \in 0..i : q[l] \in Nat /\ q[l] < n + 1
      BY <1>2, Order DEF n
    <3>3. QED
      BY <3>1, <3>2
  <2>5. ASSUME NEW k \in 0..i PROVE q[k] <= n
    <3>1. q[k] \in Nat /\ q[k] < n + 1 /\ n \in Nat
      BY <1>2, Order DEF n
    <3>2. QED
      BY <3>1
  <2>6. QED
    BY <2>2, <2>3, <2>4, <2>5, Zenon
<1> HIDE DEF p, u, n
<1>5. \A k \in 1..i+2 : \/ k = i + 2 /\ p[k - 1] = n + 1 /\ p[k] = n + 2
                        \/ /\ k \in 1..i+1 /\ k \in 0..i+1 /\ k - 1 \in 0..i+1 /\ k - 1 \in 0..i
                           /\ p[k] = q[k] /\ p[k - 1] = q[k - 1]
  <2>1. SUFFICES ASSUME NEW k \in 1..i+2
                 PROVE  \/ k = i + 2 /\ p[k - 1] = n + 1 /\ p[k] = n + 2
                        \/ /\ k \in 1..i+1 /\ k \in 0..i+1 /\ k - 1 \in 0..i+1 /\ k - 1 \in 0..i
                           /\ p[k] = q[k] /\ p[k - 1] = q[k - 1]
    OBVIOUS
  <2>2. CASE k = i + 2
    <3>1. k - 1 = i + 1 /\ i + 1 \in 0..i+1
      BY <1>3, <2>2
    <3>2. p[i + 1] = n + 1
      BY <1>3, <1>4, <3>1
    <3>3. QED
      BY <1>4, <2>2, <3>1, <3>2
  <2>3. CASE k # i + 2
    <3>1. k \in 1..i+1 /\ k \in 0..i+1 /\ k - 1 \in 0..i+1 /\ k - 1 \in 0..i
      BY <1>3, <2>3
    <3>2. QED
      BY <1>4, <3>1
  <2>4. QED
    BY <2>2, <2>3
<1>6. ASSUME NEW k \in 1..i+2, NEW j \in p[k - 1] + 1..p[k] - 1 PROVE u[j] \in Decimal
  <2>1. CASE k = i + 2 /\ p[k - 1] = n + 1 /\ p[k] = n + 2
    BY <1>2, <2>1
  <2>2. CASE /\ k \in 1..i+1 /\ k \in 0..i+1 /\ k - 1 \in 0..i+1
             /\ p[k] = q[k] /\ p[k - 1] = q[k - 1]
    <3>1. q[k] <= n + 1 /\ q[k] \in Nat /\ q[k - 1] \in Nat /\ j \in q[k - 1] + 1..q[k] - 1
      BY <1>4, <2>2, Zenon
    <3>2. j \in 1..n
      BY <1>2, <3>1
    <3>3. QED
      BY <1>2, <1>3, <2>2, <3>1, <3>2
  <2>3. QED
    BY <1>5, <2>1, <2>2
<1>7. ASSUME NEW k \in 1..i+2 PROVE p[k - 1] < p[k]
  BY <1>5, <1>2, <1>3
<1>8. ASSUME NEW k \in 1..i+1 PROVE u[p[k]] = Dot
  <2>1. k \in 0..i+1 /\ (k = i + 1 \/ (k \in 1..i /\ k \in 0..i))
    BY <1>3
  <2>2. k \in 0..i+1 /\ (k = i + 1 \/ (k \in 1..i /\ k \in 0..i /\ q[k] \in 1..n))
    <3>1. \A l \in 1..i : q[l] \in 1..n
      BY <1>1, <1>2, Order DEF n
    <3>2. QED
      BY <2>1, <3>1
  <2>3. CASE k = i + 1
    <3>1. p[k] = n + 1 /\ u[n + 1] = Dot
      BY <1>2, <1>3, <1>4, <2>2, <2>3, Zenon
    <3>2. QED
      BY <3>1, Zenon
  <2>4. CASE k \in 1..i /\ q[k] \in 1..n
    <3>1. p[k] = q[k] /\ u[q[k]] = t[q[k]] /\ t[q[k]] = Dot
      BY <1>2, <1>3, <1>4, <2>2, <2>4, Zenon
    <3>2. QED
      BY <3>1, Zenon
  <2>5. QED
    BY <2>2, <2>3, <2>4, Zenon
<1>9. Scanned(u, n + 2, i + 1, p)
  <2>1. (i + 1) + 1 = i + 2 /\ i + 1 \in 0..3 /\ n + 2 \in Nat /\ n + 2 <= Len(u) + 1
        /\ 0 \in 0..i+1
    BY <1>2, <1>3
  <2>2. QED
    BY <1>3, <1>4, <1>6, <1>7, <1>8, <2>1 DEF Scanned
<1>10. ASSUME NEW k \in 1..i+1 PROVE Piece(u, p, k) = Piece(t, q, k)
  <2>1. k \in 0..i+1 /\ k - 1 \in 0..i+1
    BY <1>3
  <2>2. Piece(u, q, k) = Piece(t, q, k)
    BY <1>1, PieceStays DEF u
  <2>3. QED
    BY <1>4, <2>1, <2>2 DEF Piece
<1>11. Blank(Piece(u, p, i + 2))
  <2>1. (i + 2) - 1 = i + 1 /\ i + 1 \in 0..i+1
    BY <1>3
  <2>2. Piece(u, p, i + 2) = Cut(u, n + 1, (n + 2) - 1)
    BY <1>3, <1>4, <2>1 DEF Piece
  <2>3. Cut(u, n + 1, (n + 2) - 1) = <<>>
    <3>1. /\ Cut(u, n + 1, n + 1) \in Text
          /\ Len(Cut(u, n + 1, n + 1)) = (n + 1) - (n + 1)
      BY <1>2, CutIs DEF Text
    <3>2. (n + 1) - (n + 1) = 0 /\ (n + 2) - 1 = n + 1
      BY <1>2
    <3>3. QED
      BY <3>1, <3>2, EmptySeq DEF Text
  <2>4. QED
    BY <2>2, <2>3 DEF Blank
<1>12. QED
  BY <1>3, <1>4, <1>9, <1>10, <1>11 DEF u, n, DotRead
-----------------------------------------------------------------------------
(* The number of a piece.                                                  *)
Reads(t, q, k) == Number(Piece(t, q, k), 10)

LEMMA ReadsStays ==
  ASSUME NEW t \in Text, NEW c \in 0..Other, NEW m, NEW i, NEW q, Scanned(t, m, i, q),
         NEW k \in 1..i+1
  PROVE  Reads(Append(t, c), q, k) = Reads(t, q, k) /\ Reads(t, q, k) \in Nat
<1>1. /\ Piece(Append(t, c), q, k) = Piece(t, q, k)
      /\ Piece(t, q, k) \in Seq(Decimal)
  BY PieceStays
<1>2. Seq(Decimal) \subseteq Seq(Nat) /\ 10 \in Nat
  BY SeqMonotonic DEF Decimal
<1>3. Number(Piece(t, q, k), 10) \in Nat
  BY <1>1, <1>2, NumberNat
<1>4. QED
  BY <1>1, <1>3, Zenon DEF Reads

LEMMA ReadsDigit ==
  ASSUME NEW t \in Text, NEW q, NEW i, NEW p, NEW u, NEW d \in Decimal,
         Piece(t, q, i) \in Seq(Decimal),
         Longer(Piece(u, p, i), Piece(t, q, i), d)
  PROVE  Reads(u, p, i) = Reads(t, q, i) * 10 + d
<1>1. Piece(t, q, i) \in Seq(Nat) /\ 10 \in Nat /\ d \in Nat
  BY SeqMonotonic DEF Decimal
<1>2. QED
  BY <1>1, NumberAppend DEF Reads, Longer

(* UTILS_StrToIP has read the text t: it is in the number i + 1.           *)
Stored(t, q, k, ip) ==
  Reads(t, q, k) <= INT_MAX => Reads(t, q, k) < 256 /\ ip[k] = Reads(t, q, k)
Adding(t, st, i, q) ==
  /\ Scanned(t, Len(t) + 1, i, q)
  /\ st.running /\ st.i = i /\ st.ret = 0
  /\ st.ip \in Seq(0..255) /\ Len(st.ip) = i
  /\ st.n \in Int
  /\ Reads(t, q, i + 1) <= INT_MAX => st.n = Reads(t, q, i + 1)
  /\ \A k \in 1..i : Stored(t, q, k, st.ip)

(* It has returned at the place m, where ch stands.                        *)
Ended(t, st, m, i, q, ch) ==
  /\ Scanned(t, m, i, q) /\ ch \notin Decimal
  /\ ~st.running
  /\ \A k \in 1..i : Stored(t, q, k, st.ip)
  /\ \/ st.ret = 0 /\ i < 3 /\ ch # Dot
     \/ st.ret = 0 /\ (Reads(t, q, i + 1) <= INT_MAX => Reads(t, q, i + 1) >= 256)
     \/ /\ st.ret = 1 /\ i = 3 /\ st.ip \in Seq(0..255) /\ Len(st.ip) = 4
        /\ Stored(t, q, 4, st.ip)

IPRecord(st) == st = [running |-> st.running, ret |-> st.ret, i |-> st.i, n |-> st.n, ip |-> st.ip]

LEMMA ByteOf == \A v \in Int : v % 256 \in 0..255 /\ (v \in 0..255 => v % 256 = v)
OBVIOUS

LEMMA ByteStored ==
  \A n \in Int, b \in 0..255, r \in Nat :
    n < 256 /\ (r <= INT_MAX => n = r) /\ (n \in 0..255 => b = n)
      => (r <= INT_MAX => r < 256 /\ b = r)
BY UtilsAssumption

Pushed(s, b, z) ==
  /\ z \in Seq(0..255) /\ Len(z) = Len(s) + 1 /\ z[Len(s) + 1] = b
  /\ \A k \in 1..Len(s) : z[k] = s[k]

LEMMA AppendByte ==
  ASSUME NEW s \in Seq(0..255), NEW b \in 0..255
  PROVE  Pushed(s, b, Append(s, b))
BY DEF Pushed

(* A character that ends the number ends the call too, unless it is the dot *)
(* behind one of the first three.                                          *)
LEMMA StrToIPEnds ==
  ASSUME NEW t \in Text, NEW st, IPRecord(st), NEW i, NEW q, Adding(t, st, i, q),
         NEW ch \in 0..Other, ch \notin Decimal, ~(ch = Dot /\ i < 3 /\ st.n < 256)
  PROVE  /\ Ended(t, UTILS_StrToIP(st, ch), Len(t) + 1, i, q, ch)
         /\ IPRecord(UTILS_StrToIP(st, ch))
<1> DEFINE w == UTILS_StrToIP(st, ch)
           r == Reads(t, q, i + 1)
<1>1. /\ st.running /\ st.i = i /\ st.ret = 0 /\ st.n \in Int
      /\ st.ip \in Seq(0..255) /\ Len(st.ip) = i
      /\ r <= INT_MAX => st.n = r
      /\ \A k \in 1..i : Stored(t, q, k, st.ip)
      /\ Scanned(t, Len(t) + 1, i, q)
  BY DEF Adding
<1>2. i \in 0..3
  BY <1>1 DEF Scanned
<1>3. r \in Nat
  <2>1. i + 1 \in 1..i+1
    BY <1>2
  <2>2. QED
    BY <1>1, <2>1, ReadsStays
<1> HIDE DEF r
<1>4. CASE (ch = Dot \/ i = 3) /\ ~(st.n < 256)
  <2>1. w = [st EXCEPT !.running = FALSE]
    BY <1>1, <1>4 DEF UTILS_StrToIP, OctetEnds, OctetFits
  <2>2. /\ w.running = FALSE /\ w.ret = 0 /\ w.ip = st.ip /\ IPRecord(w)
    BY <1>1, <2>1 DEF IPRecord
  <2>3. r <= INT_MAX => r >= 256
    BY <1>1, <1>3, <1>4
  <2> HIDE DEF w
  <2>4. QED
    BY <1>1, <2>2, <2>3 DEF Ended, r, w
<1>5. CASE i = 3 /\ st.n < 256
  <2>1. PICK b : b = st.n % 256
    BY Zenon
  <2>2. w = [st EXCEPT !.ip = Append(@, b), !.i = @ + 1, !.n = 0,
                       !.running = FALSE, !.ret = 1]
    <3>1. (st.i < 3) = FALSE /\ st.i = 3
      BY <1>1, <1>5
    <3>2. QED
      BY <1>5, <2>1, <3>1, Zenon DEF UTILS_StrToIP, OctetEnds, OctetFits
  <2> HIDE DEF w
  <2>3. /\ w.running = FALSE /\ w.ret = 1 /\ w.ip = Append(st.ip, b) /\ IPRecord(w)
    BY <2>2 DEF IPRecord
  <2>4. b \in 0..255 /\ (st.n \in 0..255 => b = st.n)
    <3>1. st.n \in Int
      BY <1>1
    <3>2. st.n % 256 \in 0..255 /\ (st.n \in 0..255 => st.n % 256 = st.n)
      BY <3>1, ByteOf, Zenon
    <3>3. QED
      BY <2>1, <3>2, Zenon
  <2>5. /\ w.ip \in Seq(0..255) /\ Len(w.ip) = 4 /\ w.ip[4] = b
        /\ \A k \in 1..i : w.ip[k] = st.ip[k]
    <3>1. Pushed(st.ip, b, w.ip)
      <4>1. st.ip \in Seq(0..255) /\ b \in 0..255 /\ w.ip = Append(st.ip, b)
        BY <1>1, <2>3, <2>4
      <4>2. QED
        BY <4>1, AppendByte, Zenon
    <3>2. Len(st.ip) + 1 = 4 /\ Len(st.ip) = i
      BY <1>1, <1>5
    <3>3. QED
      BY <3>1, <3>2, Zenon DEF Pushed
  <2>6. r <= INT_MAX => r < 256 /\ w.ip[4] = r
    <3>1. r <= INT_MAX => r < 256 /\ b = r
      <4>1. st.n \in Int /\ (r <= INT_MAX => st.n = r) /\ st.n < 256
        BY <1>1, <1>5
      <4>2. b \in 0..255 /\ (st.n \in 0..255 => b = st.n)
        BY <2>4, Zenon
      <4>3. QED
        BY <1>3, <4>1, <4>2
    <3>2. QED
      BY <2>5, <3>1, Zenon
  <2>7. Stored(t, q, 4, w.ip) /\ \A k \in 1..i : Stored(t, q, k, w.ip)
    <3>1. i + 1 = 4
      BY <1>5
    <3>2. r = Reads(t, q, 4)
      BY <3>1, Zenon DEF r
    <3>3. QED
      <4>1. \A k \in 1..i : Stored(t, q, k, w.ip)
        <5>1. \A k \in 1..i : Stored(t, q, k, st.ip)
          BY <1>1
        <5>2. \A k \in 1..i : w.ip[k] = st.ip[k]
          BY <2>5
        <5>3. QED
          BY <5>1, <5>2, Zenon DEF Stored
      <4>2. Stored(t, q, 4, w.ip)
        BY <2>6, <3>2, Zenon DEF Stored
      <4>3. QED
        BY <4>1, <4>2
  <2>8. QED
    BY <1>1, <1>5, <2>3, <2>5, <2>7 DEF Ended, w
<1>6. CASE i # 3 /\ ch # Dot
  <2>1. w = [st EXCEPT !.running = FALSE]
    BY <1>1, <1>6 DEF UTILS_StrToIP
  <2>2. /\ w.running = FALSE /\ w.ret = 0 /\ w.ip = st.ip /\ IPRecord(w)
    BY <1>1, <2>1 DEF IPRecord
  <2>3. i < 3
    BY <1>2, <1>6
  <2> HIDE DEF w
  <2>4. QED
    BY <1>1, <1>6, <2>2, <2>3 DEF Ended, w
<1>7. QED
  BY <1>1, <1>2, <1>4, <1>5, <1>6

LEMMA StrToIPDigit ==
  ASSUME NEW t \in Text, NEW st, IPRecord(st), NEW i, NEW q, Adding(t, st, i, q),
         NEW ch \in Decimal
  PROVE  /\ \E p : Adding(Append(t, ch), UTILS_StrToIP(st, ch), i, p)
         /\ IPRecord(UTILS_StrToIP(st, ch))
<1> DEFINE w == UTILS_StrToIP(st, ch)
           u == Append(t, ch)
           r == Reads(t, q, i + 1)
<1>1. /\ st.running /\ st.i = i /\ st.ret = 0 /\ st.n \in Int
      /\ st.ip \in Seq(0..255) /\ Len(st.ip) = i
      /\ r <= INT_MAX => st.n = r
      /\ \A k \in 1..i : Stored(t, q, k, st.ip)
      /\ Scanned(t, Len(t) + 1, i, q)
  BY DEF Adding
<1>2. i \in 0..3 /\ i + 1 \in 1..i+1
  BY <1>1 DEF Scanned
<1>3. PICK p : /\ Scanned(u, Len(t) + 2, i, p)
               /\ \A k \in 0..i : p[k] = q[k]
               /\ \A k \in 1..i : Piece(u, p, k) = Piece(t, q, k)
               /\ Longer(Piece(u, p, i + 1), Piece(t, q, i + 1), ch)
  BY <1>1, ScannedDigit, Zenon
<1>4. ch \in 0..Other
  BY DEF Decimal, Other
<1>5. u \in Text /\ Len(u) + 1 = Len(t) + 2
  BY <1>4, AppendIs
<1>6. r \in Nat /\ Piece(t, q, i + 1) \in Seq(Decimal)
  BY <1>4, <1>1, <1>2, ReadsStays, PieceStays
<1>7. Reads(u, p, i + 1) = r * 10 + ch
  BY <1>3, <1>6, ReadsDigit
<1> HIDE DEF r, u
<1>8. w = [st EXCEPT !.n = Int32(@ * 10 + ch)]
  BY <1>1, Zenon DEF UTILS_StrToIP
<1>9. /\ w.running /\ w.i = i /\ w.ret = 0 /\ w.ip = st.ip
      /\ w.n = Int32(st.n * 10 + ch) /\ IPRecord(w)
  <2> DEFINE x == Int32(st.n * 10 + ch)
  <2>1. w = [st EXCEPT !.n = x]
    BY <1>8, Zenon
  <2> HIDE DEF w, x
  <2>2. /\ w.running = st.running /\ w.i = st.i /\ w.ret = st.ret /\ w.ip = st.ip
        /\ w.n = x /\ IPRecord(w)
    BY <2>1 DEF IPRecord
  <2>3. QED
    BY <1>1, <2>2 DEF x
<1> HIDE DEF w
<1>10. INT_MAX \in Nat /\ ch \in 0..9
  BY UtilsAssumption DEF Decimal
<1>11. \A v \in Int : Int32(v) \in Int
  BY <1>10 DEF Int32
<1>12. \A v \in 0..INT_MAX : Int32(v) = v
  <2>1. SUFFICES ASSUME NEW v \in 0..INT_MAX PROVE Int32(v) = v
    OBVIOUS
  <2>2. (v + INT_MAX + 1) \in 0..2 * (INT_MAX + 1) - 1 /\ 2 * (INT_MAX + 1) \in Nat \ {0}
    BY <1>10
  <2>3. (v + INT_MAX + 1) % (2 * (INT_MAX + 1)) = v + INT_MAX + 1
    BY <2>2
  <2>4. QED
    BY <1>10, <2>3 DEF Int32
<1>13. w.n \in Int
  <2>1. st.n * 10 + ch \in Int
    BY <1>1, <1>10
  <2>2. QED
    BY <1>9, <1>11, <2>1, Zenon
<1>14. Reads(u, p, i + 1) <= INT_MAX => w.n = Reads(u, p, i + 1)
  <2>1. SUFFICES ASSUME r * 10 + ch <= INT_MAX PROVE w.n = r * 10 + ch
    BY <1>7
  <2>2. r <= INT_MAX /\ r * 10 + ch \in 0..INT_MAX
    BY <1>6, <1>10, <2>1
  <2>3. QED
    BY <1>1, <1>9, <1>12, <2>2
<1>15. \A k \in 1..i : Stored(u, p, k, w.ip)
  BY <1>1, <1>3, <1>9 DEF Stored, Reads
<1>16. QED
  BY <1>1, <1>3, <1>5, <1>9, <1>13, <1>14, <1>15 DEF Adding, u, w

LEMMA StrToIPDot ==
  ASSUME NEW t \in Text, NEW st, IPRecord(st), NEW i, NEW q, Adding(t, st, i, q),
         i < 3, st.n < 256
  PROVE  /\ \E p : Adding(Append(t, Dot), UTILS_StrToIP(st, Dot), i + 1, p)
         /\ IPRecord(UTILS_StrToIP(st, Dot))
<1> DEFINE w == UTILS_StrToIP(st, Dot)
           u == Append(t, Dot)
           r == Reads(t, q, i + 1)
<1>1. /\ st.running /\ st.i = i /\ st.ret = 0 /\ st.n \in Int
      /\ st.ip \in Seq(0..255) /\ Len(st.ip) = i
      /\ r <= INT_MAX => st.n = r
      /\ \A k \in 1..i : Stored(t, q, k, st.ip)
      /\ Scanned(t, Len(t) + 1, i, q)
  BY DEF Adding
<1>2. i \in 0..2 /\ i + 1 \in 1..i+1 /\ Dot \in 0..Other /\ Dot \notin Decimal
  BY <1>1 DEF Scanned, Dot, Other, Decimal
<1>3. PICK p : /\ Scanned(u, Len(t) + 2, i + 1, p)
               /\ \A k \in 1..i+1 : Piece(u, p, k) = Piece(t, q, k)
               /\ Blank(Piece(u, p, i + 2))
  <2>1. PICK p : DotRead(t, i, q, p)
    BY <1>1, ScannedDot, Zenon
  <2>2. QED
    BY <2>1, Zenon DEF DotRead
<1>4. u \in Text /\ Len(u) + 1 = Len(t) + 2
  BY <1>2, AppendIs
<1>5. r \in Nat
  BY <1>1, <1>2, ReadsStays
<1>6. Reads(u, p, i + 2) = 0 /\ \A k \in 1..i+1 : Reads(u, p, k) = Reads(t, q, k)
  BY <1>3, NumberEmpty DEF Reads, Blank
<1> HIDE DEF r, u
<1>7. PICK b : b = st.n % 256
  BY Zenon
<1>8. w = [st EXCEPT !.ip = Append(@, b), !.i = @ + 1, !.n = 0,
                     !.running = TRUE, !.ret = 0]
  <2>1. (st.i < 3) = TRUE /\ st.i # 3
    BY <1>1, <1>2
  <2>2. QED
    BY <1>7, <1>2, <2>1, Zenon DEF UTILS_StrToIP, OctetEnds, OctetFits
<1> HIDE DEF w
<1>9. /\ w.running /\ w.i = i + 1 /\ w.ret = 0 /\ w.ip = Append(st.ip, b)
      /\ w.n = 0 /\ IPRecord(w)
  <2>1. /\ w.running = TRUE /\ w.i = st.i + 1 /\ w.ret = 0 /\ w.ip = Append(st.ip, b)
        /\ w.n = 0 /\ IPRecord(w)
    BY <1>8 DEF IPRecord
  <2>2. QED
    BY <1>1, <2>1
<1>10. b \in 0..255 /\ (st.n \in 0..255 => b = st.n)
  <2>1. st.n \in Int
    BY <1>1
  <2>2. QED
    BY <1>7, <2>1, ByteOf, Zenon
<1>11. /\ w.ip \in Seq(0..255) /\ Len(w.ip) = i + 1 /\ w.ip[i + 1] = b
       /\ \A k \in 1..i : w.ip[k] = st.ip[k]
  <2>1. Pushed(st.ip, b, w.ip)
    <3>1. st.ip \in Seq(0..255) /\ b \in 0..255 /\ w.ip = Append(st.ip, b)
      BY <1>1, <1>9, <1>10
    <3>2. QED
      BY <3>1, AppendByte, Zenon
  <2>2. QED
    BY <1>1, <2>1, Zenon DEF Pushed
<1>12. r <= INT_MAX => r < 256 /\ w.ip[i + 1] = r
  <2>1. r <= INT_MAX => r < 256 /\ b = r
    <3>1. st.n \in Int /\ (r <= INT_MAX => st.n = r) /\ st.n < 256
      BY <1>1
    <3>2. QED
      BY <1>5, <1>10, <3>1, ByteStored
  <2>2. QED
    BY <1>11, <2>1, Zenon
<1>13. ASSUME NEW k \in 1..i+1 PROVE Stored(u, p, k, w.ip)
  <2>1. k = i + 1 \/ k \in 1..i
    BY <1>2
  <2>2. CASE k = i + 1
    BY <1>6, <1>12, <2>2 DEF Stored, r
  <2>3. CASE k \in 1..i
    <3>1. Stored(t, q, k, st.ip)
      BY <1>1, <2>3
    <3>2. Reads(u, p, k) = Reads(t, q, k)
      BY <1>6
    <3>3. w.ip[k] = st.ip[k]
      BY <1>11, <2>3
    <3>4. QED
      BY <3>1, <3>2, <3>3, Zenon DEF Stored
  <2>4. QED
    BY <2>1, <2>2, <2>3
<1>14. (i + 1) + 1 = i + 2
  BY <1>2
<1>15. Adding(u, w, i + 1, p)
  BY <1>3, <1>4, <1>6, <1>9, <1>11, <1>13, <1>14 DEF Adding
<1>16. QED
  BY <1>9, <1>15 DEF u, w

LEMMA EndedStays ==
  ASSUME NEW t \in Text, NEW c \in 0..Other, NEW st, NEW m, NEW i, NEW q, NEW ch,
         Ended(t, st, m, i, q, ch)
  PROVE  Ended(Append(t, c), st, m, i, q, ch)
<1>1. Scanned(t, m, i, q)
  BY DEF Ended
<1>2. i \in 0..3 /\ i + 1 \in 1..i+1 /\ (i = 3 => 4 \in 1..i+1) /\ \A k \in 1..i : k \in 1..i+1
  BY <1>1 DEF Scanned
<1>3. \A k \in 1..i+1 : Reads(Append(t, c), q, k) = Reads(t, q, k)
  BY <1>1, ReadsStays
<1>4. \A k \in 1..i+1 : Stored(t, q, k, st.ip) => Stored(Append(t, c), q, k, st.ip)
  BY <1>3, Zenon DEF Stored
<1>5. Scanned(Append(t, c), m, i, q)
  BY <1>1, ScannedStays
<1>6. QED
  BY <1>2, <1>3, <1>4, <1>5, Zenon DEF Ended
-----------------------------------------------------------------------------
(* What stands at a place; the '\0' is behind the text.                    *)
CharAt(t, m) == IF m <= Len(t) THEN t[m] ELSE Other

StrToIPInv(t, st) ==
  /\ IPRecord(st)
  /\ \/ \E i, q : Adding(t, st, i, q)
     \/ \E m, i, q : Ended(t, st, m, i, q, CharAt(t, m)) /\ m <= Len(t)

LEMMA StrToIPBegins ==
  StrToIPInv(<<>>, [running |-> TRUE, ret |-> 0, i |-> 0, n |-> 0, ip |-> <<>>])
<1> DEFINE st == [running |-> TRUE, ret |-> 0, i |-> 0, n |-> 0, ip |-> <<>>]
<1>1. PICK q : Scanned(<<>>, 1, 0, q)
  BY ScannedNothing
<1>2. /\ IPRecord(st) /\ st.running /\ st.i = 0 /\ st.ret = 0 /\ st.ip = <<>> /\ st.n = 0
  BY DEF IPRecord
<1> HIDE DEF st
<1>3. <<>> \in Text /\ Len(<<>>) = 0 /\ <<>> \in Seq(0..255)
  BY DEF Text
<1>4. Reads(<<>>, q, 1) = 0
  <2>1. 1 \in 1..0+1 /\ q[0] = 0 /\ q[0 + 1] = 1
    BY <1>1 DEF Scanned
  <2>2. Piece(<<>>, q, 1) \in Seq(Decimal) /\ Len(Piece(<<>>, q, 1)) = q[1] - q[1 - 1] - 1
    <3>1. 0 \in 0..Other
      BY DEF Other
    <3>2. QED
      BY <1>1, <1>3, <2>1, <3>1, PieceStays
  <2>3. Len(Piece(<<>>, q, 1)) = 0
    BY <2>1, <2>2
  <2>4. Blank(Piece(<<>>, q, 1))
    BY <2>2, <2>3, EmptySeq, Zenon DEF Blank
  <2>5. QED
    BY <2>4, NumberEmpty DEF Reads, Blank
<1>5. 0 \in Int /\ 0 + 1 = 1 /\ \A k \in 1..0 : FALSE
  OBVIOUS
<1>6. Adding(<<>>, st, 0, q)
  BY <1>1, <1>2, <1>3, <1>4, <1>5, Zenon DEF Adding
<1>7. QED
  BY <1>2, <1>6, Zenon DEF StrToIPInv, st

LEMMA EndedPlace ==
  ASSUME NEW t \in Text, NEW c \in 0..Other, NEW st, NEW m, NEW i, NEW q,
         Ended(t, st, m, i, q, CharAt(t, m)), m <= Len(t)
  PROVE  Ended(Append(t, c), st, m, i, q, CharAt(Append(t, c), m)) /\ m <= Len(Append(t, c))
<1>1. Scanned(t, m, i, q)
  BY DEF Ended
<1>2. Append(t, c)[m] = t[m]
  BY <1>1, ScannedStays
<1>3. m \in Nat /\ Len(t) \in Nat /\ Len(Append(t, c)) = Len(t) + 1
  BY <1>1, AppendIs DEF Scanned
<1>4. m <= Len(Append(t, c))
  BY <1>3
<1>5. CharAt(Append(t, c), m) = CharAt(t, m)
  BY <1>2, <1>4, Zenon DEF CharAt
<1>6. QED
  BY <1>4, <1>5, EndedStays, Zenon

LEMMA StrToIPStep ==
  ASSUME NEW t \in Text, NEW st, NEW ch \in 0..Other, StrToIPInv(t, st)
  PROVE  StrToIPInv(Append(t, ch), Feed(UTILS_StrToIP, st, ch))
<1>1. IPRecord(st)
  BY DEF StrToIPInv
<1>2. CASE \E m, i, q : Ended(t, st, m, i, q, CharAt(t, m)) /\ m <= Len(t)
  <2>1. PICK m, i, q : Ended(t, st, m, i, q, CharAt(t, m)) /\ m <= Len(t)
    BY <1>2
  <2>2. Feed(UTILS_StrToIP, st, ch) = st
    BY <2>1, Zenon DEF Feed, Ended
  <2>3. Ended(Append(t, ch), st, m, i, q, CharAt(Append(t, ch), m)) /\ m <= Len(Append(t, ch))
    BY <2>1, EndedPlace, Zenon
  <2>4. QED
    BY <1>1, <2>2, <2>3, Zenon DEF StrToIPInv
<1>3. CASE \E i, q : Adding(t, st, i, q)
  <2>1. PICK i, q : Adding(t, st, i, q)
    BY <1>3
  <2>2. Feed(UTILS_StrToIP, st, ch) = UTILS_StrToIP(st, ch)
    BY <2>1, Zenon DEF Feed, Adding
  <2>3. CASE ch \in Decimal
    <3>1. /\ \E p : Adding(Append(t, ch), UTILS_StrToIP(st, ch), i, p)
          /\ IPRecord(UTILS_StrToIP(st, ch))
      BY <1>1, <2>1, <2>3, StrToIPDigit, Zenon
    <3>2. QED
      BY <2>2, <3>1, Zenon DEF StrToIPInv
  <2>4. CASE ch = Dot /\ i < 3 /\ st.n < 256
    <3>1. /\ \E p : Adding(Append(t, Dot), UTILS_StrToIP(st, Dot), i + 1, p)
          /\ IPRecord(UTILS_StrToIP(st, Dot))
      BY <1>1, <2>1, <2>4, StrToIPDot, Zenon
    <3>2. QED
      BY <2>2, <2>4, <3>1, Zenon DEF StrToIPInv
  <2>5. CASE ch \notin Decimal /\ ~(ch = Dot /\ i < 3 /\ st.n < 256)
    <3>1. /\ Ended(t, UTILS_StrToIP(st, ch), Len(t) + 1, i, q, ch)
          /\ IPRecord(UTILS_StrToIP(st, ch))
      BY <1>1, <2>1, <2>5, StrToIPEnds, Zenon
    <3>2. Ended(Append(t, ch), UTILS_StrToIP(st, ch), Len(t) + 1, i, q, ch)
      BY <3>1, EndedStays, Zenon
    <3>3. Len(t) + 1 <= Len(Append(t, ch)) /\ Append(t, ch)[Len(t) + 1] = ch
      BY AppendIs
    <3>4. CharAt(Append(t, ch), Len(t) + 1) = ch
      BY <3>3, Zenon DEF CharAt
    <3>5. QED
      BY <2>2, <3>1, <3>2, <3>3, <3>4, Zenon DEF StrToIPInv
  <2>6. QED
    BY <2>3, <2>4, <2>5
<1>4. QED
  BY <1>2, <1>3 DEF StrToIPInv

(* At the end of the text it has returned, there or before.                *)
LEMMA StrToIPReturns ==
  ASSUME str \in Text, StrToIPInv(str, strToIP)
  PROVE  \E m, i, q : Ended(str, StrToIPResult, m, i, q, CharAt(str, m))
<1>1. CASE \E m, i, q : Ended(str, strToIP, m, i, q, CharAt(str, m)) /\ m <= Len(str)
  BY <1>1 DEF StrToIPResult, Ended
<1>2. CASE \E i, q : Adding(str, strToIP, i, q)
  <2>1. PICK i, q : Adding(str, strToIP, i, q)
    BY <1>2
  <2>2. StrToIPResult = UTILS_StrToIP(strToIP, Other)
    BY <2>1, Zenon DEF StrToIPResult, Adding
  <2>3. Other \in 0..Other /\ Other \notin Decimal /\ Other # Dot
    BY DEF Other, Decimal, Dot
  <2>4. Ended(str, UTILS_StrToIP(strToIP, Other), Len(str) + 1, i, q, Other)
    BY <2>1, <2>3, StrToIPEnds, Zenon DEF StrToIPInv
  <2>5. CharAt(str, Len(str) + 1) = Other
    <3>1. ~(Len(str) + 1 <= Len(str))
      BY DEF Text
    <3>2. QED
      BY <3>1, Zenon DEF CharAt
  <2>6. QED
    BY <2>2, <2>4, <2>5, Zenon
<1>3. QED
  BY <1>1, <1>2 DEF StrToIPInv
-----------------------------------------------------------------------------
(* There is one place behind the digits that begin at a place.             *)
LEMMA FirstStop ==
  ASSUME NEW t \in Text, NEW a \in Nat, NEW x \in Nat, NEW y \in Nat, a < x, a < y,
         x <= Len(t) + 1, y <= Len(t) + 1,
         \A j \in a + 1..x - 1 : t[j] \in Decimal,
         \A j \in a + 1..y - 1 : t[j] \in Decimal,
         CharAt(t, x) \notin Decimal, CharAt(t, y) \notin Decimal
  PROVE  x = y
<1>1. Len(t) \in Nat
  BY DEF Text
<1>2. ~(x < y)
  <2>1. x < y => x \in a + 1..y - 1 /\ x <= Len(t)
    BY <1>1
  <2>2. QED
    BY <2>1 DEF CharAt
<1>3. ~(y < x)
  <2>1. y < x => y \in a + 1..x - 1 /\ y <= Len(t)
    BY <1>1
  <2>2. QED
    BY <2>1 DEF CharAt
<1>4. QED
  BY <1>2, <1>3

(* A cut of the text, place by place.                                      *)
Located(c) ==
  /\ \A k \in 1..4 : /\ c[k] \in Nat /\ c[k] <= Len(str) + 1 /\ CharAt(str, c[k]) \notin Decimal
                     /\ Behind(c, k) \in Nat /\ Behind(c, k) < c[k]
                     /\ \A j \in Behind(c, k) + 1..c[k] - 1 : str[j] \in Decimal
  /\ \A k \in 1..3 : c[k] <= Len(str) /\ CharAt(str, c[k]) = Dot

LEMMA CutLocated ==
  ASSUME str \in Text, NEW c \in Cuts
  PROVE  Located(c)
<1>1. /\ c \in Dots \X Dots \X Dots \X Stops
      /\ \A k \in 1..4 : /\ Behind(c, k) < c[k]
                         /\ \A j \in Behind(c, k) + 1..c[k] - 1 : str[j] \in Decimal
  BY Zenon DEF Cuts
<1>2. c[1] \in Dots /\ c[2] \in Dots /\ c[3] \in Dots /\ c[4] \in Stops
  BY <1>1
<1>3. Dot \notin Decimal /\ Other \notin Decimal /\ Len(str) \in Nat
  BY DEF Dot, Decimal, Other, Text
<1>4. \A k \in Dots : k \in 1..Len(str) /\ CharAt(str, k) = Dot
  BY DEF Dots, CharAt, Text
<1>5. \A k \in Stops : k \in 1..Len(str)+1 /\ CharAt(str, k) \notin Decimal
  BY <1>3 DEF Stops, CharAt
<1>6. \A k \in 1..3 : c[k] \in 1..Len(str) /\ CharAt(str, c[k]) = Dot
  BY <1>2, <1>4
<1>7. ASSUME NEW k \in 1..4
      PROVE  c[k] \in Nat /\ c[k] <= Len(str) + 1 /\ CharAt(str, c[k]) \notin Decimal
  <2>1. k \in 1..3 \/ k = 4
    OBVIOUS
  <2>2. CASE k \in 1..3
    BY <1>3, <1>6, <2>2
  <2>3. CASE k = 4
    BY <1>2, <1>3, <1>5, <2>3
  <2>4. QED
    BY <2>1, <2>2, <2>3
<1>8. ASSUME NEW k \in 1..4 PROVE Behind(c, k) \in Nat
  <2>1. k = 1 \/ k - 1 \in 1..4
    OBVIOUS
  <2>2. QED
    BY <1>7, <2>1 DEF Behind
<1>9. QED
  BY <1>1, <1>3, <1>6, <1>7, <1>8 DEF Located

LEMMA CutDigits ==
  ASSUME str \in Text, NEW c, Located(c), NEW k \in 1..4
  PROVE  Digits(c, k) \in Seq(Decimal)
<1> DEFINE a == Behind(c, k)
           b == c[k] - 1
           d == Cut(str, a, b)
<1>1. /\ c[k] \in Nat /\ c[k] <= Len(str) + 1 /\ a \in Nat /\ a < c[k]
      /\ \A j \in a + 1..c[k] - 1 : str[j] \in Decimal
  BY Zenon DEF Located
<1>2. Len(str) \in Nat /\ b \in Nat /\ a <= b /\ b <= Len(str)
  BY <1>1 DEF Text
<1>3. d \in Text /\ Len(d) = b - a /\ \A j \in 1..b - a : d[j] = str[a + j]
  BY <1>1, <1>2, CutIs
<1>4. \A j \in 1..b - a : a + j \in a + 1..c[k] - 1
  BY <1>1
<1> HIDE DEF a, b, d
<1>5. \A j \in 1..Len(d) : d[j] \in Decimal
  BY <1>1, <1>3, <1>4
<1>6. d \in Seq(Decimal)
  BY <1>3, <1>5, SeqDef DEF Text
<1>7. QED
  BY <1>6, Zenon DEF Digits, Cut, a, b, d

(* What a parser has read is what the cut says.                            *)
LEMMA CutRead ==
  ASSUME str \in Text, NEW c, Located(c), NEW m, NEW i, NEW q, Scanned(str, m, i, q),
         CharAt(str, m) \notin Decimal
  PROVE  /\ \A k \in 1..i+1 : q[k] = c[k] /\ Digits(c, k) = Piece(str, q, k)
         /\ m = c[i + 1]
<1>1. Dot \notin Decimal /\ Len(str) \in Nat
  BY DEF Dot, Decimal, Text
<1>2. /\ q[0] = 0 /\ i \in 0..3 /\ m <= Len(str) + 1 /\ q[i + 1] = m
      /\ \A k \in 1..i+1 : \A j \in q[k - 1] + 1..q[k] - 1 : str[j] \in Decimal
      /\ \A k \in 1..i : str[q[k]] = Dot
  BY DEF Scanned
<1>3. /\ \A k \in 1..i+1 : /\ q[k] \in Nat /\ q[k] <= Len(str) + 1
                           /\ q[k - 1] \in Nat /\ q[k - 1] < q[k]
      /\ \A k \in 1..i : q[k] \in 1..Len(str)
  BY <1>1, Order
<1>4. \A k \in 1..i : CharAt(str, q[k]) \notin Decimal
  BY <1>1, <1>2, <1>3 DEF CharAt
<1>5. \A k \in 1..i+1 : CharAt(str, q[k]) \notin Decimal
  <2>1. \A k \in 1..i+1 : k \in 1..i \/ k = i + 1
    BY <1>2
  <2>2. QED
    BY <1>2, <1>4, <2>1
<1>6. \A k \in 1..i+1 : k \in 1..4
  BY <1>2
<1>7. ASSUME NEW k \in 1..i+1, q[k - 1] = Behind(c, k) PROVE q[k] = c[k]
  <2> DEFINE a == q[k - 1]
             x == q[k]
             y == c[k]
  <2>1. /\ a \in Nat /\ x \in Nat /\ a < x /\ x <= Len(str) + 1 /\ CharAt(str, x) \notin Decimal
        /\ \A j \in a + 1..x - 1 : str[j] \in Decimal
    BY <1>2, <1>3, <1>5
  <2>2. /\ y \in Nat /\ a < y /\ y <= Len(str) + 1 /\ CharAt(str, y) \notin Decimal
        /\ \A j \in a + 1..y - 1 : str[j] \in Decimal
    <3>1. k \in 1..4
      BY <1>6
    <3>2. QED
      BY <1>7, <3>1, Zenon DEF Located
  <2> HIDE DEF a, x, y
  <2>3. x = y
    BY <2>1, <2>2, FirstStop
  <2>4. QED
    BY <2>3 DEF x, y
<1>8. q[1] = c[1]
  <2>1. 1 \in 1..i+1 /\ q[1 - 1] = Behind(c, 1)
    BY <1>2 DEF Behind
  <2>2. QED
    BY <1>7, <2>1
<1>9. ASSUME NEW k \in 1..i+1, k # 1, q[k - 1] = c[k - 1] PROVE q[k] = c[k]
  BY <1>7, <1>9 DEF Behind
<1>10. i >= 1 => q[2] = c[2]
  <2>1. i >= 1 => 2 \in 1..i+1
    BY <1>2
  <2>2. 2 # 1 /\ 2 - 1 = 1
    OBVIOUS
  <2>3. QED
    BY <1>8, <1>9, <2>1, <2>2
<1>11. i >= 2 => q[3] = c[3]
  <2>1. i >= 2 => 3 \in 1..i+1 /\ i >= 1
    BY <1>2
  <2>2. 3 # 1 /\ 3 - 1 = 2
    OBVIOUS
  <2>3. QED
    BY <1>9, <1>10, <2>1, <2>2
<1>12. i >= 3 => q[4] = c[4]
  <2>1. i >= 3 => 4 \in 1..i+1 /\ i >= 2
    BY <1>2
  <2>2. 4 # 1 /\ 4 - 1 = 3
    OBVIOUS
  <2>3. QED
    BY <1>9, <1>11, <2>1, <2>2
<1>13. ASSUME NEW k \in 1..i+1 PROVE q[k] = c[k]
  <2>1. /\ k = 1 \/ (k = 2 /\ i >= 1) \/ (k = 3 /\ i >= 2) \/ (k = 4 /\ i >= 3)
    BY <1>2
  <2>2. QED
    BY <1>8, <1>10, <1>11, <1>12, <2>1
<1>14. ASSUME NEW k \in 1..i+1 PROVE Digits(c, k) = Piece(str, q, k)
  <2>1. q[k - 1] = Behind(c, k)
    <3>1. k = 1 \/ (k # 1 /\ k - 1 \in 1..i+1)
      BY <1>2
    <3>2. CASE k = 1
      <4>1. k - 1 = 0
        BY <3>2
      <4>2. QED
        BY <1>2, <3>2, <4>1, Zenon DEF Behind
    <3>3. CASE k # 1 /\ k - 1 \in 1..i+1
      BY <1>13, <3>3, Zenon DEF Behind
    <3>4. QED
      BY <3>1, <3>2, <3>3
  <2>2. q[k] = c[k]
    BY <1>13
  <2>3. QED
    BY <2>1, <2>2, Zenon DEF Digits, Piece, Cut
<1>15. m = c[i + 1]
  <2>1. i + 1 \in 1..i+1
    BY <1>2
  <2>2. QED
    BY <1>2, <1>13, <2>1
<1>16. QED
  BY <1>13, <1>14, <1>15

(* Four numbers read are a cut.                                            *)
LEMMA CutFound ==
  ASSUME str \in Text, NEW m, NEW q, Scanned(str, m, 3, q), CharAt(str, m) \notin Decimal
  PROVE  Cuts # {}
<1> DEFINE c == <<q[1], q[2], q[3], m>>
<1>1. Len(str) \in Nat
  BY DEF Text
<1>2. /\ q[0] = 0 /\ m \in Nat /\ m <= Len(str) + 1 /\ q[3 + 1] = m
      /\ \A k \in 1..3+1 : \A j \in q[k - 1] + 1..q[k] - 1 : str[j] \in Decimal
      /\ \A k \in 1..3 : str[q[k]] = Dot
  BY DEF Scanned
<1>3. /\ \A k \in 1..3+1 : q[k] \in Nat /\ q[k - 1] \in Nat /\ q[k - 1] < q[k]
      /\ \A k \in 1..3 : q[k] \in 1..Len(str)
  BY <1>1, Order
<1>4. q[1] \in Dots /\ q[2] \in Dots /\ q[3] \in Dots
  BY <1>2, <1>3 DEF Dots, Text
<1>5. m \in Stops
  <2>1. 3 + 1 \in 1..3+1 /\ 3 \in 1..3
    OBVIOUS
  <2>2. m \in 1..Len(str)+1
    BY <1>1, <1>2, <1>3, <2>1
  <2>3. QED
    BY <2>2 DEF Stops, CharAt
<1>6. c \in Dots \X Dots \X Dots \X Stops
  BY <1>4, <1>5
<1>7. /\ c[1] = q[1] /\ c[2] = q[2] /\ c[3] = q[3] /\ c[4] = q[4]
  BY <1>2
<1> HIDE DEF c
<1>8. ASSUME NEW k \in 1..4 PROVE c[k] = q[k] /\ Behind(c, k) = q[k - 1]
  <2>1. k = 1 \/ k = 2 \/ k = 3 \/ k = 4
    OBVIOUS
  <2>2. QED
    BY <1>2, <1>7, <2>1 DEF Behind
<1>9. c \in Cuts
  <2>1. 1..4 = 1..3+1
    OBVIOUS
  <2>2. \A k \in 1..4 : /\ Behind(c, k) < c[k]
                        /\ \A j \in Behind(c, k) + 1..c[k] - 1 : str[j] \in Decimal
    BY <1>2, <1>3, <1>8, <2>1, Zenon
  <2>3. QED
    BY <1>6, <2>2, Zenon DEF Cuts
<1>10. QED
  BY <1>9

LEMMA StrToIPIsExact ==
  ASSUME str \in Text, StrToIPInv(str, strToIP)
  PROVE  StrToIPExact
<1> DEFINE R == StrToIPResult
<1>1. PICK m, i, q : Ended(str, R, m, i, q, CharAt(str, m))
  BY StrToIPReturns, Zenon
<1> HIDE DEF R
<1>2. Scanned(str, m, i, q) /\ CharAt(str, m) \notin Decimal
  BY <1>1, Zenon DEF Ended
<1>3. i \in 0..3 /\ i + 1 \in 1..i+1 /\ (i = 3 => 4 \in 1..i+1) /\ 1 # 0
  BY <1>2 DEF Scanned
<1>4. Cuts = {} => R.ret = 0
  <2>1. i = 3 => Cuts # {}
    BY <1>2, CutFound, Zenon
  <2>2. QED
    BY <1>1, <2>1, Zenon DEF Ended
<1>5. ASSUME NEW c \in Cuts, \A k \in 1..4 : Numbers(c)[k] <= INT_MAX
      PROVE  (R.ret = 1) = Octets(c) /\ (Octets(c) => R.ip = Numbers(c))
  <2>1. Located(c)
    BY CutLocated, Zenon
  <2>2. /\ \A k \in 1..i+1 : q[k] = c[k] /\ Digits(c, k) = Piece(str, q, k)
        /\ m = c[i + 1]
    BY <1>2, <2>1, CutRead, Zenon
  <2>3. \A k \in 1..i+1 : k \in 1..4
    BY <1>3
  <2>4. Numbers(c) = [k \in 1..4 |-> Number(Digits(c, k), 10)]
    BY Zenon DEF Numbers
  <2>5. \A k \in 1..i+1 : Numbers(c)[k] = Reads(str, q, k)
    BY <2>2, <2>3, <2>4, Zenon DEF Reads
  <2>6. \A k \in 1..i+1 : Reads(str, q, k) <= INT_MAX
    BY <1>5, <2>3, <2>5, Zenon
  <2>7. \A k \in 1..i+1 : Stored(str, q, k, R.ip) =>
          Numbers(c)[k] < 256 /\ R.ip[k] = Numbers(c)[k]
    BY <2>5, <2>6, Zenon DEF Stored
  <2>8. CASE R.ret = 0 /\ i < 3 /\ CharAt(str, m) # Dot
    <3>1. i + 1 \in 1..3
      BY <1>3, <2>8
    <3>2. QED
      BY <2>1, <2>2, <2>8, <3>1, Zenon DEF Located
  <2>9. CASE R.ret = 0 /\ (Reads(str, q, i + 1) <= INT_MAX => Reads(str, q, i + 1) >= 256)
    <3>1. Reads(str, q, i + 1) >= 256 /\ Reads(str, q, i + 1) \in Nat
      <4>1. Reads(str, q, i + 1) \in Nat
        <5>1. 0 \in 0..Other
          BY DEF Other
        <5>2. QED
          BY <1>2, <1>3, <5>1, ReadsStays, Zenon
      <4>2. QED
        BY <1>3, <2>6, <2>9, <4>1, Zenon
    <3>2. ~(Reads(str, q, i + 1) < 256)
      BY <3>1
    <3>3. ~Octets(c)
      BY <1>3, <2>3, <2>5, <3>2, Zenon DEF Octets
    <3>4. QED
      <4>1. Octets(c) \in BOOLEAN
        BY Zenon DEF Octets
      <4>2. R.ret # 1
        BY <2>9
      <4>3. QED
        BY <3>3, <4>1, <4>2
  <2>10. CASE /\ R.ret = 1 /\ i = 3 /\ R.ip \in Seq(0..255) /\ Len(R.ip) = 4
              /\ Stored(str, q, 4, R.ip)
    <3>1. \A k \in 1..4 : Stored(str, q, k, R.ip) /\ k \in 1..i+1
      <4>1. \A k \in 1..4 : (k = 4 \/ k \in 1..i) /\ k \in 1..i+1
        BY <2>10
      <4>2. \A k \in 1..i : Stored(str, q, k, R.ip)
        BY <1>1, Zenon DEF Ended
      <4>3. QED
        BY <2>10, <4>1, <4>2, Zenon
    <3>2. \A k \in 1..4 : Numbers(c)[k] < 256 /\ R.ip[k] = Numbers(c)[k]
      BY <2>7, <3>1, Zenon
    <3>3. Octets(c)
      BY <3>2, Zenon DEF Octets
    <3>4. R.ip = [k \in 1..4 |-> R.ip[k]]
      BY <2>10
    <3>5. R.ip = Numbers(c)
      <4>1. Numbers(c) = [k \in 1..4 |-> Numbers(c)[k]]
        BY <2>4, Zenon
      <4>2. QED
        BY <3>2, <3>4, <4>1, Zenon
    <3>6. QED
      BY <2>10, <3>3, <3>5, Zenon
  <2>11. QED
    BY <1>1, <2>8, <2>9, <2>10, Zenon DEF Ended
<1>6. QED
  BY <1>4, <1>5, Zenon DEF StrToIPExact, R
-----------------------------------------------------------------------------
(* UTILS_IsIPV4 is in the number i + 1, or has returned 0 at the place m.  *)
Counting(t, st, i, q) ==
  /\ Scanned(t, Len(t) + 1, i, q)
  /\ st.running /\ st.segs = i
  /\ st.chcnt = Len(Piece(t, q, i + 1)) % 256
  /\ st.accum \in 0..255
  /\ \A k \in 1..i : Len(Piece(t, q, k)) % 256 # 0

Refused(t, st, m, i, q) ==
  /\ Scanned(t, m, i, q) /\ m <= Len(t) /\ t[m] \notin Decimal
  /\ ~st.running
  /\ t[m] # Dot \/ Len(Piece(t, q, i + 1)) % 256 = 0 \/ i = 3

QuadRecord(st) ==
  st = [running |-> st.running, segs |-> st.segs, chcnt |-> st.chcnt, accum |-> st.accum]

IsIPV4Inv(t, st) ==
  /\ QuadRecord(st)
  /\ \/ \E i, q : Counting(t, st, i, q)
     \/ \E m, i, q : Refused(t, st, m, i, q)

LEMMA IsIPV4Begins ==
  IsIPV4Inv(<<>>, [running |-> TRUE, segs |-> 0, chcnt |-> 0, accum |-> 0])
<1> DEFINE st == [running |-> TRUE, segs |-> 0, chcnt |-> 0, accum |-> 0]
<1>1. PICK q : Scanned(<<>>, 1, 0, q)
  BY ScannedNothing
<1>2. QuadRecord(st) /\ st.running /\ st.segs = 0 /\ st.chcnt = 0 /\ st.accum \in 0..255
  BY DEF QuadRecord
<1> HIDE DEF st
<1>3. <<>> \in Text /\ Len(<<>>) = 0 /\ 0 \in 0..Other
  BY DEF Text, Other
<1>4. Len(Piece(<<>>, q, 1)) = 0
  <2>1. 1 \in 1..0+1 /\ q[0] = 0 /\ q[0 + 1] = 1
    BY <1>1 DEF Scanned
  <2>2. Len(Piece(<<>>, q, 1)) = q[1] - q[1 - 1] - 1
    BY <1>1, <1>3, <2>1, PieceStays
  <2>3. QED
    BY <2>1, <2>2
<1>5. 0 % 256 = 0 /\ 0 + 1 = 1 /\ \A k \in 1..0 : FALSE
  OBVIOUS
<1>6. Counting(<<>>, st, 0, q)
  <2>1. Scanned(<<>>, Len(<<>>) + 1, 0, q)
    BY <1>1, <1>3, <1>5, Zenon
  <2>2. st.chcnt = Len(Piece(<<>>, q, 0 + 1)) % 256
    BY <1>2, <1>4, <1>5
  <2>3. \A k \in 1..0 : Len(Piece(<<>>, q, k)) % 256 # 0
    BY <1>5, Zenon
  <2>4. QED
    BY <1>2, <2>1, <2>2, <2>3, Zenon DEF Counting
<1>7. QED
  BY <1>2, <1>6, Zenon DEF IsIPV4Inv, st

LEMMA RefusedStays ==
  ASSUME NEW t \in Text, NEW c \in 0..Other, NEW st, NEW m, NEW i, NEW q, Refused(t, st, m, i, q)
  PROVE  Refused(Append(t, c), st, m, i, q)
<1>1. Scanned(t, m, i, q) /\ m <= Len(t)
  BY DEF Refused
<1>2. Scanned(Append(t, c), m, i, q) /\ Append(t, c)[m] = t[m]
  BY <1>1, ScannedStays
<1>3. m \in Nat /\ Len(t) \in Nat /\ Len(Append(t, c)) = Len(t) + 1 /\ i + 1 \in 1..i+1
  BY <1>1, AppendIs DEF Scanned
<1>4. m <= Len(Append(t, c))
  BY <1>1, <1>3
<1>5. Piece(Append(t, c), q, i + 1) = Piece(t, q, i + 1)
  BY <1>1, <1>3, PieceStays
<1>6. QED
  BY <1>2, <1>4, <1>5, Zenon DEF Refused

(* One more digit in a count of one byte.                                  *)
LEMMA CountByte == \A n \in Nat : ((n % 256) + 1) % 256 = (n + 1) % 256
OBVIOUS

LEMMA IsIPV4Step ==
  ASSUME NEW t \in Text, NEW st, NEW ch \in 0..Other, IsIPV4Inv(t, st)
  PROVE  IsIPV4Inv(Append(t, ch), Feed(UTILS_IsIPV4, st, ch))
<1> DEFINE u == Append(t, ch)
           w == UTILS_IsIPV4(st, ch)
<1>1. QuadRecord(st)
  BY DEF IsIPV4Inv
<1>2. CASE \E m, i, q : Refused(t, st, m, i, q)
  <2>1. PICK m, i, q : Refused(t, st, m, i, q)
    BY <1>2
  <2>2. Feed(UTILS_IsIPV4, st, ch) = st
    BY <2>1, Zenon DEF Feed, Refused
  <2>3. Refused(u, st, m, i, q)
    BY <2>1, RefusedStays, Zenon
  <2>4. QED
    BY <1>1, <2>2, <2>3, Zenon DEF IsIPV4Inv
<1>3. CASE \E i, q : Counting(t, st, i, q)
  <2>1. PICK i, q : Counting(t, st, i, q)
    BY <1>3
  <2>2. Feed(UTILS_IsIPV4, st, ch) = w
    BY <2>1, Zenon DEF Feed, Counting
  <2>3. /\ Scanned(t, Len(t) + 1, i, q) /\ st.running /\ st.segs = i
        /\ st.chcnt = Len(Piece(t, q, i + 1)) % 256
        /\ st.accum \in 0..255
        /\ \A k \in 1..i : Len(Piece(t, q, k)) % 256 # 0
    BY <2>1, Zenon DEF Counting
  <2>4. i \in 0..3 /\ i + 1 \in 1..i+1
    BY <2>3 DEF Scanned
  <2>5. Piece(t, q, i + 1) \in Seq(Decimal)
    BY <2>3, <2>4, PieceStays
  <2>6. PICK n : n = Len(Piece(t, q, i + 1)) /\ n \in Nat
    BY <2>5, LenProperties
  <2>7. PICK a : a = (st.accum * 10 + ch) % 256
    BY Zenon
  <2>8. CASE ch \in Decimal
    <3>1. st.accum * 10 + ch \in Int
      <4>1. st.accum \in 0..255 /\ ch \in 0..9
        BY <2>3, <2>8, Zenon DEF Decimal
      <4>2. QED
        BY <4>1
    <3>2. a \in 0..255
      BY <2>7, <3>1, ByteOf, Zenon
    <3>3. PICK x : x = (n + 1) % 256
      BY Zenon
    <3>4. w = [st EXCEPT !.accum = a, !.chcnt = x]
      <4>1. ~(a > 255) /\ ch # Dot
        BY <2>8, <3>2 DEF Decimal, Dot
      <4>2. (st.chcnt + 1) % 256 = x
        BY <2>3, <2>6, <3>3, CountByte
      <4>3. UTILS_IsIPV4(st, ch) = [st EXCEPT !.accum = a, !.chcnt = (st.chcnt + 1) % 256]
        BY <2>7, <2>8, <4>1, Zenon DEF UTILS_IsIPV4
      <4>4. QED
        BY <4>2, <4>3, Zenon
    <3> HIDE DEF w
    <3>5. w.running = st.running /\ w.segs = st.segs /\ w.chcnt = x /\ w.accum = a /\ QuadRecord(w)
      BY <1>1, <3>4 DEF QuadRecord
    <3>6. PICK p : /\ Scanned(u, Len(t) + 2, i, p)
                   /\ \A k \in 1..i : Piece(u, p, k) = Piece(t, q, k)
                   /\ Longer(Piece(u, p, i + 1), Piece(t, q, i + 1), ch)
      BY <2>3, <2>8, ScannedDigit, Zenon
    <3>7. Len(Piece(u, p, i + 1)) = n + 1
      BY <2>5, <2>6, <2>8, <3>6 DEF Longer
    <3>8. Len(u) + 1 = Len(t) + 2
      BY AppendIs
    <3>9. Counting(u, w, i, p)
      <4>1. Scanned(u, Len(u) + 1, i, p) /\ w.running /\ w.segs = i /\ w.accum \in 0..255
        BY <2>3, <3>2, <3>5, <3>6, <3>8, Zenon
      <4>2. w.chcnt = Len(Piece(u, p, i + 1)) % 256
        BY <3>3, <3>5, <3>7, Zenon
      <4>3. \A k \in 1..i : Len(Piece(u, p, k)) % 256 # 0
        BY <2>3, <3>6
      <4>4. QED
        BY <4>1, <4>2, <4>3, Zenon DEF Counting
    <3>10. QED
      BY <2>2, <3>5, <3>9, Zenon DEF IsIPV4Inv
  <2>9. CASE ch = Dot /\ st.chcnt # 0 /\ i # 3
    <3>1. w = [st EXCEPT !.segs = i + 1, !.chcnt = 0, !.accum = 0]
      <4>1. st.segs + 1 # 4
        BY <2>3, <2>4, <2>9
      <4>2. ch \notin Decimal
        BY <2>9 DEF Dot, Decimal
      <4>3. UTILS_IsIPV4(st, ch) = [st EXCEPT !.segs = st.segs + 1, !.chcnt = 0, !.accum = 0]
        BY <2>9, <4>1, <4>2, Zenon DEF UTILS_IsIPV4
      <4>4. QED
        BY <2>3, <4>3, Zenon
    <3> HIDE DEF w
    <3>2. w.running = st.running /\ w.segs = i + 1 /\ w.chcnt = 0 /\ w.accum = 0 /\ QuadRecord(w)
      BY <1>1, <3>1 DEF QuadRecord
    <3>3. i < 3 /\ (i + 1) + 1 = i + 2
      BY <2>4, <2>9
    <3>4. PICK p : DotRead(t, i, q, p)
      BY <2>3, <3>3, ScannedDot, Zenon
    <3>5. /\ Scanned(u, Len(t) + 2, i + 1, p)
          /\ \A k \in 1..i+1 : Piece(u, p, k) = Piece(t, q, k)
          /\ Blank(Piece(u, p, i + 2))
      BY <2>9, <3>4, Zenon DEF DotRead
    <3>6. Len(Piece(u, p, i + 2)) % 256 = 0
      <4>1. Len(Piece(u, p, i + 2)) = 0 /\ 0 % 256 = 0
        BY <3>5 DEF Blank
      <4>2. QED
        BY <4>1, Zenon
    <3>7. \A k \in 1..i+1 : Len(Piece(t, q, k)) % 256 # 0
      <4>1. \A k \in 1..i+1 : k = i + 1 \/ k \in 1..i
        BY <2>4
      <4>2. QED
        BY <2>3, <2>9, <4>1
    <3>8. Len(u) + 1 = Len(t) + 2 /\ 0 \in 0..255
      BY AppendIs
    <3>9. Counting(u, w, i + 1, p)
      <4>1. Scanned(u, Len(u) + 1, i + 1, p) /\ w.running /\ w.segs = i + 1 /\ w.accum \in 0..255
        BY <2>3, <3>2, <3>5, <3>8
      <4>2. w.chcnt = Len(Piece(u, p, (i + 1) + 1)) % 256
        BY <3>2, <3>3, <3>6, Zenon
      <4>3. \A k \in 1..i+1 : Len(Piece(u, p, k)) % 256 # 0
        BY <3>5, <3>7, Zenon
      <4>4. QED
        BY <4>1, <4>2, <4>3, Zenon DEF Counting
    <3>10. QED
      BY <2>2, <3>2, <3>9, Zenon DEF IsIPV4Inv
  <2>10. CASE ch \notin Decimal /\ ~(ch = Dot /\ st.chcnt # 0 /\ i # 3)
    <3>1. w = [st EXCEPT !.running = FALSE]
      <4>1. ~(ch = Dot /\ st.chcnt # 0 /\ st.segs + 1 # 4)
        BY <2>3, <2>4, <2>10
      <4>2. QED
        BY <2>10, <4>1, Zenon DEF UTILS_IsIPV4
    <3> HIDE DEF w
    <3>2. w.running = FALSE /\ QuadRecord(w)
      BY <1>1, <3>1 DEF QuadRecord
    <3>3. Scanned(u, Len(t) + 1, i, q) /\ Piece(u, q, i + 1) = Piece(t, q, i + 1)
      BY <2>3, <2>4, ScannedStays, PieceStays
    <3>4. Len(t) + 1 <= Len(u) /\ u[Len(t) + 1] = ch
      BY AppendIs
    <3>5. Refused(u, w, Len(t) + 1, i, q)
      BY <2>3, <2>10, <3>2, <3>3, <3>4 DEF Refused
    <3>6. QED
      BY <2>2, <3>2, <3>5, Zenon DEF IsIPV4Inv
  <2>11. QED
    BY <2>8, <2>9, <2>10
<1>4. QED
  BY <1>2, <1>3 DEF IsIPV4Inv

LEMMA QuadsAreAccepted ==
  ASSUME str \in Text, IsIPV4Inv(str, isIPV4), StrToIPExact
  PROVE  QuadsAccepted
<1>1. Dot \notin Decimal /\ Other \notin Decimal /\ Len(str) \in Nat
  BY DEF Dot, Decimal, Other, Text
<1>2. CharAt(str, Len(str) + 1) = Other
  <2>1. ~(Len(str) + 1 <= Len(str))
    BY <1>1
  <2>2. QED
    BY <2>1, Zenon DEF CharAt
<1>3. Cuts = {} => ~IsIPV4Result
  <2>1. SUFFICES ASSUME IsIPV4Result PROVE Cuts # {}
    OBVIOUS
  <2>2. PICK i, q : Counting(str, isIPV4, i, q)
    BY <2>1, Zenon DEF IsIPV4Result, IsIPV4Inv, Refused
  <2>3. Scanned(str, Len(str) + 1, 3, q)
    BY <2>1, <2>2, Zenon DEF IsIPV4Result, Counting
  <2>4. QED
    BY <1>1, <1>2, <2>3, CutFound, Zenon
<1>4. ASSUME NEW c \in Cuts, \A k \in 1..4 : Len(Digits(c, k)) < 256
      PROVE  /\ IsIPV4Result =
                  (c[4] = Len(str) + 1 /\ \A k \in 1..4 : Digits(c, k) # <<>>)
             /\ IsIPV4Result /\ Octets(c) /\ 255 <= INT_MAX => StrToIPResult.ret = 1
  <2> DEFINE Whole == c[4] = Len(str) + 1 /\ \A k \in 1..4 : Digits(c, k) # <<>>
  <2>1. Located(c)
    BY CutLocated, Zenon
  <2>2. IsIPV4Result = Whole
    <3>1. CASE \E i, q : Counting(str, isIPV4, i, q)
      <4>1. PICK i, q : Counting(str, isIPV4, i, q)
        BY <3>1
      <4>2. /\ Scanned(str, Len(str) + 1, i, q) /\ isIPV4.running /\ isIPV4.segs = i
            /\ isIPV4.chcnt = Len(Piece(str, q, i + 1)) % 256
            /\ \A k \in 1..i : Len(Piece(str, q, k)) % 256 # 0
        BY <4>1, Zenon DEF Counting
      <4>3. /\ \A k \in 1..i+1 : q[k] = c[k] /\ Digits(c, k) = Piece(str, q, k)
            /\ Len(str) + 1 = c[i + 1]
        <5>1. Scanned(str, Len(str) + 1, i, q) /\ CharAt(str, Len(str) + 1) \notin Decimal
          BY <1>1, <1>2, <4>2, Zenon
        <5>2. QED
          BY <2>1, <5>1, CutRead, Zenon
      <4>4. i \in 0..3
        BY <4>2 DEF Scanned
      <4>5. i = 3
        <5>1. ASSUME i # 3 PROVE FALSE
          <6>1. i + 1 \in 1..3
            BY <4>4, <5>1
          <6>2. c[i + 1] <= Len(str)
            BY <2>1, <6>1, Zenon DEF Located
          <6>3. QED
            BY <1>1, <4>3, <6>2
        <5>2. QED
          BY <5>1
      <4>6. /\ c[4] = Len(str) + 1 /\ isIPV4.chcnt = Len(Digits(c, 4)) % 256
            /\ \A k \in 1..3 : Len(Digits(c, k)) % 256 # 0
        <5>1. i + 1 = 4 /\ 4 \in 1..i+1 /\ \A k \in 1..3 : k \in 1..i /\ k \in 1..i+1
          BY <4>5
        <5>2. c[4] = Len(str) + 1 /\ Digits(c, 4) = Piece(str, q, 4)
          BY <4>3, <5>1, Zenon
        <5>3. isIPV4.chcnt = Len(Digits(c, 4)) % 256
          BY <4>2, <5>1, <5>2, Zenon
        <5>4. ASSUME NEW k \in 1..3 PROVE Len(Digits(c, k)) % 256 # 0
          <6>1. k \in 1..i /\ Digits(c, k) = Piece(str, q, k)
            BY <4>3, <5>1, <5>4, Zenon
          <6>2. Len(Piece(str, q, k)) % 256 # 0
            BY <4>2, <6>1
          <6>3. QED
            BY <6>1, <6>2, Zenon
        <5>5. QED
          BY <5>2, <5>3, <5>4, Zenon
      <4>7. \A k \in 1..4 : Digits(c, k) \in Seq(Decimal)
        BY <2>1, CutDigits, Zenon
      <4>8. ASSUME NEW k \in 1..4 PROVE (Len(Digits(c, k)) % 256 # 0) = (Digits(c, k) # <<>>)
        <5>1. PICK d : d = Digits(c, k)
          BY Zenon
        <5>2. d \in Seq(Decimal) /\ Len(d) < 256
          BY <1>4, <4>7, <5>1, Zenon
        <5>3. Len(d) % 256 = Len(d) /\ (Len(d) = 0 <=> d = <<>>)
          BY <5>2, EmptySeq
        <5>4. QED
          BY <5>1, <5>3
      <4>9. \A k \in 1..3 : Digits(c, k) # <<>> /\ k \in 1..4
        <5>1. \A k \in 1..3 : k \in 1..4
          OBVIOUS
        <5>2. ASSUME NEW k \in 1..3 PROVE Digits(c, k) # <<>>
          <6>1. Len(Digits(c, k)) % 256 # 0 /\ k \in 1..4
            BY <4>6, <5>1, <5>2, Zenon
          <6>2. QED
            BY <4>8, <6>1, Zenon
        <5>3. QED
          BY <5>1, <5>2, Zenon
      <4>10. IsIPV4Result = (Digits(c, 4) # <<>>)
        <5>1. 4 \in 1..4
          OBVIOUS
        <5>2. (isIPV4.chcnt # 0) = (Digits(c, 4) # <<>>)
          BY <4>6, <4>8, <5>1
        <5>3. QED
          BY <4>2, <4>5, <5>2, Zenon DEF IsIPV4Result
      <4>11. Whole = (Digits(c, 4) # <<>>)
        <5>1. \A k \in 1..4 : k = 4 \/ k \in 1..3
          OBVIOUS
        <5>2. 4 \in 1..4
          OBVIOUS
        <5>3. QED
          BY <4>6, <4>9, <5>1, <5>2
      <4>12. QED
        BY <4>10, <4>11, Zenon
    <3>2. CASE \E m, i, q : Refused(str, isIPV4, m, i, q)
      <4>1. PICK m, i, q : Refused(str, isIPV4, m, i, q)
        BY <3>2
      <4>2. /\ Scanned(str, m, i, q) /\ m <= Len(str) /\ str[m] \notin Decimal /\ ~isIPV4.running
            /\ str[m] # Dot \/ Len(Piece(str, q, i + 1)) % 256 = 0 \/ i = 3
        BY <4>1, Zenon DEF Refused
      <4>3. CharAt(str, m) = str[m]
        BY <4>2, Zenon DEF CharAt
      <4>4. /\ \A k \in 1..i+1 : q[k] = c[k] /\ Digits(c, k) = Piece(str, q, k)
            /\ m = c[i + 1]
        <5>1. Scanned(str, m, i, q) /\ CharAt(str, m) \notin Decimal
          BY <4>2, <4>3, Zenon
        <5>2. QED
          BY <2>1, <5>1, CutRead, Zenon
      <4>5. i \in 0..3 /\ i + 1 \in 1..i+1 /\ i + 1 \in 1..4
        BY <4>2 DEF Scanned
      <4>6. i = 3 => c[4] # Len(str) + 1
        <5>1. i = 3 => c[4] = m
          BY <4>4
        <5>2. m # Len(str) + 1
          BY <1>1, <4>2
        <5>3. QED
          BY <5>1, <5>2
      <4>7. i # 3 => Digits(c, i + 1) = <<>>
        <5>1. SUFFICES ASSUME i # 3 PROVE Digits(c, i + 1) = <<>>
          OBVIOUS
        <5>2. i + 1 \in 1..3
          BY <4>5, <5>1
        <5>3. str[m] = Dot
          BY <2>1, <4>3, <4>4, <5>2, Zenon DEF Located
        <5>4. PICK d : d = Digits(c, i + 1)
          BY Zenon
        <5>5. Len(d) % 256 = 0 /\ Len(d) < 256
          BY <1>4, <4>2, <4>4, <4>5, <5>1, <5>3, <5>4, Zenon
        <5>6. d \in Seq(Decimal)
          BY <2>1, <4>5, <5>4, CutDigits, Zenon
        <5>7. d = <<>>
          BY <5>5, <5>6, EmptySeq
        <5>8. QED
          BY <5>4, <5>7
      <4>8. ~Whole
        BY <4>5, <4>6, <4>7, Zenon
      <4>9. ~IsIPV4Result
        BY <4>2, Zenon DEF IsIPV4Result
      <4>10. Whole \in BOOLEAN /\ IsIPV4Result \in BOOLEAN
        BY Zenon DEF IsIPV4Result
      <4>11. QED
        BY <4>8, <4>9, <4>10, Zenon
    <3>3. QED
      BY <3>1, <3>2 DEF IsIPV4Inv
  <2>3. IsIPV4Result /\ Octets(c) /\ 255 <= INT_MAX => StrToIPResult.ret = 1
    <3>1. SUFFICES ASSUME Octets(c), 255 <= INT_MAX PROVE StrToIPResult.ret = 1
      OBVIOUS
    <3>2. ASSUME NEW k \in 1..4 PROVE Numbers(c)[k] <= INT_MAX
      <4>1. Numbers(c)[k] < 256
        BY <3>1, Zenon DEF Octets
      <4>2. Numbers(c)[k] \in Nat
        <5>1. Digits(c, k) \in Seq(Nat) /\ 10 \in Nat
          <6>1. Digits(c, k) \in Seq(Decimal)
            BY <2>1, CutDigits, Zenon
          <6>2. QED
            BY <6>1, SeqMonotonic DEF Decimal
        <5>2. Number(Digits(c, k), 10) \in Nat
          BY <5>1, NumberNat
        <5>3. QED
          BY <5>2, Zenon DEF Numbers
      <4>3. QED
        BY <3>1, <4>1, <4>2, UtilsAssumption
    <3>3. QED
      BY <3>1, <3>2, Zenon DEF StrToIPExact
  <2>4. QED
    BY <2>2, <2>3
<1>5. QED
  BY <1>3, <1>4, Zenon DEF QuadsAccepted
-----------------------------------------------------------------------------
(* The powers of sixteen: 1 with zeros behind it, read as a number.        *)
One(n) == [j \in 1..n+1 |-> IF j = 1 THEN 1 ELSE 0]

LEMMA OneIs ==
  ASSUME NEW n \in Nat
  PROVE  One(n) \in Seq(Nat) /\ Longer(One(n + 1), One(n), 0)
<1>1. One(n) \in Seq(Nat) /\ Len(One(n)) = n + 1
  BY DEF One
<1>2. One(n + 1) \in Seq(Nat) /\ Len(One(n + 1)) = (n + 1) + 1
  BY DEF One
<1>3. PICK z : z = Append(One(n), 0)
  BY Zenon
<1>4. /\ z \in Seq(Nat) /\ Len(z) = n + 2 /\ z[n + 2] = 0
      /\ \A j \in 1..n+1 : z[j] = One(n)[j]
  BY <1>1, <1>3
<1>5. \A j \in 1..n+2 : One(n + 1)[j] = z[j]
  <2>1. SUFFICES ASSUME NEW j \in 1..n+2 PROVE One(n + 1)[j] = z[j]
    OBVIOUS
  <2>2. One(n + 1)[j] = IF j = 1 THEN 1 ELSE 0
    BY DEF One
  <2>3. CASE j = n + 2
    BY <1>4, <2>2, <2>3
  <2>4. CASE j # n + 2
    <3>1. j \in 1..n+1
      BY <2>4
    <3>2. One(n)[j] = IF j = 1 THEN 1 ELSE 0
      BY <3>1 DEF One
    <3>3. QED
      BY <1>4, <2>2, <3>1, <3>2
  <2>5. QED
    BY <2>3, <2>4
<1>6. One(n + 1) = z
  <2>1. Len(One(n + 1)) = n + 2
    BY <1>2
  <2>2. QED
    BY <1>2, <1>4, <1>5, <2>1, SeqEqual
<1>7. QED
  BY <1>1, <1>3, <1>6, Zenon DEF Longer

LEMMA SixteensAre ==
  /\ Sixteens[0] = 1
  /\ \A n \in Nat : Sixteens[n] \in Nat \ {0} /\ Sixteens[n + 1] = 16 * Sixteens[n]
<1> DEFINE P(n) == Number(One(n), 16)
           f == [n \in Nat |-> P(n)]
<1>1. P(0) = 1
  <2>1. <<>> \in Seq(Nat) /\ 16 \in Nat /\ 1 \in Nat
    OBVIOUS
  <2>2. Number(Append(<<>>, 1), 16) = Number(<<>>, 16) * 16 + 1
    BY <2>1, NumberAppend
  <2>3. One(0) = Append(<<>>, 1)
    BY DEF One
  <2>4. Number(<<>>, 16) = 0
    BY NumberEmpty
  <2>5. QED
    BY <2>2, <2>3, <2>4
<1>2. ASSUME NEW n \in Nat PROVE P(n) \in Nat /\ P(n + 1) = 16 * P(n)
  <2>1. One(n) \in Seq(Nat) /\ Longer(One(n + 1), One(n), 0)
    BY OneIs
  <2>2. Number(One(n), 16) \in Nat
    BY <2>1, NumberNat
  <2>3. Number(Append(One(n), 0), 16) = Number(One(n), 16) * 16 + 0
    BY <2>1, NumberAppend
  <2>4. Number(One(n + 1), 16) = Number(Append(One(n), 0), 16)
    BY <2>1, Zenon DEF Longer
  <2>5. QED
    BY <2>2, <2>3, <2>4
<1> HIDE DEF P
<1>3. f = [n \in Nat |-> IF n = 0 THEN 1 ELSE 16 * f[n - 1]]
  <2>1. ASSUME NEW n \in Nat PROVE f[n] = IF n = 0 THEN 1 ELSE 16 * f[n - 1]
    <3>1. CASE n = 0
      BY <1>1, <3>1
    <3>2. CASE n # 0
      <4>1. n - 1 \in Nat /\ (n - 1) + 1 = n
        BY <3>2
      <4>2. P(n) = 16 * P(n - 1)
        BY <1>2, <4>1
      <4>3. QED
        BY <3>2, <4>1, <4>2
    <3>3. QED
      BY <3>1, <3>2
  <2>2. f = [n \in Nat |-> f[n]]
    OBVIOUS
  <2> HIDE DEF f
  <2>3. QED
    BY <2>1, <2>2
<1> HIDE DEF f
<1>4. Sixteens = [n \in Nat |-> IF n = 0 THEN 1 ELSE 16 * Sixteens[n - 1]]
  BY <1>3, Zenon DEF Sixteens
<1>5. Sixteens[0] = 1 /\ \A n \in Nat : Sixteens[n + 1] = 16 * Sixteens[n]
  <2>1. \A n \in Nat : n + 1 \in Nat /\ n + 1 # 0 /\ (n + 1) - 1 = n
    OBVIOUS
  <2>2. \A n \in Nat : Sixteens[n] = IF n = 0 THEN 1 ELSE 16 * Sixteens[n - 1]
    BY <1>4
  <2>3. QED
    BY <2>1, <2>2
<1>6. \A n \in Nat : Sixteens[n] \in Nat \ {0}
  <2> DEFINE S == {n \in Nat : Sixteens[n] \in Nat \ {0}}
  <2>1. 0 \in S
    BY <1>5
  <2>2. \A n \in Nat : n \in S => n + 1 \in S
    BY <1>5
  <2>3. Nat \subseteq S
    <3> HIDE DEF S
    <3>1. QED
      BY <2>1, <2>2, Induct
  <2>4. QED
    BY <2>3
<1>7. QED
  BY <1>5, <1>6

(* n digits are worth less than 16^n.                                      *)
LEMMA NumberBound ==
  ASSUME NEW s \in Seq(Hex)
  PROVE  Number(s, 16) \in Nat /\ Number(s, 16) < Sixteens[Len(s)]
<1>1. s \in Seq(Nat) /\ 16 \in Nat /\ Len(s) \in Nat
  BY SeqMonotonic DEF Hex
<1>2. PICK f : Values(s, 16, Len(s), f) /\ \A k \in 0..Len(s) : f[k] \in Nat
  BY <1>1, ValuesExist
<1>3. PICK n : n = Len(s)
  BY Zenon
<1>4. f = [k \in 0..n |-> IF k = 0 THEN 0 ELSE f[k - 1] * 16 + s[k]]
  BY <1>2, <1>3, Zenon DEF Values
<1>5. \A k \in 1..n : s[k] \in 0..15
  BY <1>3 DEF Hex
<1> DEFINE S == {k \in Nat : k <= n => f[k] < Sixteens[k]}
<1>6. 0 \in S
  <2>1. 0 \in 0..n
    BY <1>1, <1>3
  <2>2. f[0] = 0
    BY <1>4, <2>1
  <2>3. f[0] < Sixteens[0]
    <3>1. Sixteens[0] = 1
      BY SixteensAre, Zenon
    <3>2. QED
      BY <2>2, <3>1
  <2>4. QED
    BY <2>3
<1>7. ASSUME NEW k \in Nat, k \in S PROVE k + 1 \in S
  <2>1. SUFFICES ASSUME k + 1 <= n PROVE f[k + 1] < Sixteens[k + 1]
    OBVIOUS
  <2>2. k \in 0..n /\ k + 1 \in 0..n /\ k + 1 \in 1..n /\ k + 1 # 0 /\ (k + 1) - 1 = k
    BY <1>1, <1>3, <2>1
  <2>3. f[k + 1] = f[k] * 16 + s[k + 1]
    BY <1>4, <2>2, Zenon
  <2>4. /\ f[k] \in Nat /\ f[k] < Sixteens[k] /\ s[k + 1] \in 0..15
        /\ Sixteens[k] \in Nat /\ Sixteens[k + 1] = 16 * Sixteens[k]
    <3>1. f[k] \in Nat /\ s[k + 1] \in 0..15
      BY <1>2, <1>3, <1>5, <2>2, Zenon
    <3>2. f[k] < Sixteens[k]
      BY <1>7, <2>2
    <3>3. Sixteens[k] \in Nat /\ Sixteens[k + 1] = 16 * Sixteens[k]
      BY SixteensAre
    <3>4. QED
      BY <3>1, <3>2, <3>3
  <2>5. PICK p, x, d : p = Sixteens[k] /\ x = f[k] /\ d = s[k + 1]
    BY Zenon
  <2>6. p \in Nat /\ x \in Nat /\ x < p /\ d \in 0..15
    BY <2>4, <2>5, Zenon
  <2>7. x * 16 + d < 16 * p
    BY <2>6
  <2>8. QED
    BY <2>3, <2>4, <2>5, <2>7, Zenon
<1>8. f[n] < Sixteens[n]
  <2>1. Nat \subseteq S
    <3> HIDE DEF S
    <3>1. QED
      BY <1>6, <1>7, Induct
  <2>2. QED
    BY <1>1, <1>3, <2>1
<1>9. Number(s, 16) = f[n]
  BY <1>1, <1>2, <1>3, NumberIs
<1>10. n \in 0..Len(s)
  BY <1>1, <1>3
<1>11. QED
  BY <1>2, <1>3, <1>8, <1>9, <1>10

(* The first digit counts the most.                                        *)
LEMMA HighDigit ==
  ASSUME NEW z \in Seq(Hex), NEW y \in Seq(Hex), Len(z) = Len(y) + 1,
         \A k \in 1..Len(y) : y[k] = z[k + 1]
  PROVE  Number(z, 16) = z[1] * Sixteens[Len(y)] + Number(y, 16)
<1>1. z \in Seq(Nat) /\ y \in Seq(Nat) /\ 16 \in Nat /\ Len(y) \in Nat
  <2>1. Hex \subseteq Nat
    BY DEF Hex
  <2>2. \A s \in Seq(Hex) : s \in Seq(Nat)
    BY <2>1, SeqMonotonic, Zenon
  <2>3. Len(y) \in Nat /\ 16 \in Nat
    OBVIOUS
  <2>4. QED
    BY <2>2, <2>3, Zenon
<1>2. PICK f : Values(z, 16, Len(z), f) /\ \A k \in 0..Len(z) : f[k] \in Nat
  BY <1>1, ValuesExist
<1>3. PICK g : Values(y, 16, Len(y), g) /\ \A k \in 0..Len(y) : g[k] \in Nat
  BY <1>1, ValuesExist
<1>4. PICK n : n = Len(y)
  BY Zenon
<1>5. f = [k \in 0..n+1 |-> IF k = 0 THEN 0 ELSE f[k - 1] * 16 + z[k]]
  BY <1>2, <1>4, Zenon DEF Values
<1>6. g = [k \in 0..n |-> IF k = 0 THEN 0 ELSE g[k - 1] * 16 + y[k]]
  BY <1>3, <1>4, Zenon DEF Values
<1>7. z[1] \in Nat /\ \A k \in 1..n : y[k] \in Nat /\ y[k] = z[k + 1]
  BY <1>1, <1>4
<1> DEFINE S == {k \in Nat : k <= n => f[k + 1] = z[1] * Sixteens[k] + g[k]}
<1>8. 0 \in S
  <2>1. 0 \in 0..n /\ 0 \in 0..n+1 /\ 1 \in 0..n+1 /\ 1 # 0 /\ 1 - 1 = 0 /\ 0 + 1 = 1
    BY <1>1, <1>4
  <2>2. f[0] = 0 /\ f[1] = f[0] * 16 + z[1] /\ g[0] = 0
    BY <1>5, <1>6, <2>1
  <2>3. f[1] = z[1] * Sixteens[0] + g[0]
    BY <1>7, <2>2, SixteensAre
  <2>4. QED
    BY <2>3
<1>9. ASSUME NEW k \in Nat, k \in S PROVE k + 1 \in S
  <2>1. SUFFICES ASSUME k + 1 <= n
                 PROVE f[(k + 1) + 1] = z[1] * Sixteens[k + 1] + g[k + 1]
    OBVIOUS
  <2>2. /\ k \in 0..n /\ k + 1 \in 0..n /\ k + 1 \in 1..n /\ k + 1 # 0 /\ (k + 1) - 1 = k
        /\ k + 2 \in 0..n+1 /\ k + 2 # 0 /\ (k + 2) - 1 = k + 1 /\ (k + 1) + 1 = k + 2
    BY <1>1, <1>4, <2>1
  <2>3. f[k + 2] = f[k + 1] * 16 + z[k + 2] /\ g[k + 1] = g[k] * 16 + y[k + 1]
    <3>1. f[k + 2] = f[k + 1] * 16 + z[k + 2]
      BY <1>5, <2>2, Zenon
    <3>2. g[k + 1] = g[k] * 16 + y[k + 1]
      BY <1>6, <2>2, Zenon
    <3>3. QED
      BY <3>1, <3>2, Zenon
  <2>4. y[k + 1] = z[k + 2] /\ y[k + 1] \in Nat /\ g[k] \in Nat
    BY <1>3, <1>4, <1>7, <2>2
  <2>5. f[k + 1] = z[1] * Sixteens[k] + g[k]
    BY <1>9, <2>2
  <2>6. PICK p : p = Sixteens[k] /\ p \in Nat /\ Sixteens[k + 1] = 16 * p
    BY SixteensAre
  <2>7. PICK x : x = z[1] * p /\ x \in Nat /\ z[1] * (16 * p) = 16 * x
    BY <1>7, <2>6
  <2>8. f[k + 2] = (x + g[k]) * 16 + y[k + 1]
    BY <2>3, <2>4, <2>5, <2>6, <2>7
  <2>9. f[k + 2] = 16 * x + (g[k] * 16 + y[k + 1])
    BY <2>4, <2>7, <2>8
  <2>10. QED
    BY <2>2, <2>3, <2>6, <2>7, <2>9
<1>10. f[n + 1] = z[1] * Sixteens[n] + g[n]
  <2>1. Nat \subseteq S
    <3> HIDE DEF S
    <3>1. QED
      BY <1>8, <1>9, Induct
  <2>2. QED
    BY <1>1, <1>4, <2>1
<1>11. Number(z, 16) = f[n + 1] /\ Number(y, 16) = g[n]
  BY <1>1, <1>2, <1>3, <1>4, NumberIs
<1>12. QED
  BY <1>4, <1>10, <1>11
-----------------------------------------------------------------------------
(* UTILS_Atoh has read the first h characters, all of them digits.         *)
From(h) == IF h > WordDigits THEN h - WordDigits ELSE 0
Converted(t, st, h) ==
  /\ h \in Nat /\ h <= Len(t)
  /\ \A k \in 1..h : t[k] \in Hex
  /\ st.value = Number(Cut(t, From(h), h), 16)
  /\ IF st.running THEN h = Len(t) ELSE h < Len(t) /\ t[h + 1] \notin Hex
AtohRecord(st) == st = [running |-> st.running, value |-> st.value]
AtohInv(t, st) == AtohRecord(st) /\ \E h : Converted(t, st, h)

(* A part of a text that is digits throughout.                             *)
LEMMA HexCut ==
  ASSUME NEW t \in Text, NEW h \in Nat, h <= Len(t), \A k \in 1..h : t[k] \in Hex,
         NEW a \in Nat, a <= h
  PROVE  /\ Cut(t, a, h) \in Seq(Hex) /\ Len(Cut(t, a, h)) = h - a
         /\ \A j \in 1..h - a : Cut(t, a, h)[j] = t[a + j]
<1> DEFINE d == Cut(t, a, h)
<1>1. d \in Text /\ Len(d) = h - a /\ \A j \in 1..h - a : d[j] = t[a + j]
  BY CutIs
<1>2. \A j \in 1..h - a : a + j \in 1..h
  OBVIOUS
<1> HIDE DEF d
<1>3. \A j \in 1..Len(d) : d[j] \in Hex
  BY <1>1, <1>2
<1>4. d \in Seq(Hex)
  BY <1>1, <1>3, SeqDef DEF Text
<1>5. QED
  BY <1>1, <1>4 DEF d

LEMMA CutStays ==
  ASSUME NEW t \in Text, NEW c \in 0..Other, NEW h \in Nat, h <= Len(t), NEW a \in Nat, a <= h
  PROVE  Cut(Append(t, c), a, h) = Cut(t, a, h)
<1> DEFINE u == Append(t, c)
           v == Cut(u, a, h)
           w == Cut(t, a, h)
<1>1. /\ u \in Text /\ Len(u) = Len(t) + 1 /\ Len(t) \in Nat
      /\ \A j \in 1..Len(t) : u[j] = t[j]
  BY AppendIs
<1> HIDE DEF u
<1>2. h <= Len(u)
  BY <1>1
<1>3. v \in Text /\ Len(v) = h - a /\ \A j \in 1..h - a : v[j] = u[a + j]
  BY <1>1, <1>2, CutIs
<1>4. w \in Text /\ Len(w) = h - a /\ \A j \in 1..h - a : w[j] = t[a + j]
  BY CutIs
<1>5. \A j \in 1..h - a : a + j \in 1..Len(t)
  BY <1>1
<1> HIDE DEF v, w
<1>6. \A j \in 1..Len(v) : v[j] = w[j]
  BY <1>1, <1>3, <1>4, <1>5
<1>7. v = w
  BY <1>3, <1>4, <1>6, SeqEqual DEF Text
<1>8. QED
  BY <1>7, Zenon DEF u, v, w

LEMMA ModWord == ASSUME NEW n \in Nat \ {0}, NEW q \in Nat, NEW r \in 0..n-1 PROVE (q * n + r) % n = r
OBVIOUS

LEMMA FromIs ==
  ASSUME NEW h \in Nat
  PROVE  /\ From(h) \in Nat /\ From(h) <= h
         /\ \/ h < WordDigits /\ From(h) = 0 /\ From(h + 1) = 0
            \/ h >= WordDigits /\ From(h) = h - WordDigits /\ From(h + 1) = From(h) + 1
BY UtilsAssumption DEF From

LEMMA SixteensGrow ==
  ASSUME NEW m \in Nat, NEW n \in Nat, m <= n
  PROVE  Sixteens[m] <= Sixteens[n]
<1> DEFINE S == {k \in Nat : m <= k => Sixteens[m] <= Sixteens[k]}
<1>1. \A k \in Nat : Sixteens[k] \in Nat /\ Sixteens[k] <= Sixteens[k + 1]
  BY SixteensAre
<1>2. 0 \in S
  BY <1>1
<1>3. ASSUME NEW k \in Nat, k \in S PROVE k + 1 \in S
  <2>1. CASE m = k + 1
    BY <1>1, <2>1
  <2>2. CASE m # k + 1
    <3>1. m <= k + 1 => Sixteens[m] <= Sixteens[k]
      BY <1>3, <2>2
    <3>2. Sixteens[m] \in Nat /\ Sixteens[k] \in Nat /\ Sixteens[k + 1] \in Nat
      BY <1>1
    <3>3. Sixteens[k] <= Sixteens[k + 1]
      BY <1>1
    <3>4. QED
      BY <3>1, <3>2, <3>3
  <2>3. QED
    BY <2>1, <2>2
<1>4. Nat \subseteq S
  <2> HIDE DEF S
  <2>1. QED
    BY <1>2, <1>3, Induct
<1>5. QED
  BY <1>4

(* One more digit: what does not fit the word any more is pushed out of it. *)
LEMMA AtohDigit ==
  ASSUME NEW t \in Text, NEW c \in Hex, \A k \in 1..Len(t) : t[k] \in Hex, NEW n, n = Len(t)
  PROVE  (Number(Cut(t, From(n), n), 16) * 16 + c) % Uint32
           = Number(Cut(Append(t, c), From(n + 1), n + 1), 16)
<1> DEFINE u == Append(t, c)
           a == From(n)
           w == Cut(t, a, n)
           z == Cut(u, a, n + 1)
           y == Cut(u, From(n + 1), n + 1)
<1>1. c \in 0..Other /\ n \in Nat /\ c \in 0..15
  BY DEF Hex, Other, Text
<1>2. /\ u \in Text /\ Len(u) = n + 1 /\ u[n + 1] = c
      /\ \A k \in 1..n : u[k] = t[k]
  BY <1>1, AppendIs
<1> HIDE DEF u
<1>3. \A k \in 1..n+1 : u[k] \in Hex
  <2>1. \A k \in 1..n+1 : k = n + 1 \/ k \in 1..n
    BY <1>1
  <2>2. QED
    BY <1>2, <2>1
<1>4. /\ a \in Nat /\ a <= n /\ n <= Len(t)
      /\ \/ n < WordDigits /\ a = 0 /\ From(n + 1) = 0
         \/ n >= WordDigits /\ a = n - WordDigits /\ From(n + 1) = a + 1
  BY <1>1, FromIs
<1> HIDE DEF a
<1>5. w \in Seq(Hex) /\ Len(w) = n - a
  BY <1>1, <1>4, HexCut
<1>6. Longer(z, w, c)
  <2>1. Cut(Append(t, c), a, Len(t) + 1) = Append(Cut(t, a, Len(t)), c)
    BY <1>1, <1>4, EndGrows
  <2>2. QED
    BY <2>1, Zenon DEF Longer, u
<1> DEFINE m == n + 1
<1>7. m \in Nat /\ m <= Len(u) /\ (\A k \in 1..m : u[k] \in Hex) /\ a <= m
  BY <1>1, <1>2, <1>3, <1>4
<1>8. z \in Seq(Hex) /\ Len(z) = m - a /\ \A j \in 1..m - a : z[j] = u[a + j]
  <2> HIDE DEF m
  <2>1. /\ Cut(u, a, m) \in Seq(Hex) /\ Len(Cut(u, a, m)) = m - a
        /\ \A j \in 1..m - a : Cut(u, a, m)[j] = u[a + j]
    BY <1>2, <1>4, <1>7, HexCut
  <2>2. QED
    BY <2>1 DEF m
<1>9. Number(z, 16) = Number(w, 16) * 16 + c
  <2>1. w \in Seq(Nat) /\ c \in Nat /\ 16 \in Nat
    BY <1>1, <1>5, SeqMonotonic DEF Hex
  <2>2. Number(Append(w, c), 16) = Number(w, 16) * 16 + c
    BY <2>1, NumberAppend
  <2>3. QED
    BY <1>6, <2>2, Zenon DEF Longer
<1>10. Uint32 = Sixteens[WordDigits] /\ Uint32 \in Nat \ {0} /\ WordDigits \in Nat
  BY SixteensAre, UtilsAssumption DEF Uint32
<1> HIDE DEF w, z
<1>11. CASE n < WordDigits /\ a = 0 /\ From(n + 1) = 0
  <2>1. y = z
    BY <1>11, Zenon DEF y, z
  <2>2. Number(z, 16) \in Nat /\ Number(z, 16) < Sixteens[Len(z)]
    BY <1>8, NumberBound
  <2>3. Len(z) \in Nat /\ Len(z) <= WordDigits
    BY <1>8, <1>10, <1>11, <1>1
  <2>4. Sixteens[Len(z)] <= Uint32 /\ Sixteens[Len(z)] \in Nat
    BY <1>10, <2>3, SixteensGrow, SixteensAre
  <2>5. PICK v : v = Number(z, 16)
    BY Zenon
  <2>6. v \in 0..Uint32 - 1
    BY <1>10, <2>2, <2>4, <2>5
  <2>7. v % Uint32 = v
    <3>1. (0 * Uint32 + v) % Uint32 = v
      BY <1>10, <2>6, ModWord
    <3>2. 0 * Uint32 + v = v
      BY <1>10, <2>6
    <3>3. QED
      BY <3>1, <3>2
  <2>8. QED
    BY <1>9, <2>1, <2>5, <2>7, Zenon DEF u, w, a
<1>12. CASE n >= WordDigits /\ a = n - WordDigits /\ From(n + 1) = a + 1
  <2> DEFINE b == a + 1
  <2>1. b \in Nat /\ b <= m
    BY <1>4, <1>12, <1>10
  <2>2. y \in Seq(Hex) /\ Len(y) = m - b /\ \A j \in 1..m - b : y[j] = u[b + j]
    <3> HIDE DEF m, b
    <3>1. /\ Cut(u, b, m) \in Seq(Hex) /\ Len(Cut(u, b, m)) = m - b
          /\ \A j \in 1..m - b : Cut(u, b, m)[j] = u[b + j]
      BY <1>2, <1>7, <2>1, HexCut
    <3>2. y = Cut(u, b, m)
      BY <1>12, Zenon DEF b, m
    <3> HIDE DEF y
    <3>3. QED
      BY <3>1, <3>2
  <2> HIDE DEF y
  <2>3. m - b = WordDigits /\ m - a = WordDigits + 1
    BY <1>1, <1>4, <1>10, <1>12
  <2>4. Len(z) = Len(y) + 1 /\ Len(y) = WordDigits
    BY <1>8, <2>2, <2>3
  <2>5. \A k \in 1..Len(y) : y[k] = z[k + 1]
    <3>1. \A k \in 1..m - b : k + 1 \in 1..m - a /\ a + (k + 1) = b + k
      BY <1>1, <1>4
    <3> HIDE DEF m, b
    <3>2. QED
      BY <1>8, <2>2, <3>1
  <2>6. Number(z, 16) = z[1] * Uint32 + Number(y, 16)
    <3>1. Number(z, 16) = z[1] * Sixteens[Len(y)] + Number(y, 16)
      BY <1>8, <2>2, <2>4, <2>5, HighDigit
    <3>2. QED
      BY <1>10, <2>4, <3>1, Zenon
  <2>7. Number(y, 16) \in Nat /\ Number(y, 16) < Uint32
    BY <1>10, <2>2, <2>4, NumberBound
  <2>8. z[1] \in Nat
    <3>1. 1 \in 1..Len(z)
      BY <1>10, <2>4
    <3>2. z[1] \in Hex
      BY <1>8, <3>1, ElementOfSeq
    <3>3. QED
      BY <3>2 DEF Hex
  <2>9. PICK v : v = Number(y, 16)
    BY Zenon
  <2>10. v \in 0..Uint32 - 1
    BY <1>10, <2>7, <2>9
  <2>11. (z[1] * Uint32 + v) % Uint32 = v
    BY <1>10, <2>8, <2>10, ModWord
  <2>12. QED
    BY <1>9, <2>6, <2>9, <2>11, Zenon DEF u, w, a, y
<1>13. QED
  BY <1>4, <1>11, <1>12

LEMMA AtohBegins == AtohInv(<<>>, [running |-> TRUE, value |-> 0])
<1> DEFINE st == [running |-> TRUE, value |-> 0]
<1>1. AtohRecord(st) /\ st.running = TRUE /\ st.value = 0
  BY DEF AtohRecord
<1> HIDE DEF st
<1>2. <<>> \in Text /\ Len(<<>>) = 0 /\ 0 \in Nat /\ 0 <= 0 /\ \A k \in 1..0 : FALSE
  BY DEF Text
<1>3. From(0) = 0
  BY UtilsAssumption DEF From
<1>4. Number(Cut(<<>>, From(0), 0), 16) = 0
  <2>1. Cut(<<>>, 0, 0) \in Text /\ Len(Cut(<<>>, 0, 0)) = 0 - 0
    BY <1>2, CutIs
  <2>2. Cut(<<>>, 0, 0) = <<>>
    BY <2>1, EmptySeq DEF Text
  <2>3. Number(<<>>, 16) = 0
    BY NumberEmpty
  <2>4. QED
    BY <1>3, <2>2, <2>3, Zenon
<1>5. Converted(<<>>, st, 0)
  BY <1>1, <1>2, <1>4, Zenon DEF Converted
<1>6. QED
  BY <1>1, <1>5, Zenon DEF AtohInv, st

LEMMA AtohStep ==
  ASSUME NEW t \in Text, NEW st, NEW ch \in 0..Other, AtohInv(t, st)
  PROVE  AtohInv(Append(t, ch), Feed(UTILS_Atoh, st, ch))
<1> DEFINE u == Append(t, ch)
           w == UTILS_Atoh(st, ch)
<1>1. PICK h : Converted(t, st, h)
  BY Zenon DEF AtohInv
<1>2. /\ h \in Nat /\ h <= Len(t) /\ \A k \in 1..h : t[k] \in Hex
      /\ st.value = Number(Cut(t, From(h), h), 16)
      /\ IF st.running THEN h = Len(t) ELSE h < Len(t) /\ t[h + 1] \notin Hex
  BY <1>1, Zenon DEF Converted
<1>3. AtohRecord(st)
  BY DEF AtohInv
<1>4. /\ u \in Text /\ Len(u) = Len(t) + 1 /\ u[Len(t) + 1] = ch /\ Len(t) \in Nat
      /\ \A k \in 1..Len(t) : u[k] = t[k]
  BY AppendIs
<1> HIDE DEF u
<1>5. \A k \in 1..h : u[k] \in Hex /\ k \in 1..Len(t)
  BY <1>2, <1>4
<1>6. Cut(u, From(h), h) = Cut(t, From(h), h)
  <2>1. From(h) \in Nat /\ From(h) <= h
    BY <1>2, FromIs
  <2>2. QED
    BY <1>2, <2>1, CutStays DEF u
<1>7. h <= Len(u) /\ h < Len(u)
  BY <1>2, <1>4
<1>8. CASE ~st.running
  <2>1. Feed(UTILS_Atoh, st, ch) = st
    BY <1>8, Zenon DEF Feed
  <2>2. h + 1 \in 1..Len(t)
    BY <1>2, <1>4, <1>8
  <2>3. u[h + 1] \notin Hex
    BY <1>2, <1>4, <1>8, <2>2, Zenon
  <2>4. Converted(u, st, h)
    BY <1>2, <1>5, <1>6, <1>7, <1>8, <2>3, Zenon DEF Converted
  <2>5. QED
    BY <1>3, <2>1, <2>4, Zenon DEF AtohInv, u
<1>9. CASE st.running
  <2>1. Feed(UTILS_Atoh, st, ch) = w
    BY <1>9, Zenon DEF Feed
  <2>2. h = Len(t)
    BY <1>2, <1>9, Zenon
  <2>3. CASE ch \in Hex
    <3>1. PICK v : v = (st.value * 16 + ch) % Uint32
      BY Zenon
    <3>2. w = [st EXCEPT !.value = v]
      BY <2>3, <3>1, Zenon DEF UTILS_Atoh
    <3> HIDE DEF w
    <3>3. w.running = st.running /\ w.value = v /\ AtohRecord(w)
      BY <1>3, <3>2 DEF AtohRecord
    <3>4. \A k \in 1..Len(t) : t[k] \in Hex
      BY <1>2, <2>2, Zenon
    <3>5. v = Number(Cut(u, From(h + 1), h + 1), 16)
      BY <1>2, <2>2, <2>3, <3>1, <3>4, AtohDigit, Zenon DEF u
    <3>6. h + 1 \in Nat /\ h + 1 <= Len(u) /\ h + 1 = Len(u) /\ \A k \in 1..h+1 : k = h + 1 \/ k \in 1..h
      BY <1>2, <1>4, <2>2
    <3>7. \A k \in 1..h+1 : u[k] \in Hex
      BY <1>4, <1>5, <2>2, <2>3, <3>6, Zenon
    <3>8. Converted(u, w, h + 1)
      BY <1>9, <3>3, <3>5, <3>6, <3>7, Zenon DEF Converted
    <3>9. QED
      BY <2>1, <3>3, <3>8, Zenon DEF AtohInv, u
  <2>4. CASE ch \notin Hex
    <3>1. w = [st EXCEPT !.running = FALSE]
      BY <2>4, Zenon DEF UTILS_Atoh
    <3> HIDE DEF w
    <3>2. w.running = FALSE /\ w.value = st.value /\ AtohRecord(w)
      BY <1>3, <3>1 DEF AtohRecord
    <3>3. u[h + 1] \notin Hex
      BY <1>4, <2>2, <2>4, Zenon
    <3>4. Converted(u, w, h)
      BY <1>2, <1>5, <1>6, <1>7, <3>2, <3>3, Zenon DEF Converted
    <3>5. QED
      BY <2>1, <3>2, <3>4, Zenon DEF AtohInv, u
  <2>5. QED
    BY <2>3, <2>4
<1>10. QED
  BY <1>8, <1>9

LEMMA AtohIsExact ==
  ASSUME str \in Text, AtohInv(str, atoh)
  PROVE  AtohExact
<1>1. PICK h : Converted(str, atoh, h)
  BY Zenon DEF AtohInv
<1>2. /\ h \in Nat /\ h <= Len(str) /\ \A k \in 1..h : str[k] \in Hex
      /\ atoh.value = Number(Cut(str, From(h), h), 16)
      /\ IF atoh.running THEN h = Len(str) ELSE h < Len(str) /\ str[h + 1] \notin Hex
  BY <1>1, Zenon DEF Converted
<1>3. h \in 0..Len(str) /\ (h < Len(str) => str[h + 1] \notin Hex)
  BY <1>2 DEF Text
<1>4. h \in LeadingHex
  BY <1>2, <1>3, Zenon DEF LeadingHex
<1>5. LastHex(h) = Cut(str, From(h), h)
  BY Zenon DEF LastHex, Cut, From
<1>6. QED
  BY <1>2, <1>4, <1>5, Zenon DEF AtohExact
-----------------------------------------------------------------------------
(* What each of the three has made of the text read so far.                *)
ParserInv ==
  /\ str \in Text
  /\ IsIPV4Inv(str, isIPV4)
  /\ StrToIPInv(str, strToIP)
  /\ AtohInv(str, atoh)

LEMMA ParsersBegin == UtilsInit => ParserInv
<1>1. SUFFICES ASSUME UtilsInit PROVE ParserInv
  OBVIOUS
<1>2. <<>> \in Text
  BY DEF Text
<1>3. QED
  BY <1>1, <1>2, IsIPV4Begins, StrToIPBegins, AtohBegins, Zenon DEF UtilsInit, ParserInv

LEMMA ParsersRead == ParserInv /\ [NextChar]_utilsVars => ParserInv'
<1>1. SUFFICES ASSUME ParserInv, [NextChar]_utilsVars PROVE ParserInv'
  OBVIOUS
<1>2. CASE UNCHANGED utilsVars
  <2>1. str' = str /\ isIPV4' = isIPV4 /\ strToIP' = strToIP /\ atoh' = atoh
    BY <1>2 DEF utilsVars
  <2>2. QED
    BY <1>1, <2>1, Zenon DEF ParserInv
<1>3. CASE NextChar
  <2>1. PICK c \in Chars : /\ str' = Append(str, c)
                           /\ isIPV4' = Feed(UTILS_IsIPV4, isIPV4, c)
                           /\ strToIP' = Feed(UTILS_StrToIP, strToIP, c)
                           /\ atoh' = Feed(UTILS_Atoh, atoh, c)
    BY <1>3, Zenon DEF NextChar
  <2>2. c \in 0..Other
    BY UtilsAssumption
  <2>3. Append(str, c) \in Text
    BY <1>1, <2>2, AppendIs DEF ParserInv
  <2>4. IsIPV4Inv(Append(str, c), Feed(UTILS_IsIPV4, isIPV4, c))
    BY <1>1, <2>2, IsIPV4Step, Zenon DEF ParserInv
  <2>5. StrToIPInv(Append(str, c), Feed(UTILS_StrToIP, strToIP, c))
    BY <1>1, <2>2, StrToIPStep, Zenon DEF ParserInv
  <2>6. AtohInv(Append(str, c), Feed(UTILS_Atoh, atoh, c))
    BY <1>1, <2>2, AtohStep, Zenon DEF ParserInv
  <2>7. str' \in Text /\ IsIPV4Inv(str', isIPV4') /\ StrToIPInv(str', strToIP') /\ AtohInv(str', atoh')
    BY <2>1, <2>3, <2>4, <2>5, <2>6, Zenon
  <2>8. QED
    BY <2>7, Zenon DEF ParserInv
<1>4. QED
  BY <1>1, <1>2, <1>3

(* The parsers at the end of every text: UTILS_StrToIP and UTILS_Atoh give  *)
(* what the text says, whatever came before or stands behind it, as long   *)
(* as no number overflows the int (utils.c:89-150).                        *)
THEOREM ParsersAreExact == UtilsSpec => []ParsersExact
<1>1. UtilsInit => ParserInv
  BY ParsersBegin
<1>2. ParserInv /\ [NextChar]_utilsVars => ParserInv'
  BY ParsersRead
<1>3. ParserInv => ParsersExact
  BY StrToIPIsExact, AtohIsExact DEF ParserInv, ParsersExact
<1>4. QED
  BY <1>1, <1>2, <1>3, PTL DEF UtilsSpec

(* Of texts that begin with four numbers below 256 UTILS_IsIPV4 accepts the *)
(* quads with nothing behind, and UTILS_StrToIP each of them; UTILS_IsIPV4 *)
(* refuses what is no four numbers (utils.c:41-88).                        *)
THEOREM IsIPV4Agrees == UtilsSpec => []QuadsAccepted
<1>1. UtilsInit => ParserInv
  BY ParsersBegin
<1>2. ParserInv /\ [NextChar]_utilsVars => ParserInv'
  BY ParsersRead
<1>3. ParserInv => QuadsAccepted
  BY StrToIPIsExact, QuadsAreAccepted DEF ParserInv
<1>4. QED
  BY <1>1, <1>2, <1>3, PTL DEF UtilsSpec
=============================================================================
