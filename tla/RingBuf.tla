------------------------------ MODULE RingBuf -------------------------------
(***************************************************************************)
(* lib/mqtt/ringbuf.c: the byte ring under the outbound message queue.     *)
(*                                                                         *)
(* p_r and p_w are the read and write pointers as offsets from p_o, slots  *)
(* is the memory p_o points to.  The RINGBUF lives inside the global       *)
(* MQTT_Client, which starts zeroed and is zeroed again (mqtt.c:698) before*)
(* every QUEUE_Init, so a RINGBUF_Init that gives up leaves an all-zero    *)
(* structure: size 0.                                                      *)
(***************************************************************************)
EXTENDS Integers, Sequences

CONSTANTS Value, Zero, \* slot values, and the one os_zalloc fills with
          Sizes        \* the buffer sizes RINGBUF_Init may be called with

ASSUME RingAssumption ==
  /\ Zero \in Value
  /\ Sizes \subseteq Nat

VARIABLES slots, p_r, p_w, fill_cnt, size, status, byte

ringVars == <<slots, p_r, p_w, fill_cnt, size, status, byte>>

Ok == 0
Failed == -1

RingInit ==
  /\ slots = [i \in 0..-1 |-> Zero]
  /\ p_r = 0 /\ p_w = 0 /\ fill_cnt = 0 /\ size = 0
  /\ status = Ok
  /\ byte \in Value

\* QUEUE_Init: os_zalloc the buffer (NULL when the heap is exhausted), then
\* RINGBUF_Init, whose result the caller ignores.
RINGBUF_Init(n, allocated) ==
  /\ p_r' = 0 /\ p_w' = 0 /\ fill_cnt' = 0
  /\ \/ /\ allocated /\ n >= 2
        /\ size' = n
        /\ slots' = [i \in 0..n-1 |-> Zero]
        /\ status' = Ok
     \/ /\ ~allocated \/ n < 2
        /\ size' = 0
        /\ slots' = [i \in 0..-1 |-> Zero]
        /\ status' = Failed
  /\ UNCHANGED byte

\* Faulty variant of Wrap: the pointer is allowed to stop one past the end.
WrapLate(p) == IF p > size THEN 0 ELSE p

\* A pointer that went past the physical boundary rolls back to p_o.
Wrap(p) == IF p >= size THEN 0 ELSE p

RINGBUF_Put(c) ==
  \/ /\ fill_cnt >= size
     /\ status' = Failed
     /\ UNCHANGED <<slots, p_r, p_w, fill_cnt, size, byte>>
  \/ /\ fill_cnt < size
     /\ fill_cnt' = fill_cnt + 1
     /\ slots' = [slots EXCEPT ![p_w] = c]
     /\ p_w' = Wrap(p_w + 1)
     /\ status' = Ok
     /\ UNCHANGED <<p_r, size, byte>>

\* Faulty variant of RINGBUF_Get: the pointer moves before the byte is read.
RINGBUF_GetAhead ==
  \/ /\ fill_cnt <= 0
     /\ status' = Failed
     /\ UNCHANGED <<slots, p_r, p_w, fill_cnt, size, byte>>
  \/ /\ fill_cnt > 0
     /\ fill_cnt' = fill_cnt - 1
     /\ p_r' = Wrap(p_r + 1)
     /\ byte' = slots[Wrap(p_r + 1)]
     /\ status' = Ok
     /\ UNCHANGED <<slots, p_w, size>>

RINGBUF_Get ==
  \/ /\ fill_cnt <= 0
     /\ status' = Failed
     /\ UNCHANGED <<slots, p_r, p_w, fill_cnt, size, byte>>
  \/ /\ fill_cnt > 0
     /\ fill_cnt' = fill_cnt - 1
     /\ byte' = slots[p_r]
     /\ p_r' = Wrap(p_r + 1)
     /\ status' = Ok
     /\ UNCHANGED <<slots, p_w, size>>

RingNext ==
  \/ \E n \in Sizes, allocated \in BOOLEAN : RINGBUF_Init(n, allocated)
  \/ \E c \in Value : RINGBUF_Put(c)
  \/ RINGBUF_Get

RingSpec == RingInit /\ [][RingNext]_ringVars

-----------------------------------------------------------------------------
(* The bytes the ring holds, oldest first: the refinement mapping.         *)
Slot(k) == IF p_r + k >= size THEN p_r + k - size ELSE p_r + k

Contents == [k \in 1..fill_cnt |-> slots[Slot(k - 1)]]

Fifo == INSTANCE ByteFifo WITH q <- Contents, cap <- size

(* Every call of the ring, whatever the history of calls, wrap-arounds and *)
(* re-initialisations before it, returns what a bounded first-in first-out *)
(* queue of bytes would return and leaves the contents that queue would    *)
(* have (RINGBUF_Init, RINGBUF_Put and RINGBUF_Get of ringbuf.c).          *)
ImplementsFifo == Fifo!FifoSpec

(* Types: pointers stay inside the buffer.                                 *)
RingTypeOK ==
  /\ size \in Nat
  /\ slots \in [0..size-1 -> Value]
  /\ p_r \in Nat /\ p_w \in Nat
  /\ size > 0 => p_r < size /\ p_w < size
  /\ fill_cnt \in 0..size
  /\ status \in {Ok, Failed}
  /\ byte \in Value

(* The redundant state agrees: the write pointer is the read pointer moved *)
(* on by the number of filled slots, which is all that tells a full ring   *)
(* from an empty one when the two pointers meet (ringbuf.c:34, 55).        *)
PointersAgree ==
  IF size = 0 THEN p_r = 0 /\ p_w = 0
              ELSE p_w = Slot(fill_cnt)
=============================================================================
