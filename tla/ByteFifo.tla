------------------------------ MODULE ByteFifo ------------------------------
(***************************************************************************)
(* What lib/mqtt/ringbuf.c promises its callers: a first-in first-out      *)
(* queue of bytes with a fixed capacity, which refuses a byte when it is   *)
(* full, hands out the oldest byte first, and can be set up anew.          *)
(* "status" is the value the last call returned (0 or -1) and "byte" what  *)
(* the last successful RINGBUF_Get stored through its out parameter.       *)
(***************************************************************************)
EXTENDS Integers, Sequences

CONSTANTS Value,       \* the values a slot can hold
          Sizes        \* the buffer sizes RINGBUF_Init may be called with

VARIABLES q, cap, status, byte

fifoVars == <<q, cap, status, byte>>

Ok == 0
Failed == -1

FifoInit ==
  /\ q = <<>>
  /\ cap = 0
  /\ status = Ok
  /\ byte \in Value

\* A set-up empties the queue; it leaves a queue of capacity 0, which
\* refuses everything, when the buffer is missing or too small.
Setup(n) ==
  /\ q' = <<>>
  /\ \/ n >= 2 /\ cap' = n /\ status' = Ok
     \/ cap' = 0 /\ status' = Failed
  /\ UNCHANGED byte

Put(c) ==
  \/ /\ Len(q) < cap
     /\ q' = Append(q, c)
     /\ status' = Ok
     /\ UNCHANGED <<cap, byte>>
  \/ /\ Len(q) = cap
     /\ status' = Failed
     /\ UNCHANGED <<q, cap, byte>>

Get ==
  \/ /\ q # <<>>
     /\ byte' = Head(q)
     /\ q' = Tail(q)
     /\ status' = Ok
     /\ UNCHANGED cap
  \/ /\ q = <<>>
     /\ status' = Failed
     /\ UNCHANGED <<q, cap, byte>>

FifoNext ==
  \/ \E n \in Sizes : Setup(n)
  \/ \E c \in Value : Put(c)
  \/ Get

FifoSpec == FifoInit /\ [][FifoNext]_fifoVars
=============================================================================
