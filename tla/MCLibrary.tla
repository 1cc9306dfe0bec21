------------------------------ MODULE MCLibrary -----------------------------
(* The parts of lib/mqtt that stand on their own: the ring, the queue of     *)
(* frames on it and the parsers.  They share no state here (the queue stands *)
(* on what the ring is proved to implement): in a behaviour one of them,     *)
(* named by part, moves.                                                     *)
EXTENDS RingBuf, FrameQueue, Utils, Functions

VARIABLE part

(* The ring with three byte values and sizes on both sides of the limits of  *)
(* RINGBUF_Init (0 and 1 are refused).                                       *)
MCValue == 0..2
MCSizes == 0..4

(* Packets whose frames take 3, 5 and 10 bytes, with every marker byte and   *)
(* a byte (93) that looks like an escaped one; the last never fits a ring    *)
(* of 9 bytes, the others share it.  Only a publisher offers the last.       *)
MCPacket == { <<1>>, <<127, 93>>, <<125, 126, 127, 126>> }
MCReply == { <<1>>, <<127, 93>> }

(* The parsers' texts.  Digits that make numbers on both sides of 256, the   *)
(* dot, and a letter that is a hexadecimal digit; six characters hold        *)
(* numbers of four digits that overflow an int, of ten bits and a sign here, *)
(* and more digits than the word of UTILS_Atoh, three here.  Nine, if only   *)
(* some of the characters are among them, hold a quad with a number of three *)
(* digits: 255, or one that its 8 bits cut.                                  *)
MCChars == {2, 5, 6, 14, Dot}
MCQuadChars == {2, 5, Dot}
MCFreeLength == 6

LibraryInit ==
  /\ part \in {"ring", "queue", "utils"}
  /\ RingInit /\ Init /\ UtilsInit
  /\ part # "ring" => byte = Zero
  /\ part # "queue" => packet = <<1>>

LibraryNext ==
  /\ \/ /\ part = "ring" /\ RingNext
        /\ UNCHANGED <<vars, utilsVars>>
     \/ /\ part = "queue" /\ Next
        /\ UNCHANGED <<ringVars, utilsVars>>
     \/ /\ part = "utils" /\ NextChar
        /\ Len(str') > MCFreeLength => Range(str') \subseteq MCQuadChars
        /\ UNCHANGED <<ringVars, vars>>
  /\ UNCHANGED part

\* The fairness is that of the queue: a call that has started goes on.
LibrarySpec ==
  /\ LibraryInit /\ [][LibraryNext]_<<part, ringVars, vars, utilsVars>>
  /\ WF_vars(part = "queue" /\ Step /\ UNCHANGED <<part, ringVars, utilsVars>>)
=============================================================================
