------------------------------- MODULE Utils --------------------------------
(***************************************************************************)
(* lib/mqtt/utils.c: the three parsers of text, one step per character.    *)
(* str is the text read so far; each parser's state is what its local      *)
(* variables hold then, and its result the value it would return if the    *)
(* text ended there with '\0'.  Characters are digits 0..9, letters 10..15 *)
(* for a..f, Dot and Other.                                                *)
(***************************************************************************)
EXTENDS Integers, Sequences

CONSTANTS Chars,      \* the characters tried
          MaxLength,  \* bound on the length of the text
          WordDigits, \* 8, the hexadecimal digits of a uint32_t
          INT_MAX     \* 2^31 - 1

Dot == 16
Other == 17
Decimal == 0..9
Hex == 0..15

ASSUME UtilsAssumption ==
  /\ Chars \subseteq 0..Other /\ MaxLength \in Nat
  /\ WordDigits \in Nat \ {0} /\ INT_MAX \in Nat

\* The values of n hexadecimal digits, and of a uint32_t.
Sixteens[n \in Nat] == IF n = 0 THEN 1 ELSE 16 * Sixteens[n - 1]
Uint32 == Sixteens[WordDigits]

VARIABLES str,
          isIPV4,   \* [running, segs, chcnt, accum], running FALSE after a return 0
          strToIP,  \* [running, ret, i, n, ip], running FALSE after a return
          atoh      \* [running, value], running FALSE after the break

utilsVars == <<str, isIPV4, strToIP, atoh>>

UtilsInit ==
  /\ str = <<>>
  /\ isIPV4 = [running |-> TRUE, segs |-> 0, chcnt |-> 0, accum |-> 0]
  /\ strToIP = [running |-> TRUE, ret |-> 0, i |-> 0, n |-> 0, ip |-> <<>>]
  /\ atoh = [running |-> TRUE, value |-> 0]

\* Faulty variant of UTILS_IsIPV4: the limit of segments comes one too early.
UTILS_IsIPV4Short(s, c) ==
  CASE c = Dot /\ s.chcnt # 0 /\ s.segs + 1 # 3
            -> [s EXCEPT !.segs = @ + 1, !.chcnt = 0, !.accum = 0]
    [] c \in Decimal -> [s EXCEPT !.accum = (@ * 10 + c) % 256, !.chcnt = (@ + 1) % 256]
    [] OTHER -> [s EXCEPT !.running = FALSE]

\* uint8_t accum and chcnt: the test against 255 sees the value already cut.
UTILS_IsIPV4(s, c) ==
  LET accum == (s.accum * 10 + c) % 256
  IN CASE c = Dot /\ s.chcnt # 0 /\ s.segs + 1 # 4
            -> [s EXCEPT !.segs = @ + 1, !.chcnt = 0, !.accum = 0]
       [] c \in Decimal /\ ~(accum > 255)
            -> [s EXCEPT !.accum = accum, !.chcnt = (@ + 1) % 256]
       [] OTHER -> [s EXCEPT !.running = FALSE]

IsIPV4Result == isIPV4.running /\ isIPV4.segs = 3 /\ isIPV4.chcnt # 0

\* Faulty variant of OctetFits: the test forgets the first value that is too large.
OctetFitsLate(n) == n <= 256

OctetFits(n) == n < 256

\* An int that overflows, which C leaves undefined, wraps in the build.
Int32(v) == ((v + INT_MAX + 1) % (2 * (INT_MAX + 1))) - (INT_MAX + 1)

\* A byte is complete: it is stored, and the fourth ends the call.
OctetEnds(s) ==
  IF OctetFits(s.n)
  THEN [s EXCEPT !.ip = Append(@, s.n % 256), !.i = @ + 1, !.n = 0,
                 !.running = s.i < 3, !.ret = IF s.i = 3 THEN 1 ELSE 0]
  ELSE [s EXCEPT !.running = FALSE]

UTILS_StrToIP(s, c) ==
  IF c \in Decimal THEN [s EXCEPT !.n = Int32(@ * 10 + c)]
  ELSE IF c = Dot \/ s.i = 3 THEN OctetEnds(s)
  ELSE [s EXCEPT !.running = FALSE]

\* The '\0' at the end is one more character that is neither digit nor dot.
StrToIPResult == IF strToIP.running THEN UTILS_StrToIP(strToIP, Other) ELSE strToIP

UTILS_Atoh(s, c) ==
  IF c \in Hex THEN [s EXCEPT !.value = (@ * 16 + c) % Uint32]
  ELSE [s EXCEPT !.running = FALSE]

Feed(parser(_, _), s, c) == IF s.running THEN parser(s, c) ELSE s

NextChar ==
  /\ Len(str) < MaxLength
  /\ \E c \in Chars :
       /\ str' = Append(str, c)
       /\ isIPV4' = Feed(UTILS_IsIPV4, isIPV4, c)
       /\ strToIP' = Feed(UTILS_StrToIP, strToIP, c)
       /\ atoh' = Feed(UTILS_Atoh, atoh, c)

UtilsSpec == UtilsInit /\ [][NextChar]_utilsVars
-----------------------------------------------------------------------------
\* Reference definitions, over the text as a whole.
Number(digits, base) ==
  LET value[k \in 0..Len(digits)] ==
        IF k = 0 THEN 0 ELSE value[k - 1] * base + digits[k]
  IN value[Len(digits)]

\* The four numbers at the beginning of the text: c[1], c[2] and c[3] are the
\* dots behind the first three, c[4] is the place behind the digits of the fourth.
Behind(c, k) == IF k = 1 THEN 0 ELSE c[k - 1]
Dots == {k \in DOMAIN str : str[k] = Dot}
Stops == {k \in 1..Len(str) + 1 : k <= Len(str) => str[k] \notin Decimal}
Cuts ==
  {c \in Dots \X Dots \X Dots \X Stops :
     \A k \in 1..4 : /\ Behind(c, k) < c[k]
                     /\ \A j \in Behind(c, k) + 1..c[k] - 1 : str[j] \in Decimal}
Digits(c, k) == SubSeq(str, Behind(c, k) + 1, c[k] - 1)
Numbers(c) == [k \in 1..4 |-> Number(Digits(c, k), 10)]
Octets(c) == \A k \in 1..4 : Numbers(c)[k] < 256

StrToIPExact ==
  /\ Cuts = {} => StrToIPResult.ret = 0
  /\ \A c \in Cuts : (\A k \in 1..4 : Numbers(c)[k] <= INT_MAX) =>
       /\ (StrToIPResult.ret = 1) = Octets(c)
       /\ Octets(c) => StrToIPResult.ip = Numbers(c)

\* The digits at the beginning of the text, as many of the last of them as the
\* result has room for.
LeadingHex ==
  {h \in 0..Len(str) : /\ \A k \in 1..h : str[k] \in Hex
                       /\ h < Len(str) => str[h + 1] \notin Hex}
LastHex(h) == SubSeq(str, (IF h > WordDigits THEN h - WordDigits ELSE 0) + 1, h)

AtohExact == \E h \in LeadingHex : atoh.value = Number(LastHex(h), 16)

\* UTILS_StrToIP accepts exactly the texts that begin with four numbers below 256
\* with dots between them (an empty one counts as 0, and anything may follow the
\* fourth), and stores those numbers, as long as none of them overflows the int
\* they are added up in.  MQTT_Connect (mqtt.c:813) asks the resolver for every
\* other text, so an accepted one must be an address.  The value of UTILS_Atoh is
\* that of the leading hexadecimal digits, of which the last eight are those its
\* result has room for.
ParsersExact == StrToIPExact /\ AtohExact

\* On texts that are an address or begin with one, the two parsers of addresses agree:
\* UTILS_IsIPV4 accepts those, and only those, that are four numbers below 256 with
\* digits and dots between them and nothing behind, as long as each is written in
\* fewer than 256 digits (chcnt is a uint8_t, utils.c:44), and UTILS_StrToIP accepts
\* each of them; and what is no four numbers, UTILS_IsIPV4 refuses.  Nothing is said
\* of larger numbers, see OctetsOnly.
QuadsAccepted ==
  /\ Cuts = {} => ~IsIPV4Result
  /\ \A c \in Cuts : Octets(c) /\ (\A k \in 1..4 : Len(Digits(c, k)) < 256) =>
       /\ IsIPV4Result =
            (c[4] = Len(str) + 1 /\ \A k \in 1..4 : Digits(c, k) # <<>>)
       /\ IsIPV4Result /\ 255 <= INT_MAX => StrToIPResult.ret = 1

\* UTILS_IsIPV4 refuses a segment above 255: "Accumulate and check segment", with a
\* return 0 under the test "> 255" (utils.c:71-74).
OctetsOnly == IsIPV4Result => \A c \in Cuts : Octets(c)
=============================================================================
