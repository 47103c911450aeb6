------------------------------- MODULE P18Text -------------------------------
(***************************************************************************)
(* Text of requests and replies of the protocol P18, as numbers: digits    *)
(* stand for themselves, the comma is 10, and letters and the minus sign,  *)
(* where they matter, are above it.  What the C library's conversions do   *)
(* with such text.                                                         *)
(***************************************************************************)
EXTENDS Integers, Sequences, SequencesExt

Digits == 0 .. 9
Comma  == 10
Chars  == Digits \cup {Comma}
MinusChar == 22

\* atoi.
Atoi(text) ==
  LET number[k \in 0 .. Len(text)] == IF k = 0 THEN 0 ELSE 10 * number[k - 1] + text[k]
  IN  number[Len(text)]

\* substr_copy(dst, src, len): at most len characters.
SubstrCopy(text, len) == SubSeq(text, 1, IF len < Len(text) THEN len ELSE Len(text))

\* How many decimal digits a number below 10^9 has.
Width(number) == CHOOSE w \in 1 .. 9 : number < 10^w /\ (w = 1 \/ number >= 10^(w - 1))

\* A number with leading zeros up to width, with more digits if need be.
Decimal(number, width) ==
  LET w == IF Width(number) > width THEN Width(number) ELSE width
  IN  [k \in 1 .. w |-> (number \div 10^(w - k)) % 10]

\* sprintf with "%0<width>d": a minus sign takes one of the places.
Printed(number, width) ==
  IF number < 0 THEN <<MinusChar>> \o Decimal(-number, width - 1) ELSE Decimal(number, width)
=============================================================================
