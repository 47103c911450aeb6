--------------------------- MODULE MCVoltronicCrc ---------------------------
(***************************************************************************)
(* Texts for VoltronicCrcTable: every two bytes but '\r', which give       *)
(* nearly every remainder there is; every bit of a byte, halves of it, all *)
(* of it and two or three bits of it may be flipped.                       *)
(***************************************************************************)
EXTENDS VoltronicCrcTable

MCTextBytes == <<Bytes \ {EndOfInput}, Bytes \ {EndOfInput}>>

MCMasks == {1, 2, 4, 8, 16, 32, 64, 128, 15, 240, 255, 3, 9, 13}

\* Every text of one byte, and those of two that begin with one of two bytes:
\* some of them have a remainder with a reserved byte, and some a checksum that
\* a change makes the end of a frame of one byte.
MCDamagedTexts ==
  {<<byte>> : byte \in Bytes \ {EndOfInput}}
    \cup {<<first, second>> : first \in {0, 80}, second \in Bytes \ {EndOfInput}}
=============================================================================
