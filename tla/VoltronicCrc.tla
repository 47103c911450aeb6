---------------------------- MODULE VoltronicCrc ----------------------------
(***************************************************************************)
(* The checksum of libvoltronic/voltronic_crc.c as far as it is arithmetic *)
(* on bytes: how the remainder becomes a checksum, how that is written     *)
(* and read, and the frame voltronic_send_data builds around a text.       *)
(* VoltronicCrcTable computes the remainder.                               *)
(***************************************************************************)
EXTENDS Integers, Sequences

Bytes     == 0 .. 255
CrcValues == 0 .. 65535     \* voltronic_crc_t
Places    == 0 .. 15        \* of the bits of a voltronic_crc_t

\* A word, its bits, and the word with given bits, put in from the highest down.
Bit(word, k) == (word \div 2^k) % 2
Word(bits) ==
  LET high[n \in 0 .. 16] == IF n = 0 THEN 0 ELSE 2 * high[n - 1] + bits[16 - n]
  IN  high[16]

\* The operator ^ of C.
Xor(a, b) == Word([k \in Places |-> IF Bit(a, k) = Bit(b, k) THEN 0 ELSE 1])

EndOfInput    == 13              \* '\r'
ReservedBytes == {40, 13, 10}    \* '(', '\r', '\n'

High(crc) == crc \div 256
Low(crc)  == crc % 256

\* Mutant: only the high byte is looked at.
AdjustedHighOnly(crc) ==
  IF High(crc) \in ReservedBytes THEN (crc + 256) % 65536 ELSE crc

\* The end of calculate_voltronic_crc: a reserved low byte is incremented, then
\* the high byte of what that gives.
Adjusted(crc) ==
  LET low == IF Low(crc) \in ReservedBytes THEN (crc + 1) % 65536 ELSE crc
  IN  IF High(low) \in ReservedBytes THEN (low + 256) % 65536 ELSE low

\* write_voltronic_crc: two bytes, the high one first.
WriteCrc(crc) == <<High(crc), Low(crc)>>

\* read_voltronic_crc.
ReadCrc(buffer) == 256 * buffer[1] + buffer[2]

\* What voltronic_send_data puts on the wire for a text with this checksum.
Frame(text, crc) == text \o WriteCrc(crc) \o <<EndOfInput>>

\* The bytes voltronic_read_data_loop collects of a frame: up to its first '\r'.
UpToEndOfInput(bytes) ==
  LET end == CHOOSE k \in 1 .. Len(bytes) :
               /\ bytes[k] = EndOfInput
               /\ \A j \in 1 .. k - 1 : bytes[j] # EndOfInput
  IN  SubSeq(bytes, 1, end)
=============================================================================
