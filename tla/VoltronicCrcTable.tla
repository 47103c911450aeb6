-------------------------- MODULE VoltronicCrcTable --------------------------
(***************************************************************************)
(* calculate_voltronic_crc, one round of its loop a step, and what its     *)
(* result is for: a text is put into a frame, the line may change one byte *)
(* of it, and the receiver verifies it, as voltronic_receive_data does if  *)
(* it is made to compare checksums.                                        *)
(***************************************************************************)
EXTENDS VoltronicCrc

CONSTANTS
  TextBytes,     \* bound: TextBytes[k] are the bytes a text may have in place k
  Masks,         \* bound: what the line may do to a byte, as bits that it flips
  DamagedTexts   \* bound: the texts whose frames may be damaged

ASSUME TextAssumption ==
  /\ TextBytes \in Seq(SUBSET (Bytes \ {EndOfInput}))
  /\ Masks \subseteq Bytes \ {0}

VARIABLES
  text,    \* the bytes the loop has gone over
  crc,     \* the remainder so far
  frame,   \* <<>>, or what is on the wire
  line     \* "clean", or "damaged" if a byte of the frame was changed

vars == <<text, crc, frame, line>>

\* crc_table.
CrcTable ==
  [nibble \in 0 .. 15 |->
     <<0, 4129, 8258, 12387, 16516, 20645, 24774, 28903,
       33032, 37161, 41290, 45419, 49548, 53677, 57806, 61935>>[nibble + 1]]

\* Mutant: the bits that are shifted out are kept.
TakeNibbleWide(remainder, nibble) ==
  Xor(CrcTable[Xor(remainder \div 4096, nibble)], remainder * 16) + 65536 * (remainder \div 4096)

\* One line of the loop: the remainder takes in four more bits.
TakeNibble(remainder, nibble) ==
  Xor(CrcTable[Xor(remainder \div 4096, nibble)], (remainder * 16) % 65536)

\* Mutant: the low half of the byte first.
UpdateLowFirst(remainder, byte) ==
  TakeNibble(TakeNibble(remainder, byte % 16), byte \div 16)

\* Mutant: the low half of the byte is forgotten.
UpdateHighOnly(remainder, byte) == TakeNibble(remainder, byte \div 16)

\* One round of the loop.
Update(remainder, byte) ==
  TakeNibble(TakeNibble(remainder, byte \div 16), byte % 16)

\* The loop: the remainder of all bytes of a buffer.
Remainder(buffer) ==
  LET after[k \in 0 .. Len(buffer)] == IF k = 0 THEN 0 ELSE Update(after[k - 1], buffer[k])
  IN  after[Len(buffer)]

\* calculate_voltronic_crc; the checksum of nothing is 0.
Calculate(buffer) == IF buffer = <<>> THEN 0 ELSE Adjusted(Remainder(buffer))

-----------------------------------------------------------------------------

Init == text = <<>> /\ crc = 0 /\ frame = <<>> /\ line = "clean"

\* One round of the loop of calculate_voltronic_crc.
TakeByte ==
  /\ frame = <<>> /\ Len(text) < Len(TextBytes)
  /\ \E byte \in TextBytes[Len(text) + 1] :
       text' = Append(text, byte) /\ crc' = Update(crc, byte)
  /\ UNCHANGED <<frame, line>>

\* The text ends here: voltronic_send_data puts it on the wire.
Send ==
  /\ frame = <<>> /\ text # <<>>
  /\ frame' = Frame(text, Adjusted(crc))
  /\ UNCHANGED <<text, crc, line>>

\* The line changes a byte in front of the frame's end.
Damage ==
  /\ frame # <<>> /\ line = "clean" /\ text \in DamagedTexts
  /\ \E k \in 1 .. Len(frame) - 1, mask \in Masks : frame' = [frame EXCEPT ![k] = Xor(@, mask)]
  /\ line' = "damaged"
  /\ UNCHANGED <<text, crc>>

OnTheWire == frame # <<>> /\ UNCHANGED vars

Next == TakeByte \/ Send \/ Damage \/ OnTheWire

Spec == Init /\ [][Next]_vars

\* voltronic_receive_data with its comparison of checksums, and the demand of
\* voltronic_dev_execute for some data: what arrives is taken for a text.
Accepted ==
  LET reply     == UpToEndOfInput(frame)
      data_size == Len(reply) - 3
  IN  /\ data_size > 0
      /\ ReadCrc(SubSeq(reply, data_size + 1, data_size + 2))
           = Calculate(SubSeq(reply, 1, data_size))

-----------------------------------------------------------------------------
(* Properties. *)

\* Every variable keeps its type: the remainder fits voltronic_crc_t.
TypeOK ==
  /\ text \in Seq(Bytes) /\ crc \in CrcValues
  /\ frame \in Seq(Bytes) /\ line \in {"clean", "damaged"}

\* The remainder of x^16 * text by x^16 + x^12 + x^5 + 1, a bit at a time.
TakeBit(remainder) ==
  IF remainder < 32768 THEN remainder * 2 ELSE Xor((remainder * 2) % 65536, 4129)

TakeFour(remainder) == TakeBit(TakeBit(TakeBit(TakeBit(remainder))))

TakeBits(remainder, byte) == TakeFour(TakeFour(Xor(remainder, byte * 256)))

PolynomialRemainder(bytes) ==
  LET after[k \in 0 .. Len(bytes)] == IF k = 0 THEN 0 ELSE TakeBits(after[k - 1], bytes[k])
  IN  after[Len(bytes)]

\* calculate_voltronic_crc: two look-ups in a table of 16 for each byte are the
\* division by the polynomial, bit by bit.
RemainderIsPolynomial == frame = <<>> => crc = PolynomialRemainder(text)

\* calculate_voltronic_crc avoids '(', '\r' and '\n': the first '\r' of a frame
\* is its last byte, so that the reader of a frame reads all of it.
FrameEndsAtItsEnd ==
  frame # <<>> /\ line = "clean" =>
    /\ UpToEndOfInput(frame) = frame
    /\ \A k \in Len(text) + 1 .. Len(text) + 2 : frame[k] \notin ReservedBytes

\* voltronic_receive_data: a frame that arrives as it was sent is accepted.
SentIsAccepted == frame # <<>> /\ line = "clean" => Accepted

\* A remainder that shares its checksum with another one.
IsAdjusted(remainder) == High(remainder) \in ReservedBytes \/ Low(remainder) \in ReservedBytes

\* The same function: a frame with a changed byte in its text or checksum is
\* refused, although two remainders may share a checksum.  Always if the text is
\* a single byte; in a longer one, unless the change makes a '\r', or the
\* remainder of the text before it or after it is one that is adjusted.
DamageIsRefused ==
  line = "damaged" /\ Accepted =>
    /\ Len(text) > 1
    /\ \/ \E k \in 1 .. Len(frame) - 1 : frame[k] = EndOfInput
       \/ IsAdjusted(crc)
       \/ IsAdjusted(Remainder(SubSeq(frame, 1, Len(text))))

\* voltronic_receive_data: a frame that arrives as it was sent is accepted, and
\* one with a changed byte refused, as far as the checksum can tell.
OnlyDamageIsRefused == SentIsAccepted /\ DamageIsRefused
=============================================================================
