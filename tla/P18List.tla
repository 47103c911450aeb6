------------------------------ MODULE P18List ------------------------------
(***************************************************************************)
(* p18_parse_list: the loop that cuts the data of a reply into items at    *)
(* the commas and hands them to the callback of the message, which stores  *)
(* them in its fields.  One step is one round of the loop, one character.  *)
(***************************************************************************)
EXTENDS P18Unpack, FiniteSets

CONSTANTS
  BufSize,     \* buf_size, 64 in the code
  Replies      \* bound: pairs of a message and the data of a reply to it

ASSUME ListAssumption ==
  /\ BufSize \in Nat \ {0}
  /\ Replies \subseteq ListMessages \X Seq(Chars)

VARIABLES
  msg,         \* the message that is unpacked
  data,        \* the data of the reply
  i,           \* characters read
  buf,         \* the current item as far as it was read; char_index is its length
  item_index,
  first,       \* ghost: where in data the current item begins
  delivered,   \* ghost: the calls of the callback
  len,         \* m.len of a message with an array
  m            \* the message's fields

vars == <<msg, data, i, buf, item_index, first, delivered, len, m>>

Init ==
  /\ \E reply \in Replies : msg = reply[1] /\ data = reply[2]
  /\ i = 0 /\ buf = <<>> /\ item_index = 0
  /\ first = 1 /\ delivered = <<>>
  /\ len = 0
  /\ m = [field \in Fields(msg) |-> Zero(Kind(msg, field))]

\* *c.
Char == data[i + 1]

\* Mutant: only a comma ends an item.
EndAtComma == Char = Comma

\* The current character is its item's last one, or the comma behind it.
EndOfItem == Char = Comma \/ i = Len(data) - 1

\* Mutant: no byte is left for the 0.
RoomForAll == Len(buf) < BufSize

\* There is room for one more character and the 0 behind it.
Room == Len(buf) < BufSize - 1

\* A character of an item; what does not fit the buffer is dropped.
Collect ==
  /\ i < Len(data) /\ ~EndOfItem
  /\ buf' = IF Room THEN Append(buf, Char) ELSE buf
  /\ i' = i + 1
  /\ UNCHANGED <<msg, data, item_index, first, delivered, len, m>>

\* Mutant: the last character of the data is not looked at.
ValueWithoutLast == buf

\* The item that ends here.
Value == IF Char # Comma /\ Room THEN Append(buf, Char) ELSE buf

\* "item %d is not expected".
Surplus == ExpectedItems(msg) # -1 /\ item_index >= ExpectedItems(msg)

\* Mutant: empty items are not counted, as with strtok.
NextIndexOfNonempty == IF Value = <<>> THEN item_index ELSE item_index + 1

NextIndex == item_index + 1

\* The callback of a message with an array: it takes what fits.
AppendAmps ==
  IF len >= AmpsSize
    THEN UNCHANGED <<len, m>>
    ELSE m' = [m EXCEPT ![len] = Atoi(Value)] /\ len' = len + 1

\* serial_number_valid_length, if it is a message that has it.
ValidLength == IF msg = "parallel_rated_information" THEN m[1] ELSE 0

\* The callback of a message with fields.
StoreField ==
  /\ \E stored \in Converted(Kind(msg, item_index), Value, ValidLength) :
       m' = [m EXCEPT ![item_index] = stored]
  /\ len' = len

\* The end of an item: the callback is called, unless there are too many.
Deliver ==
  /\ i < Len(data) /\ EndOfItem
  /\ IF Surplus
       THEN UNCHANGED <<delivered, len, m>>
       ELSE /\ delivered' = Append(delivered,
                 [value |-> Value, index |-> item_index, from |-> first,
                  to |-> IF Char = Comma THEN i ELSE i + 1])
            /\ IF msg \in SelectableValues THEN AppendAmps ELSE StoreField
  /\ buf' = <<>>
  /\ i' = i + 1 /\ first' = i + 2
  /\ item_index' = NextIndex
  /\ UNCHANGED <<msg, data>>

\* The loop has ended.
Parsed == i = Len(data)

Next == Collect \/ Deliver \/ (Parsed /\ UNCHANGED vars)

Spec == Init /\ [][Next]_vars

-----------------------------------------------------------------------------
(* Properties. *)

\* Every variable keeps its type; an item and the 0 behind it fit buf.
TypeOK ==
  /\ msg \in ListMessages /\ data \in Seq(Chars)
  /\ i \in 0 .. Len(data)
  /\ buf \in Seq(Digits) /\ Len(buf) < BufSize
  /\ item_index \in Nat /\ first \in 1 .. Len(data) + 1
  /\ delivered \in Seq([value : Seq(Digits), index : Nat, from : Nat, to : Nat])
  /\ len \in 0 .. AmpsSize
  /\ DOMAIN m = Fields(msg)

\* The segment of data that a call of the callback stands for: it begins
\* behind the comma of the call before, and reaches to the next comma or to
\* the end of the data.
IsItem(call, previous_to) ==
  /\ call.from = previous_to + 2 /\ call.to >= call.from - 1 /\ call.to <= Len(data)
  /\ \A position \in call.from .. call.to : data[position] # Comma
  /\ call.to = Len(data) \/ data[call.to + 1] = Comma

\* p18_parse_list: the callback gets the items between the commas, each of
\* them, in order, under its own index, and each with its own characters, as
\* many of them as the buffer holds.
ItemsAreSplit ==
  \A k \in 1 .. Len(delivered) :
    LET call == delivered[k]
    IN  /\ call.index = k - 1
        /\ IsItem(call, IF k = 1 THEN -1 ELSE delivered[k - 1].to)
        /\ call.value = SubstrCopy(SubSeq(data, call.from, call.to), BufSize - 1)

\* Where the items of data end.
ItemEnds == {position \in DOMAIN data : data[position] = Comma \/ position = Len(data)}

\* Nothing is lost at the end of the data and nothing beyond what the message
\* expects is stored.
AllItemsDelivered ==
  Parsed =>
    Len(delivered) =
      IF ExpectedItems(msg) # -1 /\ ExpectedItems(msg) < Cardinality(ItemEnds)
        THEN ExpectedItems(msg)
        ELSE Cardinality(ItemEnds)

\* How many commas there are up to a position.
CommasUpTo(position) == Cardinality({q \in 1 .. position : data[q] = Comma})

\* The text between comma number index and the next, cut at the buffer's size,
\* counted from the commas alone.
ItemText(index) ==
  LET inside == {position \in DOMAIN data :
                   data[position] # Comma /\ CommasUpTo(position) = index}
  IN  IF inside = {}
        THEN <<>>
        ELSE SubstrCopy(SubSeq(data, Min(inside), Max(inside)), BufSize - 1)

\* The unpackers of p18.c: every field holds its own item, whatever else is
\* empty, missing or too long, and a field without an item is zero; an array
\* holds the first items that fit it.
FieldsHoldTheirItems ==
  Parsed =>
    \A field \in Fields(msg) :
      m[field] \in
        IF field < Cardinality(ItemEnds)
          THEN Converted(Kind(msg, field), ItemText(field), ValidLength)
          ELSE {Zero(Kind(msg, field))}
=============================================================================
