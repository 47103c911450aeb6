--------------------------- MODULE P18ListProofs ---------------------------
(***************************************************************************)
(* Proofs about p18_parse_list, for replies of any length and a buffer of  *)
(* any size: the loop never writes beyond its buffer, and what it hands to *)
(* the callbacks are the items of the list.                                *)
(***************************************************************************)
EXTENDS P18List, P18TextProofs, FiniteSetTheorems

-----------------------------------------------------------------------------
(* The messages. *)

\* Every message expects as many items as it has fields, or any number.
LEMMA ExpectedItemsType ==
  ASSUME NEW message \in ListMessages
  PROVE  /\ ExpectedItems(message) \in Int
         /\ message \in SelectableValues =>
              ExpectedItems(message) = -1 /\ Fields(message) = 0 .. AmpsSize - 1
         /\ message \notin SelectableValues =>
              /\ ExpectedItems(message) \in Nat
              /\ Fields(message) = 0 .. ExpectedItems(message) - 1
<1> DEFINE Kinds == {"num", "flag", "one", "none", "cpu", "mppt", "serial", "time"}
           Lists == Seq(Kinds)
<1>1. ASSUME NEW kind \in Kinds, NEW n \in Nat
      PROVE  Times(kind, n) \in Lists
  <2>1. Times(kind, n) \in [1 .. n -> Kinds]
    BY DEF Times
  <2> QED
    BY <2>1, SeqDef
<1> HIDE DEF Lists
<1>1a. ASSUME NEW s \in Lists, NEW t \in Lists
       PROVE  s \o t \in Lists
  BY DEF Lists
<1>1b. /\ <<"mppt">> \in Lists /\ <<"num">> \in Lists /\ <<"none">> \in Lists
       /\ <<"num", "num", "serial">> \in Lists
       /\ <<"one", "num", "num", "one">> \in Lists
       /\ <<"one", "num", "num", "num", "one">> \in Lists
  BY DEF Lists
<1>2. /\ CpuVersion \in Lists /\ FlagsStatuses \in Lists
      /\ RatedInformation \in Lists /\ FaultsWarnings \in Lists
      /\ Defaults \in Lists /\ ParallelRatedInformation \in Lists
      /\ TimeBucket \in Lists
  BY <1>1, <1>1a, <1>1b DEF CpuVersion, FlagsStatuses, RatedInformation, FaultsWarnings, Defaults,
              ParallelRatedInformation, TimeBucket
<1>3. GeneralStatus \in Lists /\ ParallelGeneralStatus \in Lists
  BY <1>1, <1>1a, <1>1b DEF GeneralStatus, ParallelGeneralStatus
<1>4. ASSUME NEW name \in DOMAIN Conversions
      PROVE  Conversions[name] \in Lists
  BY <1>2, <1>3 DEF Conversions
<1>5. ASSUME message \notin SelectableValues
      PROVE  Len(Conversions[message]) \in Nat
  BY <1>4, <1>5 DEF ListMessages, Lists
<1> QED
  BY <1>5 DEF ExpectedItems, Fields

-----------------------------------------------------------------------------
(* The invariant of the loop. *)

\* The characters since the last comma, as many as fit, are in the buffer.
BufferInv ==
  i < Len(data) =>
    /\ first \in 1 .. i + 1
    /\ \A position \in first .. i : data[position] # Comma
    /\ buf = CopyOf(data, first, i, BufSize - 1)

\* Until there are too many items, each one read is delivered, and the current
\* one begins behind the comma of the last.
CountInv ==
  ~Surplus =>
    /\ Len(delivered) = item_index
    /\ i < Len(data) =>
         first = IF item_index = 0 THEN 1 ELSE delivered[item_index].to + 2

IndInv == TypeOK /\ BufferInv /\ CountInv /\ ItemsAreSplit

\* The loop starts with an empty buffer.
LEMMA InitInv == Init => IndInv
<1> SUFFICES ASSUME Init PROVE IndInv
  OBVIOUS
<1> USE ListAssumption, UnpackAssumption
<1>1. msg \in ListMessages /\ data \in Seq(Chars) /\ BufSize - 1 \in Nat
  BY DEF Init
<1>2. TypeOK
  BY <1>1 DEF Init, TypeOK
<1>3. CopyOf(data, 1, 0, BufSize - 1) = <<>>
  BY <1>1, CopyOfNothing
<1>4. BufferInv
  BY <1>3, <1>1 DEF Init, BufferInv
<1>5. CountInv /\ ItemsAreSplit
  BY DEF Init, CountInv, ItemsAreSplit
<1> QED
  BY <1>2, <1>4, <1>5 DEF IndInv

\* A character that does not end its item goes to the buffer or is dropped.
LEMMA CollectInv == IndInv /\ Collect => IndInv'
<1> SUFFICES ASSUME IndInv, Collect PROVE IndInv'
  OBVIOUS
<1> USE ListAssumption, UnpackAssumption
<1>1. /\ TypeOK /\ BufferInv /\ CountInv /\ ItemsAreSplit
      /\ BufSize - 1 \in Nat
  BY DEF IndInv
<1>2. /\ Char \in Digits /\ i + 1 < Len(data)
      /\ i' = i + 1 /\ data' = data /\ first' = first
      /\ i \in Nat /\ data \in Seq(Chars) /\ Len(data) \in Nat /\ i < Len(data)
  <2>1. /\ i \in Nat /\ data \in Seq(Chars) /\ Len(data) \in Nat /\ i < Len(data)
        /\ i' = i + 1 /\ data' = data /\ first' = first
    BY <1>1 DEF Collect, TypeOK
  <2>2. Char # Comma /\ i # Len(data) - 1
    BY <1>1 DEF Collect, EndOfItem
  <2>3. Char \in Digits
    BY <2>1, <2>2 DEF Char, Chars
  <2> QED
    BY <2>1, <2>2, <2>3
<1>3. TypeOK'
  BY <1>1, <1>2 DEF Collect, Room, TypeOK
<1>4. buf' = CopyOf(data, first, i + 1, BufSize - 1)
  <2>1. buf = CopyOf(data, first, i, BufSize - 1) /\ first \in 1 .. i + 1
    BY <1>1, <1>2 DEF BufferInv
  <2>2. CopyOf(data, first, i + 1, BufSize - 1) =
          IF Len(buf) < BufSize - 1 THEN Append(buf, data[i + 1]) ELSE buf
    BY <2>1, <1>1, <1>2, CopyGrows
  <2> QED
    BY <2>2 DEF Collect, Room, Char
<1>5. \A position \in first .. i + 1 : data[position] # Comma
  BY <1>1, <1>2, SMTT(40) DEF BufferInv, TypeOK, Char, Digits, Comma
<1>6. BufferInv'
  BY <1>1, <1>2, <1>4, <1>5 DEF BufferInv
<1>7. CountInv'
  BY <1>1, <1>2 DEF CountInv, Collect, Surplus
<1>8. ItemsAreSplit'
  BY <1>1 DEF ItemsAreSplit, IsItem, Collect
<1> QED
  BY <1>3, <1>6, <1>7, <1>8 DEF IndInv

\* What the callbacks store: the fields of a message stay its fields, and an
\* array takes no more than fits.
LEMMA StoreInv ==
  ASSUME TypeOK, Surplus \/ AppendAmps \/ StoreField,
         Surplus => UNCHANGED <<len, m>>
  PROVE  len' \in 0 .. AmpsSize /\ DOMAIN m' = DOMAIN m
  BY UnpackAssumption DEF TypeOK, AppendAmps, StoreField

\* The item that ends is the part of the data since the last comma.
LEMMA ValueOfItem ==
  ASSUME IndInv, Deliver,
         NEW to \in {IF Char = Comma THEN i ELSE i + 1}
  PROVE  /\ Value = CopyOf(data, first, to, BufSize - 1)
         /\ Value \in Seq(Digits)
         /\ to \in Nat /\ to >= first - 1 /\ to <= Len(data)
         /\ \A position \in first .. to : data[position] # Comma
         /\ to = Len(data) \/ data[to + 1] = Comma
<1> USE ListAssumption
<1>1. /\ TypeOK /\ BufferInv /\ BufSize - 1 \in Nat /\ i < Len(data)
      /\ Char = Comma \/ i = Len(data) - 1
  BY DEF IndInv, Deliver, EndOfItem
<1>2. /\ buf = CopyOf(data, first, i, BufSize - 1) /\ first \in 1 .. i + 1
      /\ \A position \in first .. i : data[position] # Comma
      /\ data \in Seq(Chars) /\ buf \in Seq(Digits)
      /\ i \in Nat /\ Len(data) \in Nat /\ i + 1 <= Len(data)
  BY <1>1 DEF BufferInv, TypeOK
<1>3. CASE Char = Comma
  <2>1. Value = buf /\ to = i
    BY <1>3 DEF Value
  <2> QED
    BY <1>1, <1>2, <1>3, <2>1 DEF Char
<1>4. CASE Char # Comma
  <2>1. to = i + 1 /\ to = Len(data) /\ Char \in Digits
    BY <1>1, <1>2, <1>4 DEF Char, Chars, Digits, Comma
  <2>2. CopyOf(data, first, i + 1, BufSize - 1) =
          IF Len(buf) < BufSize - 1 THEN Append(buf, data[i + 1]) ELSE buf
    BY <1>1, <1>2, CopyGrows
  <2>3. Value = CopyOf(data, first, to, BufSize - 1)
    BY <2>1, <2>2, <1>4 DEF Value, Room, Char
  <2>4. Value \in Seq(Digits)
    BY <1>2, <2>1 DEF Value
  <2>5. \A position \in first .. to : data[position] # Comma
    BY <1>2, <1>4, <2>1 DEF Char
  <2> QED
    BY <1>2, <2>1, <2>3, <2>4, <2>5
<1> QED
  BY <1>3, <1>4

\* The end of an item: it is delivered, or there are too many already.
LEMMA DeliverInv == IndInv /\ Deliver => IndInv'
<1> SUFFICES ASSUME IndInv, Deliver PROVE IndInv'
  OBVIOUS
<1> USE ListAssumption, UnpackAssumption
<1> DEFINE to == IF Char = Comma THEN i ELSE i + 1
           call == [value |-> Value, index |-> item_index, from |-> first, to |-> to]
           Calls == [value : Seq(Digits), index : Nat, from : Nat, to : Nat]
<1>1. /\ TypeOK /\ BufferInv /\ CountInv /\ ItemsAreSplit
      /\ BufSize - 1 \in Nat /\ i < Len(data)
      /\ Char = Comma \/ i = Len(data) - 1
      /\ i' = i + 1 /\ first' = i + 2 /\ buf' = <<>> /\ item_index' = item_index + 1
      /\ data' = data /\ msg' = msg
  BY DEF IndInv, Deliver, EndOfItem, NextIndex
<1>2. /\ Value = CopyOf(data, first, to, BufSize - 1)
      /\ Value \in Seq(Digits)
      /\ to \in Nat /\ to >= first - 1 /\ to <= Len(data)
      /\ \A position \in first .. to : data[position] # Comma
      /\ to = Len(data) \/ data[to + 1] = Comma
  BY ValueOfItem
<1>3. /\ ~Surplus => delivered' = Append(delivered, call)
      /\ Surplus => delivered' = delivered
  BY DEF Deliver
<1>4. call \in Calls /\ delivered \in Seq(Calls) /\ item_index \in Nat
  BY <1>1, <1>2 DEF TypeOK
<1> HIDE DEF call, Calls
<1>5. /\ delivered' \in Seq(Calls)
      /\ ~Surplus => /\ Len(delivered') = item_index + 1
                     /\ delivered'[item_index + 1] = call
                     /\ \A k \in 1 .. item_index : delivered'[k] = delivered[k]
  <2>1. ~Surplus => Len(delivered) = item_index
    BY <1>1 DEF CountInv
  <2> QED
    BY <1>3, <1>4, <2>1, AppendProperties
<1>6. TypeOK'
  <2>1. len' \in 0 .. AmpsSize /\ DOMAIN m' = DOMAIN m
    BY <1>1, StoreInv DEF Deliver
  <2> QED
    BY <1>1, <1>5, <2>1 DEF TypeOK, Calls
<1>7. BufferInv'
  <2>1. CopyOf(data, i + 2, i + 1, BufSize - 1) = <<>>
    <3>1. i + 1 \in 0 .. Len(data) /\ (i + 1) + 1 = i + 2
      BY <1>1 DEF TypeOK
    <3> QED
      BY <1>1, <3>1, CopyOfNothing DEF TypeOK
  <2> QED
    BY <1>1, <2>1 DEF BufferInv, TypeOK
<1>8. Surplus => Surplus'
  BY <1>1, ExpectedItemsType DEF Surplus, TypeOK
<1>9. CountInv'
  <2>1. i + 1 < Len(data) => call.to + 2 = i + 2
    BY <1>1 DEF TypeOK, call
  <2>2. ASSUME ~Surplus
        PROVE  /\ Len(delivered') = item_index'
               /\ i' < Len(data') => first' = delivered'[item_index'].to + 2
               /\ item_index' # 0
    BY <1>1, <1>4, <1>5, <2>1, <2>2
  <2> QED
    BY <1>8, <2>2 DEF CountInv
<1>10. ItemsAreSplit'
  <2>1. CASE Surplus
    BY <1>1, <1>3, <2>1 DEF ItemsAreSplit, IsItem
  <2>2. CASE ~Surplus
    <3>1. /\ Len(delivered) = item_index
          /\ first = IF item_index = 0 THEN 1 ELSE delivered[item_index].to + 2
      BY <1>1, <2>2 DEF CountInv
    <3>2. ASSUME NEW k \in 1 .. item_index
          PROVE  /\ delivered'[k] = delivered[k]
                 /\ k # 1 => delivered'[k - 1] = delivered[k - 1]
      <4>1. k # 1 => k - 1 \in 1 .. item_index
        BY <1>1 DEF TypeOK
      <4> QED
        BY <1>5, <2>2, <4>1
    <3>3. /\ call.index = item_index
          /\ call.value = CopyOf(data, call.from, call.to, BufSize - 1)
          /\ IsItem(call, IF item_index = 0 THEN -1 ELSE delivered[item_index].to)
      BY <1>1, <1>2, <3>1 DEF call, IsItem, TypeOK
    <3>4. SUFFICES ASSUME NEW k \in 1 .. item_index + 1
                   PROVE  LET c == delivered'[k]
                          IN  /\ c.index = k - 1
                              /\ IsItem(c, IF k = 1 THEN -1 ELSE delivered'[k - 1].to)
                              /\ c.value = CopyOf(data, c.from, c.to, BufSize - 1)
      BY <1>1, <1>5, <2>2 DEF ItemsAreSplit, IsItem, CopyOf
    <3>5. CASE k \in 1 .. item_index
      BY <1>1, <3>1, <3>2, <3>5 DEF ItemsAreSplit, CopyOf
    <3>6. CASE k = item_index + 1
      <4>1. item_index # 0 => delivered'[item_index] = delivered[item_index]
        BY <1>1, <3>2 DEF TypeOK
      <4>2. /\ k - 1 = item_index /\ delivered'[k] = call
            /\ k = 1 <=> item_index = 0
        BY <1>4, <1>5, <2>2, <3>6
      <4>3. (IF k = 1 THEN -1 ELSE delivered'[k - 1].to) =
              (IF item_index = 0 THEN -1 ELSE delivered[item_index].to)
        BY <4>1, <4>2
      <4> QED
        BY <3>3, <4>2, <4>3
    <3> QED
      BY <1>1, <3>5, <3>6 DEF TypeOK
  <2> QED
    BY <2>1, <2>2
<1> QED
  BY <1>6, <1>7, <1>9, <1>10 DEF IndInv

\* The invariant holds in every state of the loop.
LEMMA Invariance == Spec => []IndInv
<1>1. IndInv /\ UNCHANGED vars => IndInv'
  BY DEF vars, IndInv, TypeOK, BufferInv, CountInv, Surplus, ItemsAreSplit, IsItem
<1>2. IndInv /\ [Next]_vars => IndInv'
  BY <1>1, CollectInv, DeliverInv DEF Next
<1> QED
  BY <1>2, InitInv, PTL DEF Spec

-----------------------------------------------------------------------------
(* What it shows. *)

\* p18_parse_list keeps every item and the 0 behind it inside its buffer, and
\* an array of currents never takes more than its size, for any reply.
THEOREM ListTypeCorrect == Spec => []TypeOK
<1>1. IndInv => TypeOK
  BY DEF IndInv
<1> QED
  BY <1>1, Invariance, PTL

\* p18_parse_list hands the callbacks the items between the commas, each under
\* its index and with its own characters, for any reply and any buffer.
THEOREM SplitItems == Spec => []ItemsAreSplit
<1>1. IndInv => ItemsAreSplit
  BY DEF IndInv
<1> QED
  BY <1>1, Invariance, PTL

-----------------------------------------------------------------------------
(* Where the items are and what becomes of them. *)

Ended == {position \in ItemEnds : position <= i}

\* The items read are as many as ended so far, and the current one stands
\* behind a comma, of which there are as many.
PlaceInv ==
  /\ item_index = Cardinality(Ended)
  /\ i < Len(data) =>
       /\ CommasUpTo(i) = item_index
       /\ first = 1 \/ data[first - 1] = Comma

\* Each item was delivered until there were too many.
DeliveredInv ==
  Len(delivered) =
    IF ExpectedItems(msg) # -1 /\ ExpectedItems(msg) < item_index
      THEN ExpectedItems(msg)
      ELSE item_index

\* The fields of the items read are stored, the others as they were.
FieldsInv ==
  /\ msg \in SelectableValues => len = IF item_index < AmpsSize THEN item_index ELSE AmpsSize
  /\ \A field \in Fields(msg) :
       m[field] \in
         IF field < item_index
           THEN Converted(Kind(msg, field), ItemText(field), ValidLength)
           ELSE {Zero(Kind(msg, field))}

StoreInvariant == IndInv /\ PlaceInv /\ DeliveredInv /\ FieldsInv

\* Commas are counted, and an item's end is counted when it is passed.
LEMMA CommaCount ==
  ASSUME NEW n \in Nat
  PROVE  /\ IsFiniteSet({q \in 1 .. n : data[q] = Comma}) /\ CommasUpTo(n) \in Nat
         /\ CommasUpTo(n + 1) = IF data[n + 1] = Comma THEN CommasUpTo(n) + 1 ELSE CommasUpTo(n)
<1> DEFINE Commas(k) == {q \in 1 .. k : data[q] = Comma}
<1>1. IsFiniteSet(Commas(n))
  <2>1. IsFiniteSet(1 .. n)
    BY FS_Interval
  <2>2. Commas(n) \in SUBSET (1 .. n)
    OBVIOUS
  <2> QED BY <2>1, <2>2, FS_Subset
<1>2. Cardinality(Commas(n)) \in Nat
  BY <1>1, FS_CardinalityType
<1>3. Commas(n + 1) = IF data[n + 1] = Comma THEN Commas(n) \cup {n + 1} ELSE Commas(n)
  OBVIOUS
<1>4. n + 1 \notin Commas(n)
  OBVIOUS
<1>5. CommasUpTo(n) = Cardinality(Commas(n)) /\ CommasUpTo(n + 1) = Cardinality(Commas(n + 1))
  BY DEF CommasUpTo
<1>6. IsFiniteSet(Commas(n)) <=> IsFiniteSet({q \in 1 .. n : data[q] = Comma})
  OBVIOUS
<1> HIDE DEF Commas
<1>7. Cardinality(Commas(n) \cup {n + 1}) = Cardinality(Commas(n)) + 1
  BY <1>1, <1>4, FS_AddElement
<1> QED BY <1>1, <1>2, <1>3, <1>5, <1>6, <1>7

\* No comma, no difference; a comma, a difference.
LEMMA CommasBetween ==
  ASSUME NEW a \in Nat, NEW b \in Nat, a <= b
  PROVE  CommasUpTo(a) = CommasUpTo(b) <=> \A q \in a + 1 .. b : data[q] # Comma
<1> DEFINE A == {q \in 1 .. a : data[q] = Comma}
           B == {q \in 1 .. b : data[q] = Comma}
<1>1. IsFiniteSet(A) /\ IsFiniteSet(B)
  BY CommaCount
<1>2. A \in SUBSET B /\ (A = B <=> \A q \in a + 1 .. b : data[q] # Comma)
  OBVIOUS
<1>3. CommasUpTo(a) = Cardinality(A) /\ CommasUpTo(b) = Cardinality(B)
  BY DEF CommasUpTo
<1> HIDE DEF A, B
<1> QED BY <1>1, <1>2, <1>3, FS_Subset

\* The ends of an interval.
LEMMA EndsOfInterval ==
  ASSUME NEW a \in Nat, NEW b \in Nat, a <= b
  PROVE  Min(a .. b) = a /\ Max(a .. b) = b
<1>1. a \in a .. b /\ \A y \in a .. b : a <= y
  OBVIOUS
<1>2. \A x \in a .. b : (\A y \in a .. b : x <= y) => x = a
  OBVIOUS
<1>3. b \in a .. b /\ \A y \in a .. b : b >= y
  OBVIOUS
<1>4. \A x \in a .. b : (\A y \in a .. b : x >= y) => x = b
  OBVIOUS
<1> QED BY <1>1, <1>2, <1>3, <1>4 DEF Min, Max

\* An item is what its number of commas says it is.
LEMMA TextOfItem ==
  ASSUME ListAssumption, data \in Seq(Chars),
         NEW from \in Nat, NEW to \in Nat, 0 < from, from <= to + 1, to <= Len(data),
         from = 1 \/ data[from - 1] = Comma,
         \A position \in from .. to : data[position] # Comma,
         to = Len(data) \/ data[to + 1] = Comma
  PROVE  ItemText(CommasUpTo(to)) = CopyOf(data, from, to, BufSize - 1)
<1> DEFINE inside == {position \in DOMAIN data :
                        data[position] # Comma /\ CommasUpTo(position) = CommasUpTo(to)}
<1>1. DOMAIN data = 1 .. Len(data) /\ Len(data) \in Nat /\ BufSize - 1 \in Nat
  BY DEF ListAssumption
<1> DEFINE n == Len(data)
<1>1a. n \in Nat /\ to <= n /\ DOMAIN data = 1 .. n
  BY <1>1
<1> HIDE DEF n
<1>2. inside = from .. to
  <2>1. ASSUME NEW p \in from .. to PROVE p \in inside
    <3>0. p \in Nat /\ from <= p /\ p <= to
      OBVIOUS
    <3>1. p \in DOMAIN data /\ p \in Nat /\ p <= to
      BY ONLY <1>1a, <3>0, 0 < from, from \in Nat, to \in Nat
    <3>2. \A q \in p + 1 .. to : data[q] # Comma
      OBVIOUS
    <3>3. CommasUpTo(p) = CommasUpTo(to)
      BY <3>1, <3>2, CommasBetween
    <3> QED BY <3>1, <3>3
  <2>2. ASSUME NEW p \in inside PROVE p \in from .. to
    <3>1. p \in 1 .. Len(data) /\ data[p] # Comma /\ CommasUpTo(p) = CommasUpTo(to)
      BY <1>1
    <3>2. CASE p < from
      <4>1. from - 1 \in p + 1 .. to /\ data[from - 1] = Comma
        BY <3>1, <3>2
      <4>2. p \in Nat /\ p <= to
        BY <3>1, <3>2
      <4> QED BY <3>1, <4>1, <4>2, CommasBetween
    <3>3. CASE p > to
      <4>1. to + 1 \in to + 1 .. p /\ data[to + 1] = Comma
        BY <3>1, <3>3
      <4>2. p \in Nat /\ to <= p
        BY <3>1, <3>3
      <4> QED BY <3>1, <4>1, <4>2, CommasBetween
    <3> QED BY <3>1, <3>2, <3>3
  <2> QED BY <2>1, <2>2
<1>3. ItemText(CommasUpTo(to)) =
        IF inside = {} THEN <<>>
        ELSE SubstrCopy(SubSeq(data, Min(inside), Max(inside)), BufSize - 1)
  BY DEF ItemText
<1> HIDE DEF inside
<1>4. CASE from <= to
  <2>1. Min(inside) = from /\ Max(inside) = to /\ inside # {}
    BY <1>2, <1>4, EndsOfInterval, SMTT(40)
  <2> QED BY <1>3, <2>1 DEF CopyOf
<1>5. CASE from = to + 1
  <2>1. CopyOf(data, to + 1, to, BufSize - 1) = <<>>
    <3>1. to \in 0 .. n
      BY <1>1a
    <3> QED BY <1>1, <3>1, CopyOfNothing DEF n
  <2>2. inside = {}
    BY <1>2, <1>5
  <2> QED BY <1>3, <1>5, <2>1, <2>2
<1> QED BY <1>4, <1>5

\* What does not move with the loop.
LEMMA SameText ==
  ASSUME data' = data
  PROVE  /\ ItemEnds' = ItemEnds
         /\ \A n : CommasUpTo(n)' = CommasUpTo(n) /\ ItemText(n)' = ItemText(n)
  BY DEF ItemEnds, CommasUpTo, ItemText

\* The ends of items are counted.
LEMMA EndedFinite ==
  ASSUME IndInv
  PROVE  IsFiniteSet(ItemEnds) /\ IsFiniteSet(Ended) /\ i + 1 \notin Ended
<1>1. DOMAIN data = 1 .. Len(data) /\ Len(data) \in Nat /\ i \in Nat
  BY DEF IndInv, TypeOK
<1>2. IsFiniteSet(DOMAIN data)
  BY <1>1, FS_Interval
<1>3. ItemEnds \in SUBSET DOMAIN data /\ Ended \in SUBSET DOMAIN data
  BY DEF ItemEnds, Ended
<1>4. i + 1 \notin Ended
  BY <1>1 DEF Ended
<1> QED BY <1>2, <1>3, <1>4, FS_Subset

\* A step over one character: it is the end of an item, or nothing ends.
LEMMA EndedStep ==
  ASSUME IndInv, i < Len(data), i' = i + 1, data' = data
  PROVE  Ended' = IF EndOfItem THEN Ended \cup {i + 1} ELSE Ended
<1>1. DOMAIN data = 1 .. Len(data) /\ Len(data) \in Nat /\ i \in Nat
  BY DEF IndInv, TypeOK
<1> DEFINE n == Len(data)
<1>2. n \in Nat /\ i + 1 \in 1 .. n /\ DOMAIN data = 1 .. n /\ i < n
  BY <1>1
<1>3. EndOfItem <=> data[i + 1] = Comma \/ i + 1 = n
  BY <1>1 DEF EndOfItem, Char
<1>4. ItemEnds = {position \in 1 .. n : data[position] = Comma \/ position = n}
  BY <1>2 DEF ItemEnds
<1> HIDE DEF n
<1>5. EndOfItem <=> i + 1 \in ItemEnds
  BY <1>2, <1>3, <1>4
<1>6. Ended' = {position \in ItemEnds : position <= i + 1}
  BY SameText DEF Ended
<1>7. ItemEnds \subseteq Nat
  BY <1>2, <1>4
<1>8. i \in Nat
  BY <1>1
<1>9. \A position \in ItemEnds : position <= i + 1 <=> position <= i \/ position = i + 1
  BY <1>7, <1>8
<1>10. Ended' = {position \in ItemEnds : position <= i} \cup
                 {position \in ItemEnds : position = i + 1}
  BY <1>6, <1>9
<1> QED BY <1>5, <1>10 DEF Ended

\* At first no item was read and every field is zero.
LEMMA InitStore == Init => StoreInvariant
<1> SUFFICES ASSUME Init PROVE StoreInvariant
  OBVIOUS
<1> USE ListAssumption, UnpackAssumption
<1>1. IndInv /\ i = 0 /\ item_index = 0 /\ first = 1 /\ len = 0 /\ msg \in ListMessages
  BY InitInv DEF Init
<1>2. PlaceInv
  <2>1. Ended = {}
    BY <1>1 DEF Ended, ItemEnds, IndInv, TypeOK
  <2>2. {q \in 1 .. i : data[q] = Comma} = {}
    BY <1>1
  <2> QED BY <1>1, <2>1, <2>2, FS_EmptySet DEF PlaceInv, CommasUpTo
<1>3. DeliveredInv
  <2>1. Len(delivered) = 0
    BY DEF Init
  <2> QED BY <1>1, <2>1, ExpectedItemsType DEF DeliveredInv
<1>4. FieldsInv
  <2>1. \A field \in Fields(msg) : field \in Nat
    BY <1>1, ExpectedItemsType
  <2> QED BY <1>1, <2>1 DEF FieldsInv, Init
<1> QED BY <1>1, <1>2, <1>3, <1>4 DEF StoreInvariant

\* A character within an item changes nothing of this.
LEMMA CollectStore == StoreInvariant /\ Collect => StoreInvariant'
<1> SUFFICES ASSUME StoreInvariant, Collect PROVE StoreInvariant'
  OBVIOUS
<1>1. IndInv /\ IndInv' /\ PlaceInv /\ DeliveredInv /\ FieldsInv
  BY CollectInv DEF StoreInvariant
<1>2. /\ i < Len(data) /\ ~EndOfItem /\ i' = i + 1 /\ data' = data /\ first' = first
      /\ UNCHANGED <<msg, item_index, delivered, len, m>>
  BY DEF Collect
<1>3. i \in Nat /\ Char # Comma
  BY <1>1, <1>2 DEF IndInv, TypeOK, EndOfItem
<1>4. PlaceInv'
  <2>1. Ended' = Ended
    BY <1>1, <1>2, EndedStep
  <2>2. CommasUpTo(i + 1) = CommasUpTo(i)
    BY <1>3, CommaCount DEF Char
  <2> QED BY <1>1, <1>2, <2>1, <2>2, SameText DEF PlaceInv
<1>5. DeliveredInv' /\ FieldsInv'
  BY <1>1, <1>2, SameText DEF DeliveredInv, FieldsInv, ValidLength
<1> QED BY <1>1, <1>4, <1>5 DEF StoreInvariant

\* The length that a parallel machine declares matters to one field only, which
\* is stored after it.
LEMMA LengthMatters ==
  ASSUME NEW field, NEW value, NEW before, NEW after,
         before = after \/ Kind(msg, field) # "serial"
  PROVE  Converted(Kind(msg, field), value, before) = Converted(Kind(msg, field), value, after)
  BY DEF Converted

LEMMA LengthIsKept ==
  ASSUME msg \in ListMessages, msg' = msg, NEW n \in Nat, NEW stored,
         m' = [m EXCEPT ![n] = stored], NEW field \in 0 .. n
  PROVE  ValidLength' = ValidLength \/ Kind(msg, field) # "serial"
<1>1. CASE msg # "parallel_rated_information"
  BY <1>1 DEF ValidLength
<1>2. CASE msg = "parallel_rated_information" /\ n # 1
  <2>1. m'[1] = m[1]
    BY <1>2
  <2> QED BY <1>2, <2>1 DEF ValidLength
<1>3. CASE msg = "parallel_rated_information" /\ n = 1
  <2>1. Conversions[msg] = <<"num", "num", "serial">> \o Times("num", 4)
    BY <1>3 DEF Conversions, ParallelRatedInformation
  <2>2. Conversions[msg][1] = "num" /\ Conversions[msg][2] = "num"
    BY <2>1 DEF Times
  <2>3. msg \notin SelectableValues /\ field + 1 \in {1, 2}
    BY <1>3 DEF SelectableValues
  <2> QED BY <2>2, <2>3 DEF Kind
<1> QED BY <1>1, <1>2, <1>3

\* The item that ends is the one of its number.
LEMMA ValueIsText ==
  ASSUME IndInv, PlaceInv, Deliver
  PROVE  Value = ItemText(item_index)
<1> USE ListAssumption
<1> DEFINE to == IF Char = Comma THEN i ELSE i + 1
<1>1. /\ Value = CopyOf(data, first, to, BufSize - 1)
      /\ to \in Nat /\ to >= first - 1 /\ to <= Len(data)
      /\ \A position \in first .. to : data[position] # Comma
      /\ to = Len(data) \/ data[to + 1] = Comma
  BY ValueOfItem
<1>2. /\ i < Len(data) /\ i \in Nat /\ data \in Seq(Chars)
      /\ first \in 1 .. i + 1 /\ CommasUpTo(i) = item_index
      /\ first = 1 \/ data[first - 1] = Comma
  BY DEF Deliver, IndInv, TypeOK, BufferInv, PlaceInv
<1>3. CommasUpTo(to) = item_index
  BY <1>2, CommaCount DEF Char
<1> HIDE DEF to
<1>4. first \in Nat /\ 0 < first /\ first <= to + 1
  BY <1>1, <1>2
<1>5. ItemText(CommasUpTo(to)) = CopyOf(data, first, to, BufSize - 1)
  BY <1>1, <1>2, <1>4, TextOfItem
<1> QED BY <1>1, <1>3, <1>5

\* What a callback stores is the item of the next field, and no other changes.
LEMMA DeliverFields ==
  ASSUME StoreInvariant, Deliver
  PROVE  FieldsInv'
<1> USE ListAssumption, UnpackAssumption
<1>1. /\ IndInv /\ FieldsInv /\ msg \in ListMessages /\ item_index \in Nat
      /\ len \in 0 .. AmpsSize /\ DOMAIN m = Fields(msg) /\ AmpsSize \in Nat
  BY DEF StoreInvariant, IndInv, TypeOK
<1>2. Value = ItemText(item_index)
  BY ValueIsText DEF StoreInvariant
<1>3. /\ msg' = msg /\ data' = data /\ item_index' = item_index + 1
      /\ \A n : ItemText(n)' = ItemText(n)
  BY SameText DEF Deliver, NextIndex
<1>4. \A field \in Fields(msg) : field \in Nat
  BY <1>1, ExpectedItemsType
<1>5. CASE Surplus
  <2>1. UNCHANGED <<len, m>>
    BY <1>5 DEF Deliver
  <2>2. msg \notin SelectableValues /\ \A field \in Fields(msg) : field < item_index
    BY <1>1, <1>5, ExpectedItemsType DEF Surplus
  <2>3. ValidLength' = ValidLength
    BY <1>3, <2>1 DEF ValidLength
  <2>4. \A field \in Fields(msg) : field < item_index + 1
    BY <1>1, <1>4, <2>2
  <2> QED BY <1>1, <1>3, <2>1, <2>2, <2>3, <2>4 DEF FieldsInv
<1>6. CASE ~Surplus /\ msg \in SelectableValues /\ len >= AmpsSize
  <2>1. UNCHANGED <<len, m>>
    BY <1>6 DEF Deliver, AppendAmps
  <2>2. ValidLength' = ValidLength
    BY <1>3, <2>1 DEF ValidLength
  <2>3. len = AmpsSize /\ item_index >= AmpsSize
    BY <1>1, <1>6 DEF FieldsInv
  <2>4. \A field \in Fields(msg) : field < item_index /\ field < item_index + 1
    BY <1>1, <1>6, <2>3, ExpectedItemsType
  <2>5. len' = IF item_index' < AmpsSize THEN item_index' ELSE AmpsSize
    BY <1>1, <1>3, <2>1, <2>3
  <2> QED BY <1>1, <1>3, <2>1, <2>2, <2>4, <2>5 DEF FieldsInv
<1>7. CASE ~Surplus /\ (msg \in SelectableValues => len < AmpsSize)
  <2>1. PICK stored \in Converted(Kind(msg, item_index), Value, ValidLength) :
          m' = [m EXCEPT ![item_index] = stored]
    <3>1. CASE msg \in SelectableValues
      <4>1. len = item_index
        BY <1>1, <1>7, <3>1 DEF FieldsInv
      <4>2. m' = [m EXCEPT ![item_index] = Atoi(Value)]
        BY <1>1, <1>7, <3>1, <4>1 DEF Deliver, AppendAmps
      <4>3. Converted(Kind(msg, item_index), Value, ValidLength) = {Atoi(Value)}
        BY <3>1 DEF Converted, Kind
      <4> QED BY <4>2, <4>3
    <3>2. CASE msg \notin SelectableValues
      BY <1>7, <3>2 DEF Deliver, StoreField
    <3> QED BY <3>1, <3>2
  <2>2. msg \in SelectableValues => len' = IF item_index' < AmpsSize THEN item_index' ELSE AmpsSize
    <3> SUFFICES ASSUME msg \in SelectableValues
                 PROVE  len' = IF item_index' < AmpsSize THEN item_index' ELSE AmpsSize
      OBVIOUS
    <3>1. len = item_index /\ item_index < AmpsSize
      BY <1>1, <1>7 DEF FieldsInv
    <3>2. len' = len + 1
      BY <1>1, <1>7 DEF Deliver, AppendAmps
    <3> QED BY <1>1, <1>3, <3>1, <3>2
  <2>3. ASSUME NEW field \in Fields(msg), field < item_index + 1
        PROVE  m'[field] \in Converted(Kind(msg, field), ItemText(field), ValidLength')
    <3>1. field \in 0 .. item_index
      BY <1>1, <1>4, <2>3
    <3>2. m'[field] \in Converted(Kind(msg, field), ItemText(field), ValidLength)
      <4>1. CASE field = item_index
        BY <1>1, <1>2, <2>1, <4>1
      <4>2. CASE field # item_index
        <5>1. field < item_index /\ m'[field] = m[field]
          BY <1>1, <2>1, <3>1, <4>2
        <5> QED BY <1>1, <5>1 DEF FieldsInv
      <4> QED BY <4>1, <4>2
    <3>3. ValidLength' = ValidLength \/ Kind(msg, field) # "serial"
      BY <1>1, <1>3, <2>1, <3>1, LengthIsKept
    <3> QED BY <3>2, <3>3, LengthMatters
  <2>4. ASSUME NEW field \in Fields(msg), ~(field < item_index + 1)
        PROVE  m'[field] \in {Zero(Kind(msg, field))}
    <3>1. field # item_index /\ ~(field < item_index)
      BY <1>1, <1>4, <2>4
    <3>2. m'[field] = m[field]
      BY <1>1, <2>1, <3>1
    <3> QED BY <1>1, <3>1, <3>2 DEF FieldsInv
  <2>5. Fields(msg)' = Fields(msg) /\ \A field : Kind(msg, field)' = Kind(msg, field)
    BY <1>3
  <2> QED BY <1>3, <2>2, <2>3, <2>4, <2>5 DEF FieldsInv
<1> QED BY <1>1, <1>5, <1>6, <1>7

\* The end of an item.
LEMMA DeliverStore == StoreInvariant /\ Deliver => StoreInvariant'
<1> SUFFICES ASSUME StoreInvariant, Deliver PROVE StoreInvariant'
  OBVIOUS
<1>1. IndInv /\ IndInv' /\ PlaceInv /\ DeliveredInv /\ FieldsInv
  BY DeliverInv DEF StoreInvariant
<1>2. /\ i < Len(data) /\ EndOfItem /\ i' = i + 1 /\ data' = data /\ first' = i + 2
      /\ msg' = msg /\ item_index' = item_index + 1
  BY DEF Deliver, NextIndex
<1>3. i \in Nat /\ item_index \in Nat /\ msg \in ListMessages
  BY <1>1 DEF IndInv, TypeOK
<1>4. PlaceInv'
  <2>1. Cardinality(Ended') = Cardinality(Ended) + 1
    BY <1>1, <1>2, EndedStep, EndedFinite, FS_AddElement
  <2>2. ASSUME i + 1 < Len(data)
        PROVE  CommasUpTo(i + 1) = item_index + 1 /\ data[i + 1] = Comma
    <3>1. Char = Comma
      BY <1>2, <1>3, <2>2 DEF EndOfItem
    <3> QED BY <1>1, <1>2, <1>3, <3>1, CommaCount DEF Char, PlaceInv
  <2>3. first' - 1 = i + 1
    BY <1>2, <1>3
  <2> QED BY <1>1, <1>2, <2>1, <2>2, <2>3, SameText DEF PlaceInv
<1>5. DeliveredInv'
  <2>1. CASE Surplus
    BY <1>1, <1>2, <1>3, <2>1, ExpectedItemsType DEF Deliver, DeliveredInv, Surplus
  <2>2. CASE ~Surplus
    <3>1. Len(delivered') = item_index + 1
      <4>1. delivered' \in {Append(delivered, call) :
                 call \in [value : Seq(Digits), index : Nat, from : Nat, to : Nat]}
        <5>1. Value \in Seq(Digits) /\ first \in Nat
          BY <1>1, ValueOfItem, SMTT(40) DEF IndInv, TypeOK
        <5> QED BY <1>3, <2>2, <5>1 DEF Deliver
      <4>2. delivered \in Seq([value : Seq(Digits), index : Nat, from : Nat, to : Nat])
        BY <1>1 DEF IndInv, TypeOK
      <4>3. Len(delivered) = item_index
        BY <1>1, <2>2 DEF IndInv, CountInv
      <4> QED BY <4>1, <4>2, <4>3, AppendProperties
    <3> QED BY <1>2, <1>3, <2>2, <3>1, ExpectedItemsType DEF DeliveredInv, Surplus
  <2> QED BY <2>1, <2>2
<1>6. FieldsInv'
  BY DeliverFields
<1> QED BY <1>1, <1>4, <1>5, <1>6 DEF StoreInvariant

LEMMA StoreInvariance == Spec => []StoreInvariant
<1>1. ASSUME StoreInvariant, UNCHANGED vars PROVE StoreInvariant'
  <2>1. IndInv'
    BY <1>1 DEF vars, StoreInvariant, IndInv, TypeOK, BufferInv, CountInv, Surplus,
                ItemsAreSplit, IsItem
  <2>2. PlaceInv' /\ DeliveredInv' /\ FieldsInv'
    BY <1>1, SameText DEF vars, StoreInvariant, PlaceInv, Ended, DeliveredInv, FieldsInv, ValidLength
  <2> QED BY <2>1, <2>2 DEF StoreInvariant
<1>2. StoreInvariant /\ [Next]_vars => StoreInvariant'
  BY <1>1, CollectStore, DeliverStore DEF Next
<1> QED BY InitStore, <1>2, PTL DEF Spec

\* When the loop has ended, as many items were read as end in the data.
LEMMA AllEnded ==
  ASSUME StoreInvariant, Parsed
  PROVE  item_index = Cardinality(ItemEnds)
<1>1. ItemEnds \subseteq DOMAIN data /\ DOMAIN data = 1 .. i
  BY DEF ItemEnds, StoreInvariant, IndInv, TypeOK, Parsed
<1>2. Ended = ItemEnds
  BY <1>1 DEF Ended
<1> QED BY <1>2 DEF StoreInvariant, PlaceInv

\* p18_parse_list calls the callback for every item of the data, the last one
\* included, but for no more than the message expects.
THEOREM EveryItemIsDelivered == Spec => []AllItemsDelivered
<1>1. StoreInvariant => AllItemsDelivered
  BY AllEnded DEF StoreInvariant, DeliveredInv, AllItemsDelivered
<1> QED BY <1>1, StoreInvariance, PTL

\* The unpackers store every item in its own field, converted as the field
\* demands, whatever the other items are; the fields without an item stay zero.
THEOREM FieldsAreTheirItems == Spec => []FieldsHoldTheirItems
<1>1. StoreInvariant => FieldsHoldTheirItems
  BY AllEnded DEF StoreInvariant, FieldsInv, FieldsHoldTheirItems
<1> QED BY <1>1, StoreInvariance, PTL
=============================================================================
