----------------------------- MODULE MCIsvReply -----------------------------
(***************************************************************************)
(* Replies for IsvReply: to every message, items or columns that differ    *)
(* from all others, then each of them alone with each small value, every   *)
(* fault code, lists that end early or have an item too many, data that is *)
(* too short for its columns, and lengths beyond an array.                 *)
(***************************************************************************)
EXTENDS IsvReply

\* Item k with the number n, in the form its kind has.
Item(message, k, n) ==
  CASE Kind(message, k - 1) = "time" -> Printed(n, 4)
    [] Kind(message, k - 1) = "cpu"  -> Printed(n, 5)
    [] OTHER                         -> Printed(n, 1)

\* All items different, as many as there are and one more or less.
Distinct(message) ==
  {[k \in 1 .. n |-> IF k > ExpectedItems(message) THEN <<1>>
                     ELSE Item(message, k, 100 + 11 * k)] :
     n \in ExpectedItems(message) - 2 .. ExpectedItems(message) + 1}

\* One item with a number, all others zero.
Single(message) ==
  {[k \in 1 .. ExpectedItems(message) |-> Item(message, k, IF k = one THEN n ELSE 0)] :
     one \in 1 .. ExpectedItems(message), n \in 1 .. 6}

\* Every code of a fault, where the message has one.
Faults(message) ==
  LET at == IF message = "faults_warnings" THEN 1 ELSE 3
  IN  {[k \in 1 .. ExpectedItems(message) |-> IF k = at THEN Printed(code, 2) ELSE <<0>>] :
         code \in 0 .. 99}

\* A serial number of 20 digits, and a length before it.
Serials ==
  {[k \in 1 .. 7 |-> IF k = 2 THEN Printed(n, 2) ELSE IF k = 3 THEN [d \in 1 .. 20 |-> d % 10] ELSE <<1>>] :
     n \in {0, 14, 20, 31, 32, 99}}

ClockItems == {Printed(100 * h + mm, 4) : h \in {0, 7, 23}, mm \in {0, 8, 59}} \cup {<<>>, <<7>>, <<1, 2>>}

Lists ==
  UNION {{<<message, list>> : list \in Distinct(message) \cup Single(message)} :
           message \in DOMAIN Conversions}
  \cup UNION {{<<message, list>> : list \in Faults(message)} :
                message \in {"faults_warnings", "parallel_general_status"}}
  \cup {<<"parallel_rated_information", list>> : list \in Serials}
  \cup {<<message, <<start, end>>>> :
          message \in {"ac_charge_time_bucket", "ac_supply_load_time_bucket"},
          start \in ClockItems, end \in ClockItems}

Arrays ==
  {<<message, [k \in 1 .. n |-> Printed(10 * k, 3)]>> :
     message \in SelectableValues, n \in 0 .. AmpsSize + 1}

\* Data of columns: whole, with all characters different and with zeros, and
\* cut off after any of its characters.
Wholes(message) ==
  CASE message = "series_number" ->
         {Printed(n, 2) \o [k \in 1 .. n |-> k % 10] : n \in {0, 1, 14, 20, 31}}
    [] message = "current_time" ->
         {<<2, 0, 2, 1, 1, 2, 3, 0, 2, 3, 5, 9, 4, 8>>, <<2, 0, 0, 0, 0, 1, 0, 1, 0, 0, 0, 0, 0, 0>>}
    [] message \in {"protocol_id", "working_mode"} -> {Printed(n, 2) : n \in 0 .. 99}
    [] OTHER -> {<<0, 0, 0, 0, 0, 0, 0, 0>>, <<0, 1, 2, 3, 4, 5, 6, 7>>, <<2, 0, 0, 0, 0, 0, 0, 9>>}

Cut(message) == UNION {{SubSeq(whole, 1, n) : n \in 0 .. Len(whole)} : whole \in Wholes(message)}

\* Behind the data: nothing, or digits of an earlier reply.
MCStaleTexts == {<<>>, <<7, 7, 7, 7>>}

MCReplies ==
  Lists \cup Arrays
  \cup UNION {{<<message, <<data>>>> : data \in Cut(message)} : message \in DOMAIN Columns}
=============================================================================
