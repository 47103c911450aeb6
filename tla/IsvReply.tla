------------------------------ MODULE IsvReply ------------------------------
(***************************************************************************)
(* What isv does with an accepted reply: query calls the unpacker of the   *)
(* message, which stores the items one after the other in the message's    *)
(* fields, and then its printer, which prints one row after the other.     *)
(* That the items of a list are what stands between the commas is P18List. *)
(***************************************************************************)
EXTENDS IsvPrint, FiniteSets

CONSTANTS
  Replies,      \* bound: messages with the items of a list, or with the data
  StaleTexts    \* bound: what may stand in the response buffer behind a reply

\* Text is digits, and data that is not a list is one piece.
ASSUME ReplyAssumption ==
  /\ \A reply \in Replies :
       /\ reply[1] \in Messages /\ reply[2] \in Seq(Seq(Digits))
       /\ reply[1] \notin ListMessages => Len(reply[2]) = 1
  /\ StaleTexts \subseteq Seq(Digits)

\* The words that are printed of codes and truth values, without those of fault
\* codes.
Words ==
  {"Yes", "No", "Enabled", "Disabled", "true", "false", "Unknown"}
  \cup UNION {Range(Labels[style]) : style \in DOMAIN Labels}

\* A word is its characters, and only those of fault codes have more than 29.
ASSUME WordsAssumption ==
  /\ \A word \in Words \cup {fault[2] : fault \in FaultCodes} :
       Len(word) \in Nat /\ SubSeq(word, 1, Len(word)) = word
  /\ \A word \in Words : Len(word) <= 29

VARIABLES
  msg,      \* the message that was asked for
  items,    \* the items of the list, or the data of columns as its one element
  format,   \* g_format
  taken,    \* items or columns that were stored
  m,        \* the message: its fields in the order of the items
  out       \* ghost: the lines printed

vars == <<msg, items, format, taken, m, out>>

IsList == msg \in ListMessages
IsArray == msg \in SelectableValues
Names == FieldNames(msg)

\* m = {0} in the unpacker of a list.
Init ==
  /\ \E reply \in Replies : msg = reply[1] /\ items = reply[2]
  /\ format \in Formats
  /\ taken = 0 /\ out = <<>>
  /\ m = IF IsList /\ ~IsArray THEN [k \in DOMAIN Names |-> Zero(Kind(msg, k - 1))] ELSE <<>>

\* How many items or columns are looked at.
Count ==
  IF ~IsList THEN Len(Columns[msg])
  ELSE IF ExpectedItems(msg) # -1 /\ ExpectedItems(msg) < Len(items) THEN ExpectedItems(msg)
  ELSE Len(items)

Unpacked == taken = Count

\* serial_number_valid_length, of a message that has it.
ValidLength == IF msg = "parallel_rated_information" THEN m[2] ELSE 0

\* One call of the callback of a list.
StoreItem ==
  /\ IsList /\ ~IsArray /\ ~Unpacked
  /\ \E stored \in Converted(Kind(msg, taken), items[taken + 1], ValidLength) :
       m' = [m EXCEPT ![taken + 1] = stored]
  /\ taken' = taken + 1
  /\ UNCHANGED <<msg, items, format, out>>

\* Mutant: the array is never full.
StoreAmpsAll ==
  /\ IsArray /\ ~Unpacked
  /\ m' = Append(m, Atoi(items[taken + 1]))
  /\ taken' = taken + 1
  /\ UNCHANGED <<msg, items, format, out>>

\* The callback of the two messages with an array.
StoreAmps ==
  /\ IsArray /\ ~Unpacked
  /\ m' = IF Len(m) < AmpsSize THEN Append(m, Atoi(items[taken + 1])) ELSE m
  /\ taken' = taken + 1
  /\ UNCHANGED <<msg, items, format, out>>

\* The string at an offset of the data.  Behind the data's 0 stands what the
\* buffer held before.
TextAt(offset) ==
  IF offset < Len(items[1]) THEN {SubSeq(items[1], offset + 1, Len(items[1]))}
  ELSE IF offset = Len(items[1]) THEN {<<>>}
  ELSE StaleTexts

\* A series number is the only text, and the length in front of it says how
\* much of it is copied.
IsSeries(column) == msg = "series_number" /\ column[1] = "id"
ColumnWidth(column) == IF IsSeries(column) THEN m[1] ELSE column[3]

\* One column of the data is copied and stored.
StoreColumn ==
  /\ ~IsList /\ ~Unpacked
  /\ LET column == Columns[msg][taken + 1]
     IN  \E text \in TextAt(column[2]) :
           LET copied == SubstrCopy(text, ColumnWidth(column))
           IN  m' = Append(m, IF IsSeries(column) THEN copied ELSE Atoi(copied))
  /\ taken' = taken + 1
  /\ UNCHANGED <<msg, items, format, out>>

\* The rows that will be printed, as field and style.
Printing == IF IsArray THEN [k \in DOMAIN m |-> <<"amps", "number">>] ELSE MessageRows(msg)

Value(field) == m[CHOOSE k \in DOMAIN Names : Names[k] = field]

\* One round of the loop of print_table, print_json, print_table_list or
\* print_json_list.
PrintRow ==
  /\ Unpacked /\ Len(out) < Len(Printing)
  /\ LET row == Printing[Len(out) + 1]
     IN  out' = Append(out,
           IF IsArray THEN Line("", row[2], m[Len(out) + 1], format)
                      ELSE Line(Key(msg, row[1]), row[2], Value(row[1]), format))
  /\ UNCHANGED <<msg, items, format, taken, m>>

AllPrinted == Unpacked /\ Len(out) = Len(Printing)

Next == StoreItem \/ StoreAmps \/ StoreColumn \/ PrintRow \/ (AllPrinted /\ UNCHANGED vars)

Spec == Init /\ [][Next]_vars

-----------------------------------------------------------------------------
(* What p18.h and the protocol say of the fields. *)

\* The item or column that a field is sent in, as text; a list may end before it.
Sent(field) ==
  LET k == CHOOSE k \in DOMAIN Names : Names[k] = field
  IN  IF IsList THEN (IF k <= Len(items) THEN items[k] ELSE <<>>)
      ELSE SubstrCopy(SubSeq(items[1], Columns[msg][k][2] + 1, Len(items[1])), Columns[msg][k][3])

\* The comments "unit: ..." of p18.h, by the fields' names.
TenthVolts ==
  {"ac_input_rating_voltage", "battery_rating_voltage", "battery_recharge_voltage",
   "battery_redischarge_voltage", "battery_under_voltage", "battery_bulk_voltage",
   "battery_float_voltage", "grid_voltage", "ac_output_voltage", "battery_voltage",
   "battery_voltage_scc", "battery_voltage_scc2", "pv1_input_voltage", "pv2_input_voltage",
   "charging_bulk_voltage", "charging_float_voltage"}
TenthAmperes ==
  {"ac_input_rating_current", "ac_output_rating_voltage", "ac_output_rating_current"}
TenthHertz == {"ac_output_rating_freq", "grid_freq", "ac_output_freq"}
VoltAmperes ==
  {"ac_output_rating_apparent_power", "ac_output_apparent_power",
   "total_ac_output_apparent_power"}
Watts ==
  {"ac_output_rating_active_power", "ac_output_active_power",
   "total_ac_output_active_power", "pv1_input_power", "pv2_input_power"}
Percents ==
  {"output_load_percent", "total_output_load_percent", "battery_capacity"}
Amperes ==
  {"max_ac_charging_current", "max_charging_current", "battery_discharge_current",
   "battery_charging_current", "total_battery_charging_current"}
Degrees ==
  {"inverter_heat_sink_temp", "mppt1_charger_temp", "mppt2_charger_temp", "max_temp"}

\* The unit of a field, and into how many parts p18.h divides it.  In defaults
\* only the first of the voltages has a comment.
DeclaredUnit(field) ==
  CASE field \in TenthVolts   -> "V"  [] field \in TenthAmperes \cup Amperes -> "A"
    [] field \in TenthHertz   -> "Hz" [] field \in VoltAmperes -> "VA"
    [] field \in Watts        -> "W"  [] field \in Percents    -> "%"
    [] field \in Degrees      -> "C"  [] OTHER                 -> ""
Parts(field) == IF field \in TenthVolts \cup TenthAmperes \cup TenthHertz THEN 10 ELSE 1

-----------------------------------------------------------------------------
(* Properties. *)

\* Every variable keeps its type; an array holds what fits it.
TypeOK ==
  /\ msg \in Messages /\ format \in Formats
  /\ taken \in 0 .. Count
  /\ IsArray => Len(m) <= AmpsSize
  /\ Len(out) <= Len(Printing)
  /\ \A k \in DOMAIN out : "text" \in DOMAIN out[k] => out[k].quotes \in 0 .. 2

\* The number in a line is what was sent for the field.
SameQuantity(line, field) ==
  line.number * Parts(field) = Atoi(Sent(field)) * 10^line.decimals

\* p18.h of the settings: "0: nothing changed, 1: something changed", of the
\* load: "0: disconnected, 1: connected".
SaysOne(field) == IF field = "load_connected" THEN "Connected" ELSE "Something changed"

\* An answer to a question is yes exactly if the inverter sent a yes.
SameAnswer(line, field) ==
  CASE field \in {"load_connected", "settings_values_changed"} ->
         (line.text = SaysOne(field)) <=> Atoi(Sent(field)) = 1
    [] OTHER -> line.text \in {"Yes", "Enabled", "true"} <=> Atoi(Sent(field)) > 0

\* The fields that answer a question.
Questions ==
  {"load_connected", "settings_values_changed"}
  \cup {row[1] : row \in {r \in Range(FaultsRows \o FlagsRows \o DefaultsRows) :
                            r[2] \in {"bool", "flag"}}}

\* "hhmm" as hh:mm.
SameTime(line, field) ==
  Len(Sent(field)) = 4 =>
    line.text = SubSeq(Sent(field), 1, 2) \o <<Colon>> \o SubSeq(Sent(field), 3, 4)

\* The line shows what the inverter sent in the field's item.
Faithful(line, field) ==
  CASE "number" \in DOMAIN line  -> SameQuantity(line, field)
    [] field \in Questions       -> SameAnswer(line, field)
    [] field \in {"start", "end"} -> SameTime(line, field)
    [] OTHER                     -> TRUE

\* Of a message with columns: all of them are in the data.
IsComplete == IsList \/ \A column \in Range(Columns[msg]) : column[2] < Len(items[1])

\* Where the code and p18.h differ: the answer of the settings is the wrong way
\* round, a panel voltage is stored as a truth value, a power is shown with the
\* unit of an energy, the temperature of a parallel machine without a unit, and
\* p18.h has amperes for a voltage.
WrongValues ==
  {<<"general_status", "settings_values_changed">>,
   <<"parallel_general_status", "pv1_input_voltage">>}
WrongUnits == Watts \cup {"max_temp", "ac_output_rating_voltage"}

\* print.c and the callbacks of p18.c: a line that is printed shows the
\* quantity that the inverter sent in that field's item, through the callback,
\* the field, the division and the precision of the format, and the unit p18.h
\* gives the field, and a time shows as it was sent; an item that was not sent
\* shows as zero.
ShownAsDeclared ==
  out # <<>> /\ ~IsArray /\ IsComplete =>
    LET line  == Last(out)
        field == Printing[Len(out)][1]
    IN  /\ field \in Questions \/ <<msg, field>> \in WrongValues \/ Faithful(line, field)
        /\ "unit" \in DOMAIN line /\ field \notin WrongUnits =>
             line.unit = IF format = "json" THEN "" ELSE DeclaredUnit(field)

\* The same of the fields that answer a question: in every format the wording,
\* through the callback, the field and its row, is the answer that was sent.
AnswersAreGiven ==
  out # <<>> /\ ~IsArray =>
    LET field == Printing[Len(out)][1]
    IN  field \in Questions =>
          <<msg, field>> \in WrongValues \/ SameAnswer(Last(out), field)

\* Fields that are stored and never printed.
Omitted ==
  {<<"parallel_rated_information", "serial_number_valid_length">>,
   <<"parallel_general_status", "total_battery_charging_current">>,
   <<"parallel_general_status", "battery_capacity">>,
   <<"flags_statuses", "reserved">>, <<"series_number", "length">>}

\* print.c: nothing gets lost between the reply and the output, and nothing is
\* there twice: every field is one line, whose key no other line has, and an
\* array is its numbers as they were sent, as many as it holds.
NothingIsLost ==
  AllPrinted =>
    IF IsArray
      THEN [k \in DOMAIN out |-> out[k].number] =
             [k \in 1 .. (IF Len(items) < AmpsSize THEN Len(items) ELSE AmpsSize) |->
                Atoi(items[k])]
      ELSE \A field \in Range(Names) :
             Cardinality({k \in DOMAIN out : out[k].key = Key(msg, field)}) =
               IF <<msg, field>> \in Omitted THEN 0 ELSE 1

\* The label of a code that a table has no room for.
IsTooLong(label) == Len(label) > IF HasSpace("fault", label) THEN 29 ELSE 31

\* print_table: whatever label is shown, a reader of a parsable table can cut
\* the line at its spaces: a text with a space stands between two quotation
\* marks, and what is shown is the whole label.  Only some labels of fault
\* codes are too long for that, and a series number that is longer than its array.
LabelsAreReadable ==
  out # <<>> /\ "text" \in DOMAIN Last(out) =>
    LET row   == Printing[Len(out)]
        label == Wording(row[2], Value(row[1]), format)
    IN  \/ row[2] = "fault" /\ IsTable(format) /\ IsTooLong(label)
        \/ msg = "series_number" /\ m[1] > 31
        \/ /\ Last(out).text = label
           /\ format = "parsable-table" /\ HasSpace(row[2], label) => Last(out).quotes = 2

\* The next copy of an unpacker: its length and the size of the array.
Copy ==
  IF ~IsList THEN
    CASE msg = "series_number"   -> <<ColumnWidth(Columns[msg][taken + 1]), 32>>
      [] Columns[msg] = Generated -> <<8, 16>>
      [] OTHER                   -> <<Columns[msg][taken + 1][3], 4>>
  ELSE
    CASE Kind(msg, taken) = "cpu"    -> <<5, 6>>
      [] Kind(msg, taken) = "serial" -> <<SerialLength(ValidLength), 32>>
      [] OTHER                       -> <<2, 4>>

\* util.c of substr_copy, "dst buffer's length must be at least len+1": every
\* copy of an unpacker has room for the 0, whatever length a parallel machine
\* declares for its serial number.  Only the year, of four characters into four
\* bytes, has not, and a series number that declares more than 31 characters.
CopiesFit ==
  ~Unpacked =>
    \/ msg = "current_time" /\ taken = 0
    \/ msg = "series_number" /\ taken = 1 /\ m[1] > 31
    \/ Copy[1] < Copy[2]

\* How long the data of a message with columns is.
DataWidth ==
  CASE msg = "current_time"                    -> 14
    [] msg = "series_number"                   -> 2 + m[1]
    [] msg \in {"protocol_id", "working_mode"} -> 2
    [] OTHER                                   -> 8

\* What was stored, put together again with the columns' widths.
Rejoined ==
  FlattenSeq([k \in DOMAIN m |-> IF IsSeries(Columns[msg][k]) THEN m[k]
                                  ELSE Printed(m[k], Columns[msg][k][3])])

\* The unpackers of columns: no character of the data is left out, taken twice
\* or taken for another column's, if all columns are there.
ColumnsKeepTheData ==
  ~IsList /\ Unpacked /\ Len(items[1]) = DataWidth => Rejoined = items[1]

-----------------------------------------------------------------------------
(* What the documentation says and the code does not do. *)

\* p18.h of settings_values_changed, "inverter returns: 0: nothing changed, 1:
\* something changed", and of pv1_input_voltage, "unit: 0.1V": every line shows
\* the value the inverter sent, as p18.h reads it.
ValuesAreShown ==
  out # <<>> /\ ~IsArray /\ IsComplete => Faithful(Last(out), Printing[Len(out)][1])
=============================================================================
