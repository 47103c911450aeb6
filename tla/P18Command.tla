----------------------------- MODULE P18Command -----------------------------
(***************************************************************************)
(* p18_build_command: a request from a command and its arguments.          *)
(*                                                                         *)
(* A word of the command line is blanks and a sign, letters or digits, a   *)
(* '.' or ':' with more digits, in front of which there may be blanks and  *)
(* a sign again, and a tail of other characters, which no conversion of C  *)
(* reads as part of a number and of which only their number is kept; each  *)
(* part may be missing.                                                    *)
(***************************************************************************)
EXTENDS P18Protocol, P18Text

Separators == {"", ".", ":"}

\* What C skips and reads in front of the digits of a number.
Lead   == [blanks : Nat, sign : {"", "+", "-"}]
NoLead == [blanks |-> 0, sign |-> ""]

Word ==
  [lead : Lead, key : STRING, digits : Seq(Digits), sep : Separators,
   behind : Lead, more : Seq(Digits), tail : Nat]

\* A word of digits only, and a word of letters only.
Numeral(digits) ==
  [lead |-> NoLead, key |-> "", digits |-> digits, sep |-> "", behind |-> NoLead,
   more |-> <<>>, tail |-> 0]
Keyword(key) == [Numeral(<<>>) EXCEPT !.key = key]

Signed(lead, number) == IF lead.sign = "-" THEN -number ELSE number

\* atoi of a word.
Number(word) == IF word.key = "" THEN Signed(word.lead, Atoi(word.digits)) ELSE 0

\* (int)round(atof(word)*10), for a word with at most one decimal.
Decimals(word) == IF word.sep = "." THEN Atoi(SubstrCopy(word.more, 1)) ELSE 0
Tenths(word) ==
  IF word.key = "" THEN Signed(word.lead, 10 * Atoi(word.digits) + Decimals(word)) ELSE 0

\* Letters of requests.
EnableChar == 11    \* 'E'
DisableChar == 12   \* 'D'
FlagChars == [A |-> 13, B |-> 14, C |-> 15, D |-> 16, E |-> 17, F |-> 18, G |-> 19,
              H |-> 20, I |-> 21]

\* "%03d" of (int)round(v*10).  For "nan" the conversion to int is undefined;
\* on x86 it gives INT_MIN, a '-' with its ten digits.
PrintedTenths(word) ==
  IF word.key = "nan"
    THEN <<MinusChar, 2, 1, 4, 7, 4, 8, 3, 6, 4, 8>>
    ELSE Printed(Tenths(word), 3)

\* Commands by the length of their name in p18_query_cmds and p18_set_cmds.
NameLength(command) ==
  CASE command \in {"CURRENT_TIME", "SET_FLAG", "SET_AC_OUTPUT_FREQ",
                    "SET_AC_OUTPUT_RATED_VOLTAGE"} -> 1
    [] command \in {"PROTOCOL_ID", "TOTAL_GENERATED", "YEAR_GENERATED", "MONTH_GENERATED",
                    "DAY_GENERATED", "SERIES_NUMBER", "GENERAL_STATUS", "DEFAULTS",
                    "SET_DEFAULTS", "SET_SOLAR_CONFIG"} -> 2
    [] command \in {"CPU_VERSION", "WORKING_MODE", "FAULTS_WARNINGS",
                    "PARALLEL_RATED_INFORMATION", "PARALLEL_GENERAL_STATUS", "SET_LOADS",
                    "SET_OUTPUT_SOURCE_PRIORITY", "SET_CHARGING_SOURCE_PRIORITY",
                    "SET_SOLAR_POWER_PRIORITY", "SET_AC_INPUT_VOLTAGE_RANGE", "SET_BAT_TYPE",
                    "SET_CLEAR_GENERATED", "SET_DATE_TIME"} -> 3
    [] command \in {"RATED_INFORMATION", "FLAGS_STATUSES", "AC_CHARGE_TIME_BUCKET",
                    "AC_SUPPLY_LOAD_TIME_BUCKET", "SET_BAT_CHARGING_THRESHOLDS",
                    "SET_OUTPUT_MODEL", "SET_BAT_CUTOFF_VOLTAGE", "SET_AC_CHARGE_TIME_BUCKET",
                    "SET_AC_SUPPLY_LOAD_TIME_BUCKET"} -> 4
    [] command \in {"SET_BAT_MAX_CHARGE_CURRENT", "SET_BAT_MAX_CHARGE_VOLTAGE"} -> 5
    [] command \in {"MAX_CHARGING_CURRENT_SELECTABLE_VALUES",
                    "SET_BAT_MAX_AC_CHARGE_CURRENT"} -> 6
    [] command = "MAX_AC_CHARGING_CURRENT_SELECTABLE_VALUES" -> 7

\* The id of a solar configuration: its length, and the id filled up with 0.
SolarId(digits) ==
  Printed(Len(digits), 2) \o digits \o [k \in 1 .. 20 - Len(digits) |-> 0]

\* Mutant: the day before the month.
DateTimeDayFirst(a) ==
  FlattenSeq([k \in 1 .. 6 |->
    Printed(IF k = 1 THEN Number(a[1]) - 2000 ELSE Number(a[IF k \in {2, 3} THEN 5 - k ELSE k]), 2)])

\* Date and time, the year without its century.
DateTime(a) ==
  FlattenSeq([k \in 1 .. 6 |->
    Printed(IF k = 1 THEN Number(a[1]) - 2000 ELSE Number(a[k]), 2)])

\* p18_append_arguments: the text of the arguments a[1], a[2], ... (a[0], a[1],
\* ... in the code).
AppendArguments(command, a) ==
  CASE command = "YEAR_GENERATED" -> a[1].digits
    [] command = "MONTH_GENERATED" -> a[1].digits \o Printed(Number(a[2]), 2)
    [] command = "DAY_GENERATED" ->
         a[1].digits \o Printed(Number(a[2]), 2) \o Printed(Number(a[3]), 2)
    [] command \in {"PARALLEL_RATED_INFORMATION", "PARALLEL_GENERAL_STATUS"} ->
         Printed(Number(a[1]), 1)
    [] command = "SET_LOADS" -> a[1].digits
    [] command = "SET_FLAG" ->
         <<IF a[2].digits[1] = 1 THEN EnableChar ELSE DisableChar, FlagChars[a[1].key]>>
    [] command \in {"SET_BAT_MAX_CHARGE_CURRENT", "SET_BAT_MAX_AC_CHARGE_CURRENT"} ->
         <<a[1].digits[1], Comma>> \o Printed(Number(a[2]), 3)
    [] command = "SET_AC_OUTPUT_FREQ" -> Printed(Number(a[1]), 2)
    [] command \in {"SET_BAT_MAX_CHARGE_VOLTAGE", "SET_BAT_CHARGING_THRESHOLDS"} ->
         PrintedTenths(a[1]) \o <<Comma>> \o PrintedTenths(a[2])
    [] command = "SET_AC_OUTPUT_RATED_VOLTAGE" -> Printed(10 * Number(a[1]), 4)
    [] command \in {"SET_OUTPUT_SOURCE_PRIORITY", "SET_SOLAR_POWER_PRIORITY",
                    "SET_AC_INPUT_VOLTAGE_RANGE", "SET_BAT_TYPE"} -> <<a[1].digits[1]>>
    [] command \in {"SET_CHARGING_SOURCE_PRIORITY", "SET_OUTPUT_MODEL"} ->
         <<a[1].digits[1], Comma, a[2].digits[1]>>
    [] command = "SET_BAT_CUTOFF_VOLTAGE" -> PrintedTenths(a[1])
    [] command = "SET_SOLAR_CONFIG" -> SolarId(a[1].digits)
    [] command = "SET_DATE_TIME" -> DateTime(a)
    [] command \in {"SET_AC_CHARGE_TIME_BUCKET", "SET_AC_SUPPLY_LOAD_TIME_BUCKET"} ->
         Printed(Number(a[1]), 2) \o Printed(Number(a[2]), 2) \o <<Comma>>
           \o Printed(Number(a[3]), 2) \o Printed(Number(a[4]), 2)
    [] OTHER -> <<>>

LengthDigits == 3    \* "000"

\* Mutant: the length without its own digits.
BuildCommandShort(command, a) ==
  LET text == AppendArguments(command, a)
  IN  [set |-> command \in SetCommands, name |-> command,
       length |-> NameLength(command) + Len(text), text |-> text]

\* p18_build_command: '^', 'P' or 'S', the length, the name and the arguments.
\* The length counts from its own first digit to the end.
BuildCommand(command, a) ==
  LET text == AppendArguments(command, a)
  IN  [set |-> command \in SetCommands, name |-> command,
       length |-> LengthDigits + NameLength(command) + Len(text), text |-> text]

\* The bytes of a request that voltronic_dev_execute is given.
RequestSize(request) == 2 + LengthDigits + NameLength(request.name) + Len(request.text)
=============================================================================
