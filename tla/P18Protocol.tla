---------------------------- MODULE P18Protocol ----------------------------
(***************************************************************************)
(* The protocol P18 (p18.c, p18.h) as the program that uses it sees it:    *)
(* the commands, how many of its arguments each one is built from, and     *)
(* when a reply is taken for an answer.                                    *)
(***************************************************************************)
EXTENDS Integers

\* enum p18_query_command: the commands that ask.
QueryCommands ==
  {"PROTOCOL_ID", "CURRENT_TIME", "TOTAL_GENERATED", "YEAR_GENERATED",
   "MONTH_GENERATED", "DAY_GENERATED", "SERIES_NUMBER", "CPU_VERSION",
   "RATED_INFORMATION", "GENERAL_STATUS", "WORKING_MODE", "FAULTS_WARNINGS",
   "FLAGS_STATUSES", "DEFAULTS", "MAX_CHARGING_CURRENT_SELECTABLE_VALUES",
   "MAX_AC_CHARGING_CURRENT_SELECTABLE_VALUES", "PARALLEL_RATED_INFORMATION",
   "PARALLEL_GENERAL_STATUS", "AC_CHARGE_TIME_BUCKET",
   "AC_SUPPLY_LOAD_TIME_BUCKET"}

\* enum p18_set_command: the commands that change the inverter's settings.
SetCommands ==
  {"SET_LOADS", "SET_FLAG", "SET_DEFAULTS", "SET_BAT_MAX_CHARGE_CURRENT",
   "SET_BAT_MAX_AC_CHARGE_CURRENT", "SET_AC_OUTPUT_FREQ",
   "SET_BAT_MAX_CHARGE_VOLTAGE", "SET_AC_OUTPUT_RATED_VOLTAGE",
   "SET_OUTPUT_SOURCE_PRIORITY", "SET_BAT_CHARGING_THRESHOLDS",
   "SET_CHARGING_SOURCE_PRIORITY", "SET_SOLAR_POWER_PRIORITY",
   "SET_AC_INPUT_VOLTAGE_RANGE", "SET_BAT_TYPE", "SET_OUTPUT_MODEL",
   "SET_BAT_CUTOFF_VOLTAGE", "SET_SOLAR_CONFIG", "SET_CLEAR_GENERATED",
   "SET_DATE_TIME", "SET_AC_CHARGE_TIME_BUCKET",
   "SET_AC_SUPPLY_LOAD_TIME_BUCKET"}

AllCommands == QueryCommands \cup SetCommands

\* p18_append_arguments puts a[0] .. a[ArgumentsRead(command) - 1] behind the
\* command's name.
ArgumentsRead(command) ==
  CASE command \in {"YEAR_GENERATED", "PARALLEL_RATED_INFORMATION",
                    "PARALLEL_GENERAL_STATUS", "SET_LOADS", "SET_AC_OUTPUT_FREQ",
                    "SET_AC_OUTPUT_RATED_VOLTAGE", "SET_OUTPUT_SOURCE_PRIORITY",
                    "SET_SOLAR_POWER_PRIORITY", "SET_AC_INPUT_VOLTAGE_RANGE",
                    "SET_BAT_TYPE", "SET_BAT_CUTOFF_VOLTAGE", "SET_SOLAR_CONFIG"} -> 1
    [] command \in {"MONTH_GENERATED", "SET_FLAG", "SET_BAT_MAX_CHARGE_CURRENT",
                    "SET_BAT_MAX_AC_CHARGE_CURRENT", "SET_BAT_MAX_CHARGE_VOLTAGE",
                    "SET_BAT_CHARGING_THRESHOLDS", "SET_CHARGING_SOURCE_PRIORITY",
                    "SET_OUTPUT_MODEL"} -> 2
    [] command = "DAY_GENERATED" -> 3
    [] command \in {"SET_AC_CHARGE_TIME_BUCKET", "SET_AC_SUPPLY_LOAD_TIME_BUCKET"} -> 4
    [] command = "SET_DATE_TIME" -> 6
    [] OTHER -> 0

\* Words that main takes for a command's option with GET_ARGS; 0 for no_argument.
WordsTaken(command) ==
  CASE command \in {"SET_AC_CHARGE_TIME_BUCKET", "SET_AC_SUPPLY_LOAD_TIME_BUCKET"} -> 2
    [] command = "SET_DATE_TIME" -> 6
    [] command = "DAY_GENERATED" -> 3
    [] command \in {"MONTH_GENERATED", "SET_FLAG", "SET_BAT_MAX_CHARGE_CURRENT",
                    "SET_BAT_MAX_AC_CHARGE_CURRENT", "SET_BAT_MAX_CHARGE_VOLTAGE",
                    "SET_BAT_CHARGING_THRESHOLDS", "SET_CHARGING_SOURCE_PRIORITY",
                    "SET_OUTPUT_MODEL"} -> 2
    [] command \in {"YEAR_GENERATED", "PARALLEL_RATED_INFORMATION",
                    "PARALLEL_GENERAL_STATUS", "SET_LOADS", "SET_AC_OUTPUT_FREQ",
                    "SET_AC_OUTPUT_RATED_VOLTAGE", "SET_OUTPUT_SOURCE_PRIORITY",
                    "SET_SOLAR_POWER_PRIORITY", "SET_AC_INPUT_VOLTAGE_RANGE",
                    "SET_BAT_TYPE", "SET_BAT_CUTOFF_VOLTAGE", "SET_SOLAR_CONFIG"} -> 1
    [] OTHER -> 0

-----------------------------------------------------------------------------
(* Replies.  A well-formed reply to a query is "^Dnnn", data, two bytes of  *)
(* checksum and '\r'; nnn counts everything behind itself, so that the      *)
(* reply has HeaderSize + nnn bytes.                                        *)

HeaderSize == 5

\* How a reply begins, as far as the code looks at it: "^D", "^1", '^' and
\* something else, or not even '^'.
Beginnings == {"data", "ack", "nack", "other"}

\* p18_validate_query_response for a reply of size raw bytes whose digits nnn
\* atoi reads as len.  len + 4 is computed in unsigned int: where it is
\* negative it wraps to something no reply is as long as.
ValidQueryResponse(begins, len, size) ==
  begins = "data" /\ len + 4 >= 0 /\ size >= len + 4

\* Mutant: a refusal passes for an acknowledgement.
SetResultAny(begins, size) == size >= 2 /\ begins # "other"

\* p18_set_result.
SetResult(begins, size) == size >= 2 /\ begins = "ack"

\* What atoi can read in buffer[2..4] of a reply with data_size bytes of data,
\* out of the numbers in lengths.  Behind the data is the 0 that
\* voltronic_receive_data wrote over the checksum.
DeclaredLengths(data_size, lengths) ==
  {0} \cup (CASE data_size <= 2 -> {}
              [] data_size = 3 -> lengths \cap 0 .. 9
              [] data_size = 4 -> lengths \cap -9 .. 99
              [] OTHER         -> lengths \cap -99 .. 999)
=============================================================================
