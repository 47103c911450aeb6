----------------------------- MODULE P18Unpack -----------------------------
(***************************************************************************)
(* What the callbacks P18_PARSE_CB_FN of p18.c make of the items of a      *)
(* list: for every message with a list, the conversion that each item is   *)
(* stored with, in the order of the items.                                 *)
(***************************************************************************)
EXTENDS P18Text

CONSTANTS
  AmpsSize,       \* ARRAY_SIZE(m->amps), 32 in the code
  StaleMinutes    \* bound: what may be read where a time has no minutes

\* Minutes are what atoi makes of two characters, which are digits as in all text.
ASSUME UnpackAssumption ==
  /\ AmpsSize \in Nat
  /\ StaleMinutes \subseteq 0 .. 99 /\ StaleMinutes # {}

-----------------------------------------------------------------------------
(* The messages.  "num" stores the number, "flag" 1 if it is positive,      *)
(* "one" 1 if it is 1, "cpu", "mppt" and "serial" store text, "time" two    *)
(* numbers, and "none" nothing.                                             *)

Times(kind, n) == [k \in 1 .. n |-> kind]

CpuVersion == Times("cpu", 3)

RatedInformation == Times("num", 24) \o <<"mppt">>

\* settings_values_changed is item 20, load_connected item 23.
GeneralStatus ==
  Times("num", 20) \o <<"one", "num", "num", "one">> \o Times("num", 4)

FaultsWarnings == <<"num">> \o Times("flag", 16)

\* The ninth item is expected and not stored.
FlagsStatuses == Times("flag", 8) \o <<"none">>

Defaults == Times("num", 16) \o Times("flag", 8)

ParallelRatedInformation == <<"num", "num", "serial">> \o Times("num", 4)

\* pv1_input_voltage is item 20, load_connected item 24.
ParallelGeneralStatus ==
  Times("num", 20) \o <<"one", "num", "num", "num", "one">> \o Times("num", 4)

TimeBucket == Times("time", 2)

Conversions ==
  [cpu_version                 |-> CpuVersion,
   rated_information           |-> RatedInformation,
   general_status              |-> GeneralStatus,
   faults_warnings             |-> FaultsWarnings,
   flags_statuses              |-> FlagsStatuses,
   defaults                    |-> Defaults,
   parallel_rated_information  |-> ParallelRatedInformation,
   parallel_general_status     |-> ParallelGeneralStatus,
   ac_charge_time_bucket       |-> TimeBucket,
   ac_supply_load_time_bucket  |-> TimeBucket]

\* The two messages that are a list of any length, kept in an array.
SelectableValues ==
  {"max_charging_current_selectable_values", "max_ac_charging_current_selectable_values"}

ListMessages == DOMAIN Conversions \cup SelectableValues

\* The indexes of a message's fields.
Fields(msg) ==
  0 .. (IF msg \in SelectableValues THEN AmpsSize ELSE Len(Conversions[msg])) - 1

\* exp_items_count of P18_PARSE_LIST_AND_RETURN; -1 is no fixed limit.
ExpectedItems(msg) == IF msg \in SelectableValues THEN -1 ELSE Len(Conversions[msg])

Kind(msg, index) ==
  IF msg \in SelectableValues THEN "num" ELSE Conversions[msg][index + 1]

-----------------------------------------------------------------------------
(* Conversions. *)

\* What a field holds before an item is stored: m = {0}.
Zero(kind) ==
  CASE kind \in {"num", "flag", "one", "none"} -> 0
    [] kind \in {"cpu", "mppt", "serial"}       -> <<>>
    [] kind = "time"                            -> [h |-> 0, m |-> 0]

\* "hhmm".  The minutes of an item of less than two characters are read from
\* behind its end, out of the buffer all items share.
TimeOf(value) ==
  {[h |-> Atoi(SubstrCopy(value, 2)), m |-> minutes] :
     minutes \in IF Len(value) < 2
                   THEN StaleMinutes
                   ELSE {Atoi(SubstrCopy(SubSeq(value, 3, Len(value)), 2))}}

\* Mutant: the valid length is believed.
SerialLengthSent(valid_length) == valid_length

\* How much of serial_number is copied: it has 32 bytes, one is for the 0.
SerialLength(valid_length) == IF valid_length < 31 THEN valid_length ELSE 31

\* What a callback may store for an item; valid_length is the field
\* serial_number_valid_length, an item that came before.
Converted(kind, value, valid_length) ==
  CASE kind = "num"    -> {Atoi(value)}
    [] kind = "flag"   -> {IF Atoi(value) > 0 THEN 1 ELSE 0}
    [] kind = "one"    -> {IF Atoi(value) = 1 THEN 1 ELSE 0}
    [] kind = "cpu"    -> {SubstrCopy(value, 5)}
    [] kind = "mppt"   -> {SubstrCopy(value, 1)}
    [] kind = "serial" -> {SubstrCopy(value, SerialLength(valid_length))}
    [] kind = "time"   -> TimeOf(value)
    [] kind = "none"   -> {Zero(kind)}
=============================================================================
