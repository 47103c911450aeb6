------------------------------ MODULE IsvPrint ------------------------------
(***************************************************************************)
(* print.c: for every message the rows that are printed of it, and what a  *)
(* row looks like in each of the four formats.  The wording of titles and  *)
(* the padding of tables are left out: a row is named by its key.          *)
(***************************************************************************)
EXTENDS P18Fields

Formats == {"table", "parsable-table", "json", "json-w-units"}
IsTable(format) == format \in {"table", "parsable-table"}

\* Numbers: what the field is divided by, the digits behind the point that a
\* table shows of a double (an integer has none), and the unit.
Numbers ==
  [number |-> <<1, 0, "">>, amperes |-> <<1, 0, "A">>, va |-> <<1, 0, "VA">>,
   wh |-> <<1, 0, "Wh">>, wh_double |-> <<1, 2, "Wh">>, percent |-> <<1, 0, "%">>,
   celsius |-> <<1, 0, "C">>, tenth_v |-> <<10, 1, "V">>, tenth_a |-> <<10, 1, "A">>,
   tenth_hz |-> <<10, 1, "Hz">>]

\* Codes that are shown by a label, from 0.
Labels ==
  [battery_type    |-> <<"AGM", "Flooded", "User">>,
   input_range     |-> <<"Appliance", "UPS">>,
   output_priority |-> <<"Solar-Utility-Battery", "Solar-Battery-Utility">>,
   charge_priority |-> <<"Solar-First", "Solar-and-Utility", "Solar-Only">>,
   machine         |-> <<"Off-Grid-Tie", "Grid-Tie">>,
   topology        |-> <<"Transformerless", "Transformer">>,
   output_model    |-> <<"Single module", "Parallel output", "Phase 1 of three phase output",
                         "Phase 2 of three phase output", "Phase 3 of three phase">>,
   solar_priority  |-> <<"Battery-Load-Utility", "Load-Battery-Utility">>,
   mppt_status     |-> <<"Abnormal", "Not charging", "Charging">>,
   battery_power   |-> <<"Do nothing", "Charge", "Discharge">>,
   dc_ac_power     |-> <<"Do nothing", "AC/DC", "DC/AC">>,
   line_power      |-> <<"Do nothing", "Input", "Output">>,
   mode            |-> <<"Power on mode", "Standby mode", "Bypass mode", "Battery mode",
                         "Fault mode", "Hybrid mode">>,
   connection      |-> <<"Non-existent", "Existent">>,
   settings        |-> <<"Something changed", "Nothing changed">>,
   load            |-> <<"Disconnected", "Connected">>]

FaultCodes ==
  {<<1, "Fan is locked">>, <<2, "Over temperature">>, <<3, "Battery voltage is too high">>,
   <<4, "Battery voltage is too low">>, <<5, "Output short circuited or Over temperature">>,
   <<6, "Output voltage is too high">>, <<7, "Over load time out">>,
   <<8, "Bus voltage is too high">>, <<9, "Bus soft start failed">>,
   <<11, "Main relay failed">>, <<51, "Over current inverter">>,
   <<52, "Bus soft start failed">>, <<53, "Inverter soft start failed">>,
   <<54, "Self-test failed">>, <<55, "Over DC voltage on output of inverter">>,
   <<56, "Battery connection is open">>, <<57, "Current sensor failed">>,
   <<58, "Output voltage is too low">>, <<60, "Inverter negative power">>,
   <<71, "Parallel version different">>, <<72, "Output circuit failed">>,
   <<80, "CAN communication failed">>, <<81, "Parallel host line lost">>,
   <<82, "Parallel synchronized signal lost">>,
   <<83, "Parallel battery voltage detect different">>,
   <<84, "Parallel Line voltage or frequency detect different">>,
   <<85, "Parallel Line input current unbalanced">>,
   <<86, "Parallel output setting different">>}

\* p18_fault_code_label.
FaultLabel(code) ==
  IF \E fault \in FaultCodes : fault[1] = code
    THEN (CHOOSE fault \in FaultCodes : fault[1] = code)[2]
    ELSE "Unknown"

\* The label getters of p18.c.
Label(style, code) ==
  IF style = "fault" THEN FaultLabel(code)
  ELSE IF code < Len(Labels[style]) THEN Labels[style][code + 1]
  ELSE "Unknown"

-----------------------------------------------------------------------------
(* The rows of every message: the field that is shown, and how.             *)

\* A row of its own style for each of some fields.
Rows(style, fields) == [k \in DOMAIN fields |-> <<fields[k], style>>]

RatedRows ==
  <<<<"ac_input_rating_voltage", "tenth_v">>, <<"ac_input_rating_current", "tenth_a">>,
    <<"ac_output_rating_voltage", "tenth_v">>, <<"ac_output_rating_freq", "tenth_hz">>,
    <<"ac_output_rating_current", "tenth_a">>, <<"ac_output_rating_apparent_power", "va">>,
    <<"ac_output_rating_active_power", "wh">>>>
  \o Rows("tenth_v", <<"battery_rating_voltage", "battery_recharge_voltage",
       "battery_redischarge_voltage", "battery_under_voltage", "battery_bulk_voltage",
       "battery_float_voltage">>)
  \o <<<<"battery_type", "battery_type">>, <<"max_charging_current", "amperes">>,
       <<"max_ac_charging_current", "amperes">>, <<"input_voltage_range", "input_range">>,
       <<"output_source_priority", "output_priority">>,
       <<"charger_source_priority", "charge_priority">>, <<"parallel_max_num", "number">>,
       <<"machine_type", "machine">>, <<"topology", "topology">>,
       <<"output_model_setting", "output_model">>,
       <<"solar_power_priority", "solar_priority">>, <<"mppt", "text">>>>

GridRows ==
  <<<<"grid_voltage", "tenth_v">>, <<"grid_freq", "tenth_hz">>,
    <<"ac_output_voltage", "tenth_v">>, <<"ac_output_freq", "tenth_hz">>,
    <<"ac_output_apparent_power", "va">>, <<"ac_output_active_power", "wh">>>>

\* Mutant: the voltages are shown as they were sent.
PanelRowsUnscaled ==
  Rows("wh_double", <<"pv1_input_power", "pv2_input_power">>)
  \o Rows("number", <<"pv1_input_voltage", "pv2_input_voltage">>)

PanelRows ==
  Rows("wh_double", <<"pv1_input_power", "pv2_input_power">>)
  \o Rows("tenth_v", <<"pv1_input_voltage", "pv2_input_voltage">>)

ChargerRows == Rows("mppt_status", <<"mppt1_charger_status", "mppt2_charger_status">>)

DirectionRows ==
  <<<<"load_connected", "load">>, <<"battery_power_direction", "battery_power">>,
    <<"dc_ac_power_direction", "dc_ac_power">>, <<"line_power_direction", "line_power">>>>

StatusRows ==
  GridRows \o <<<<"output_load_percent", "percent">>>>
  \o Rows("tenth_v", <<"battery_voltage", "battery_voltage_scc", "battery_voltage_scc2">>)
  \o Rows("amperes", <<"battery_discharge_current", "battery_charging_current">>)
  \o <<<<"battery_capacity", "percent">>>>
  \o Rows("celsius", <<"inverter_heat_sink_temp", "mppt1_charger_temp", "mppt2_charger_temp">>)
  \o PanelRows \o <<<<"settings_values_changed", "settings">>>>
  \o ChargerRows \o DirectionRows \o <<<<"local_parallel_id", "number">>>>

FaultsRows == <<<<"fault_code", "fault">>>> \o Rows("bool", Tail(FaultsFields))

\* Mutant: the last one is forgotten.
FlagsRowsShort == Rows("flag", SubSeq(FlagsFields, 1, 7))

FlagsRows == Rows("flag", SubSeq(FlagsFields, 1, 8))

DefaultsRows ==
  <<<<"ac_output_voltage", "tenth_v">>, <<"ac_output_freq", "tenth_hz">>,
    <<"ac_input_voltage_range", "input_range">>>>
  \o Rows("tenth_v", <<"battery_under_voltage", "charging_bulk_voltage",
       "charging_float_voltage", "battery_recharge_voltage", "battery_redischarge_voltage">>)
  \o Rows("amperes", <<"max_ac_charging_current", "max_charging_current">>)
  \o <<<<"battery_type", "battery_type">>, <<"output_source_priority", "output_priority">>,
       <<"charger_source_priority", "charge_priority">>,
       <<"solar_power_priority", "solar_priority">>, <<"machine_type", "machine">>,
       <<"output_model_setting", "output_model">>>>
  \o Rows("flag", <<"flag_buzzer", "flag_overload_bypass",
       "flag_lcd_escape_to_default_page_after_1min_timeout", "flag_overload_restart",
       "flag_over_temp_restart", "flag_backlight_on",
       "flag_alarm_on_primary_source_interrupt", "flag_fault_code_record">>)

ParallelRatedRows ==
  <<<<"parallel_id_connection_status", "connection">>, <<"serial_number", "text">>,
    <<"charger_source_priority", "charge_priority">>,
    <<"max_charging_current", "amperes">>, <<"max_ac_charging_current", "amperes">>,
    <<"output_model_setting", "output_model">>>>

ParallelStatusRows ==
  <<<<"parallel_id_connection_status", "connection">>, <<"work_mode", "mode">>,
    <<"fault_code", "fault">>>> \o GridRows
  \o <<<<"total_ac_output_apparent_power", "va">>, <<"total_ac_output_active_power", "wh">>,
       <<"output_load_percent", "percent">>, <<"total_output_load_percent", "percent">>,
       <<"battery_voltage", "tenth_v">>, <<"battery_discharge_current", "amperes">>,
       <<"battery_charging_current", "amperes">>>>
  \o PanelRows \o ChargerRows \o DirectionRows \o <<<<"max_temp", "number">>>>

MessageRows(message) ==
  CASE message = "rated_information"          -> RatedRows
    [] message = "general_status"             -> StatusRows
    [] message = "faults_warnings"            -> FaultsRows
    [] message = "flags_statuses"             -> FlagsRows
    [] message = "defaults"                   -> DefaultsRows
    [] message = "parallel_rated_information" -> ParallelRatedRows
    [] message = "parallel_general_status"    -> ParallelStatusRows
    [] message = "cpu_version"                -> Rows("text", FieldNames(message))
    [] message = "series_number"              -> <<<<"id", "text">>>>
    [] message = "working_mode"               -> <<<<"mode", "mode">>>>
    [] message \in {"ac_charge_time_bucket", "ac_supply_load_time_bucket"} -> Rows("time", TimeFields)
    [] OTHER                                  -> Rows("number", FieldNames(message))

\* The keys that are not the field's own name.
Renamed ==
  [main_cpu_version |-> "main_v", slave1_cpu_version |-> "slave1_v",
   slave2_cpu_version |-> "slave2_v", start |-> "start_time", end |-> "end_time",
   work_mode |-> "mode", charging_bulk_voltage |-> "battery_bulk_voltage",
   charging_float_voltage |-> "battery_float_voltage", flag_buzzer |-> "buzzer_flag",
   flag_overload_bypass |-> "overload_bypass_flag",
   flag_lcd_escape_to_default_page_after_1min_timeout |->
     "lcd_escape_to_default_page_after_1min_timeout_flag",
   flag_overload_restart |-> "overload_restart_flag",
   flag_over_temp_restart |-> "over_temp_restart_flag",
   flag_backlight_on |-> "backlight_on_flag",
   flag_alarm_on_primary_source_interrupt |-> "alarm_on_primary_source_interrupt_flag",
   flag_fault_code_record |-> "fault_code_record_flag"]

Key(message, field) ==
  CASE message = "day_generated"                   -> "wh"
    [] message = "series_number" /\ field = "id"   -> "sn"
    [] field \in DOMAIN Renamed                    -> Renamed[field]
    [] OTHER                                       -> field

-----------------------------------------------------------------------------
(* One row in a format.  quotes is how many quotation marks a text has in   *)
(* print, and unit is "" where none is printed.                             *)

\* The digits behind the point.  A double has two in JSON.
Decimals(style, format) ==
  IF IsTable(format) \/ Numbers[style][2] = 0 THEN Numbers[style][2] ELSE 2

Unit(style, format) == IF format = "json" THEN "" ELSE Numbers[style][3]

\* number is what is printed, without the point.
NumberLine(key, style, value, format) ==
  LET decimals == Decimals(style, format)
  IN  [key |-> key, number |-> (value * 10^decimals) \div Numbers[style][1],
       decimals |-> decimals, unit |-> Unit(style, format)]

Colon == 11

\* "%02d:%02d".
ClockText(time) == Printed(time.h, 2) \o <<Colon>> \o Printed(time.m, 2)

\* Mutant: in JSON, yes is 0.
AnswerSwapped(style, value, format) ==
  IF ~IsTable(format)    THEN IF value = 0 THEN "true" ELSE "false"
  ELSE IF style = "bool" THEN IF value = 1 THEN "Yes" ELSE "No"
  ELSE                        IF value = 1 THEN "Enabled" ELSE "Disabled"

\* A truth value in words.
Answer(style, value, format) ==
  IF ~IsTable(format)    THEN IF value = 1 THEN "true" ELSE "false"
  ELSE IF style = "bool" THEN IF value = 1 THEN "Yes" ELSE "No"
  ELSE                        IF value = 1 THEN "Enabled" ELSE "Disabled"

\* What stands in a row that is not a number.
Wording(style, value, format) ==
  CASE style = "text"             -> value
    [] style = "time"             -> ClockText(value)
    [] style \in {"bool", "flag"} -> Answer(style, value, format)
    [] OTHER                      -> Label(style, value)

\* A space behind the first character; of what is printed only labels have any.
HasSpace(style, text) ==
  style \notin {"text", "time"} /\ \E k \in 2 .. Len(text) : SubSeq(text, k, k) = " "

\* Mutant: the array v of another size.
PrintedCharsFewer == 23

\* snprintf(v, 32, ...): what a table has room for.
PrintedChars == 31

\* How many quotation marks stand around a text.  In a table the one behind it
\* is lost if there is no room for it.
Quotes(style, text, format) ==
  IF ~IsTable(format) THEN IF style \in {"bool", "flag"} THEN 0 ELSE 2
  ELSE IF format = "table" \/ ~HasSpace(style, text) THEN 0
  ELSE IF Len(text) + 2 <= PrintedChars THEN 2 ELSE 1

TextLine(key, style, value, format) ==
  LET text   == Wording(style, value, format)
      quotes == Quotes(style, text, format)
      room   == IF quotes = 0 THEN PrintedChars ELSE PrintedChars - 1
  IN  [key |-> key, text |-> IF IsTable(format) THEN SubstrCopy(text, room) ELSE text,
       quotes |-> quotes]

IsNumber(style) == style \in DOMAIN Numbers

Line(key, style, value, format) ==
  IF IsNumber(style) THEN NumberLine(key, style, value, format)
                     ELSE TextLine(key, style, value, format)
=============================================================================
