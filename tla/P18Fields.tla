------------------------------ MODULE P18Fields ------------------------------
(***************************************************************************)
(* The fields of the messages of the protocol P18 by their names: which    *)
(* field each item of a list is stored in, which columns of the data the   *)
(* other messages are cut into, and the units that p18.h gives the fields. *)
(***************************************************************************)
EXTENDS P18Unpack

\* The field that the callback of a list stores each of its items in.
RatedFields ==
  <<"ac_input_rating_voltage", "ac_input_rating_current", "ac_output_rating_voltage",
    "ac_output_rating_freq", "ac_output_rating_current", "ac_output_rating_apparent_power",
    "ac_output_rating_active_power", "battery_rating_voltage", "battery_recharge_voltage",
    "battery_redischarge_voltage", "battery_under_voltage", "battery_bulk_voltage",
    "battery_float_voltage", "battery_type", "max_ac_charging_current",
    "max_charging_current", "input_voltage_range", "output_source_priority",
    "charger_source_priority", "parallel_max_num", "machine_type", "topology",
    "output_model_setting", "solar_power_priority", "mppt">>

\* What follows the state of the load in both status messages.
DirectionFields ==
  <<"battery_power_direction", "dc_ac_power_direction", "line_power_direction">>

StatusFields ==
  <<"grid_voltage", "grid_freq", "ac_output_voltage", "ac_output_freq",
    "ac_output_apparent_power", "ac_output_active_power", "output_load_percent",
    "battery_voltage", "battery_voltage_scc", "battery_voltage_scc2",
    "battery_discharge_current", "battery_charging_current", "battery_capacity",
    "inverter_heat_sink_temp", "mppt1_charger_temp", "mppt2_charger_temp",
    "pv1_input_power", "pv2_input_power", "pv1_input_voltage", "pv2_input_voltage",
    "settings_values_changed", "mppt1_charger_status", "mppt2_charger_status",
    "load_connected">> \o DirectionFields \o <<"local_parallel_id">>

FaultsFields ==
  <<"fault_code", "line_fail", "output_circuit_short", "inverter_over_temperature",
    "fan_lock", "battery_voltage_high", "battery_low", "battery_under", "over_load",
    "eeprom_fail", "power_limit", "pv1_voltage_high", "pv2_voltage_high",
    "mppt1_overload_warning", "mppt2_overload_warning",
    "battery_too_low_to_charge_for_scc1", "battery_too_low_to_charge_for_scc2">>

FlagsFields ==
  <<"buzzer", "overload_bypass", "lcd_escape_to_default_page_after_1min_timeout",
    "overload_restart", "over_temp_restart", "backlight_on",
    "alarm_on_primary_source_interrupt", "fault_code_record", "reserved">>

DefaultsFields ==
  <<"ac_output_voltage", "ac_output_freq", "ac_input_voltage_range",
    "battery_under_voltage", "charging_float_voltage", "charging_bulk_voltage",
    "battery_recharge_voltage", "battery_redischarge_voltage", "max_charging_current",
    "max_ac_charging_current", "battery_type", "output_source_priority",
    "charger_source_priority", "solar_power_priority", "machine_type",
    "output_model_setting", "flag_buzzer", "flag_overload_restart",
    "flag_over_temp_restart", "flag_backlight_on",
    "flag_alarm_on_primary_source_interrupt", "flag_fault_code_record",
    "flag_overload_bypass", "flag_lcd_escape_to_default_page_after_1min_timeout">>

ParallelRatedFields ==
  <<"parallel_id_connection_status", "serial_number_valid_length", "serial_number",
    "charger_source_priority", "max_charging_current", "max_ac_charging_current",
    "output_model_setting">>

ParallelStatusFields ==
  <<"parallel_id_connection_status", "work_mode", "fault_code", "grid_voltage",
    "grid_freq", "ac_output_voltage", "ac_output_freq", "ac_output_apparent_power",
    "ac_output_active_power", "total_ac_output_apparent_power",
    "total_ac_output_active_power", "output_load_percent", "total_output_load_percent",
    "battery_voltage", "battery_discharge_current", "battery_charging_current",
    "total_battery_charging_current", "battery_capacity", "pv1_input_power",
    "pv2_input_power", "pv1_input_voltage", "pv2_input_voltage",
    "mppt1_charger_status", "mppt2_charger_status", "load_connected">>
  \o DirectionFields \o <<"max_temp">>

TimeFields == <<"start", "end">>

\* The messages that are a few columns of fixed width: the field, where its
\* column begins and how wide it is.  The first is a mutant: the columns behind
\* the year one character late.
CurrentTimeShifted ==
  <<<<"year", 0, 4>>, <<"month", 5, 2>>, <<"day", 7, 2>>,
    <<"hour", 9, 2>>, <<"minute", 11, 2>>, <<"second", 13, 2>>>>

CurrentTime ==
  <<<<"year", 0, 4>>, <<"month", 4, 2>>, <<"day", 6, 2>>,
    <<"hour", 8, 2>>, <<"minute", 10, 2>>, <<"second", 12, 2>>>>

\* parse_generated.
Generated == <<<<"kwh", 0, 8>>>>

\* The width of id is the length read before it.
SeriesNumber == <<<<"length", 0, 2>>, <<"id", 2, 0>>>>

Columns ==
  [protocol_id |-> <<<<"id", 0, 2>>>>, current_time |-> CurrentTime,
   total_generated |-> Generated, year_generated |-> Generated,
   month_generated |-> Generated, day_generated |-> Generated,
   series_number |-> SeriesNumber, working_mode |-> <<<<"mode", 0, 2>>>>]

Messages == ListMessages \cup DOMAIN Columns

FieldNames(message) ==
  CASE message = "cpu_version"                -> <<"main_cpu_version", "slave1_cpu_version", "slave2_cpu_version">>
    [] message = "rated_information"          -> RatedFields
    [] message = "general_status"             -> StatusFields
    [] message = "faults_warnings"            -> FaultsFields
    [] message = "flags_statuses"             -> FlagsFields
    [] message = "defaults"                   -> DefaultsFields
    [] message = "parallel_rated_information" -> ParallelRatedFields
    [] message = "parallel_general_status"    -> ParallelStatusFields
    [] message \in {"ac_charge_time_bucket", "ac_supply_load_time_bucket"} -> TimeFields
    [] message \in DOMAIN Columns             -> [k \in DOMAIN Columns[message] |-> Columns[message][k][1]]
=============================================================================
