--------------------------- MODULE IsvReplyProofs ---------------------------
(***************************************************************************)
(* Theorems about IsvReply for every value of its constants: replies with  *)
(* any items and data of digits, of any length, and an array of any size.  *)
(***************************************************************************)
EXTENDS IsvReply, P18TextProofs, FiniteSetTheorems

-----------------------------------------------------------------------------
(* The tables of the messages. *)

LEMMA ColumnMessages ==
  DOMAIN Columns =
    {"protocol_id", "current_time", "total_generated", "year_generated", "month_generated",
     "day_generated", "series_number", "working_mode"}
  BY DEF Columns

LEMMA ListMessageNames ==
  DOMAIN Conversions =
    {"cpu_version", "rated_information", "general_status", "faults_warnings",
     "flags_statuses", "defaults", "parallel_rated_information",
     "parallel_general_status", "ac_charge_time_bucket", "ac_supply_load_time_bucket"}
  BY DEF Conversions

\* A message is of one of three kinds.
LEMMA KindsOfMessages ==
  /\ \A message \in DOMAIN Columns : message \notin ListMessages
  /\ \A message \in DOMAIN Conversions : message \notin SelectableValues
  BY ColumnMessages, ListMessageNames DEF ListMessages, SelectableValues

LEMMA FieldTables ==
  /\ FieldNames("cpu_version") =
       <<"main_cpu_version", "slave1_cpu_version", "slave2_cpu_version">>
  /\ FieldNames("rated_information") = RatedFields
  /\ FieldNames("general_status") = StatusFields
  /\ FieldNames("faults_warnings") = FaultsFields
  /\ FieldNames("flags_statuses") = FlagsFields
  /\ FieldNames("defaults") = DefaultsFields
  /\ FieldNames("parallel_rated_information") = ParallelRatedFields
  /\ FieldNames("parallel_general_status") = ParallelStatusFields
  /\ FieldNames("ac_charge_time_bucket") = TimeFields
  /\ FieldNames("ac_supply_load_time_bucket") = TimeFields
  BY ColumnMessages DEF FieldNames

LEMMA ConversionTables ==
  /\ Conversions["cpu_version"] = CpuVersion
  /\ Conversions["rated_information"] = RatedInformation
  /\ Conversions["general_status"] = GeneralStatus
  /\ Conversions["faults_warnings"] = FaultsWarnings
  /\ Conversions["flags_statuses"] = FlagsStatuses
  /\ Conversions["defaults"] = Defaults
  /\ Conversions["parallel_rated_information"] = ParallelRatedInformation
  /\ Conversions["parallel_general_status"] = ParallelGeneralStatus
  /\ Conversions["ac_charge_time_bucket"] = TimeBucket
  /\ Conversions["ac_supply_load_time_bucket"] = TimeBucket
  BY DEF Conversions

FieldKinds == {"num", "flag", "one", "cpu", "mppt", "serial", "time", "none"}

\* A list has as many conversions as fields, and no field twice.
Matches(kinds, fields) ==
  /\ Len(kinds) \in Nat
  /\ DOMAIN kinds = 1 .. Len(kinds) /\ DOMAIN fields = 1 .. Len(kinds)
  /\ \A k \in DOMAIN kinds : kinds[k] \in FieldKinds
  /\ \A j, k \in DOMAIN fields : fields[j] = fields[k] => j = k

LEMMA ListTables ==
  ASSUME NEW message \in DOMAIN Conversions
  PROVE  Matches(Conversions[message], FieldNames(message))
<1> USE DEF Matches, FieldKinds, Times
<1>1. Matches(CpuVersion, <<"main_cpu_version", "slave1_cpu_version", "slave2_cpu_version">>)
  BY DEF CpuVersion
<1>2. Matches(RatedInformation, RatedFields)
  BY DEF RatedInformation, RatedFields
<1>3. Matches(GeneralStatus, StatusFields)
  BY DEF GeneralStatus, StatusFields, DirectionFields
<1>4. Matches(FaultsWarnings, FaultsFields)
  BY DEF FaultsWarnings, FaultsFields
<1>5. Matches(FlagsStatuses, FlagsFields)
  BY DEF FlagsStatuses, FlagsFields
<1>6. Matches(Defaults, DefaultsFields)
  BY DEF Defaults, DefaultsFields
<1>7. Matches(ParallelRatedInformation, ParallelRatedFields)
  BY DEF ParallelRatedInformation, ParallelRatedFields
<1>8. Matches(ParallelGeneralStatus, ParallelStatusFields)
  BY DEF ParallelGeneralStatus, ParallelStatusFields, DirectionFields
<1>9. Matches(TimeBucket, TimeFields)
  BY DEF TimeBucket, TimeFields
<1> HIDE DEF Matches
<1> QED
  BY <1>1, <1>2, <1>3, <1>4, <1>5, <1>6, <1>7, <1>8, <1>9, ListMessageNames, FieldTables,
     ConversionTables

\* Columns have a place and a width.
LEMMA ColumnTables ==
  ASSUME NEW message \in DOMAIN Columns
  PROVE  /\ Len(Columns[message]) \in Nat
         /\ DOMAIN Columns[message] = 1 .. Len(Columns[message])
         /\ \A k \in DOMAIN Columns[message] :
              Columns[message][k][2] \in Nat /\ Columns[message][k][3] \in Nat
         /\ \A j, k \in DOMAIN Columns[message] :
              Columns[message][j][1] = Columns[message][k][1] => j = k
         /\ FieldNames(message) =
              [k \in DOMAIN Columns[message] |-> Columns[message][k][1]]
<1> DEFINE Ok(columns) ==
      /\ Len(columns) \in Nat
      /\ DOMAIN columns = 1 .. Len(columns)
      /\ \A k \in DOMAIN columns : columns[k][2] \in Nat /\ columns[k][3] \in Nat
      /\ \A j, k \in DOMAIN columns : columns[j][1] = columns[k][1] => j = k
<1>1. Ok(CurrentTime)
  BY DEF CurrentTime
<1>2. Ok(Generated)
  BY DEF Generated
<1>3. Ok(SeriesNumber)
  BY DEF SeriesNumber
<1>4. Ok(<<<<"id", 0, 2>>>>) /\ Ok(<<<<"mode", 0, 2>>>>)
  OBVIOUS
<1> HIDE DEF Ok
<1>5. Ok(Columns[message])
  BY <1>1, <1>2, <1>3, <1>4 DEF Columns
<1>6. FieldNames(message) = [k \in DOMAIN Columns[message] |-> Columns[message][k][1]]
  BY ColumnMessages DEF FieldNames
<1> QED BY <1>5, <1>6 DEF Ok

\* Only the second column of a series number is text.
LEMMA SeriesColumn ==
  /\ ~(Columns["series_number"][1][1] = "id")
  /\ Len(Columns["series_number"]) = 2
  BY DEF Columns, SeriesNumber

-----------------------------------------------------------------------------
(* The rows of the messages. *)

LEMMA RowTables ==
  /\ MessageRows("rated_information") = RatedRows
  /\ MessageRows("general_status") = StatusRows
  /\ MessageRows("faults_warnings") = FaultsRows
  /\ MessageRows("flags_statuses") = FlagsRows
  /\ MessageRows("defaults") = DefaultsRows
  /\ MessageRows("parallel_rated_information") = ParallelRatedRows
  /\ MessageRows("parallel_general_status") = ParallelStatusRows
  /\ MessageRows("cpu_version") =
       Rows("text", <<"main_cpu_version", "slave1_cpu_version", "slave2_cpu_version">>)
  /\ MessageRows("ac_charge_time_bucket") = Rows("time", TimeFields)
  /\ MessageRows("ac_supply_load_time_bucket") = Rows("time", TimeFields)
  /\ MessageRows("series_number") = <<<<"id", "text">>>>
  /\ MessageRows("working_mode") = <<<<"mode", "mode">>>>
  /\ \A message \in {"protocol_id", "current_time", "total_generated", "year_generated",
                     "month_generated", "day_generated"} :
       MessageRows(message) = Rows("number", FieldNames(message))
  BY FieldTables DEF MessageRows

\* The rows are fields of the message: the k-th field is row number row[k], or
\* none, and every row is of one field.
Ordered(rows, fields, row) ==
  /\ Len(rows) \in Nat /\ DOMAIN rows = 1 .. Len(rows)
  /\ \A j \in DOMAIN rows : \E k \in DOMAIN fields : row[k] = j
  /\ \A k \in DOMAIN fields :
       row[k] # 0 => row[k] \in DOMAIN rows /\ rows[row[k]][1] = fields[k]

LEMMA RowsOrdered ==
  /\ Ordered(RatedRows, RatedFields,
       [k \in 1 .. 25 |-> IF k = 15 THEN 16 ELSE IF k = 16 THEN 15 ELSE k])
  /\ Ordered(StatusRows, StatusFields, [k \in 1 .. 28 |-> k])
  /\ Ordered(FaultsRows, FaultsFields, [k \in 1 .. 17 |-> k])
  /\ Ordered(FlagsRows, FlagsFields, [k \in 1 .. 9 |-> k % 9])
  /\ Ordered(DefaultsRows, DefaultsFields,
       <<1, 2, 3, 4, 6, 5, 7, 8, 10, 9, 11, 12, 13, 14, 15, 16, 17, 20, 21, 22, 23, 24, 18,
         19>>)
  /\ Ordered(ParallelRatedRows, ParallelRatedFields, <<1, 0, 2, 3, 4, 5, 6>>)
  /\ Ordered(ParallelStatusRows, ParallelStatusFields,
       [k \in 1 .. 29 |-> IF k <= 16 THEN k ELSE IF k <= 18 THEN 0 ELSE k - 2])
<1>1. Ordered(RatedRows, RatedFields,
        [k \in 1 .. 25 |-> IF k = 15 THEN 16 ELSE IF k = 16 THEN 15 ELSE k])
  BY DEF Ordered, RatedRows, RatedFields, Rows
<1>2. Ordered(StatusRows, StatusFields, [k \in 1 .. 28 |-> k])
  <2> USE DEF StatusRows, GridRows, Rows, PanelRows, ChargerRows, DirectionRows,
          StatusFields, DirectionFields
  <2>1. Len(StatusRows) = 28 /\ DOMAIN StatusRows = 1 .. 28 /\ DOMAIN StatusFields = 1 .. 28
    OBVIOUS
  <2>2. \A k \in 1 .. 28 : StatusRows[k][1] = StatusFields[k]
    OBVIOUS
  <2> HIDE DEF StatusRows, StatusFields
  <2> QED BY <2>1, <2>2 DEF Ordered
<1>3. Ordered(FaultsRows, FaultsFields, [k \in 1 .. 17 |-> k])
  BY DEF Ordered, FaultsRows, FaultsFields, Rows
<1>4. Ordered(FlagsRows, FlagsFields, [k \in 1 .. 9 |-> k % 9])
  BY DEF Ordered, FlagsRows, FlagsFields, Rows
<1>5. Ordered(DefaultsRows, DefaultsFields,
        <<1, 2, 3, 4, 6, 5, 7, 8, 10, 9, 11, 12, 13, 14, 15, 16, 17, 20, 21, 22, 23, 24, 18,
          19>>)
  BY DEF Ordered, DefaultsRows, DefaultsFields, Rows
<1>6. Ordered(ParallelRatedRows, ParallelRatedFields, <<1, 0, 2, 3, 4, 5, 6>>)
  BY DEF Ordered, ParallelRatedRows, ParallelRatedFields
<1>7. Ordered(ParallelStatusRows, ParallelStatusFields,
        [k \in 1 .. 29 |-> IF k <= 16 THEN k ELSE IF k <= 18 THEN 0 ELSE k - 2])
  <2> DEFINE row == [k \in 1 .. 29 |-> IF k <= 16 THEN k ELSE IF k <= 18 THEN 0 ELSE k - 2]
  <2> USE DEF ParallelStatusRows, GridRows, Rows, PanelRows, ChargerRows, DirectionRows,
          ParallelStatusFields, DirectionFields
  <2>1. /\ Len(ParallelStatusRows) = 27 /\ DOMAIN ParallelStatusRows = 1 .. 27
        /\ DOMAIN ParallelStatusFields = 1 .. 29
    OBVIOUS
  <2>2. \A k \in 1 .. 16 : ParallelStatusRows[k][1] = ParallelStatusFields[k]
    OBVIOUS
  <2>3. \A k \in 19 .. 29 : ParallelStatusRows[k - 2][1] = ParallelStatusFields[k]
    OBVIOUS
  <2> HIDE DEF ParallelStatusRows, ParallelStatusFields
  <2>4. ASSUME NEW j \in 1 .. 27 PROVE \E k \in 1 .. 29 : row[k] = j
    <3>1. CASE j <= 16
      <4>1. row[j] = j
        BY <3>1
      <4> QED BY <3>1, <4>1
    <3>2. CASE j > 16
      <4>1. j + 2 \in 1 .. 29 /\ row[j + 2] = j
        BY <3>2
      <4> QED BY <4>1
    <3> QED BY <3>1, <3>2
  <2> QED BY <2>1, <2>2, <2>3, <2>4, SMTT(40) DEF Ordered
<1> QED BY <1>1, <1>2, <1>3, <1>4, <1>5, <1>6, <1>7

\* Rows of one style, in the order of the fields.
LEMMA SameOrder ==
  ASSUME NEW style, NEW fields, Len(fields) \in Nat, DOMAIN fields = 1 .. Len(fields)
  PROVE  Ordered(Rows(style, fields), fields, [k \in DOMAIN fields |-> k])
  BY DEF Ordered, Rows

\* The fields that are not numbers, except where the code stores a truth value
\* for a voltage.
NonNumbers ==
  {"main_cpu_version", "slave1_cpu_version", "slave2_cpu_version", "mppt", "serial_number",
   "settings_values_changed", "load_connected", "start", "end"}
  \cup Range(Tail(FaultsFields)) \cup Range(FlagsFields)
  \cup Range(SubSeq(DefaultsFields, 17, 24))

\* A row that prints a number prints a field that is one, divided and with the
\* unit as p18.h says, and a time is printed as one.
Shows(field, style) ==
  /\ IsNumber(style) =>
       /\ field \notin NonNumbers
       /\ Parts(field) = Numbers[style][1]
       /\ field \in WrongUnits \/ DeclaredUnit(field) = Numbers[style][3]
  /\ style = "time" <=> field \in {"start", "end"}

LEMMA NonNumbersAre ==
  NonNumbers =
    {"main_cpu_version", "slave1_cpu_version", "slave2_cpu_version", "mppt",
     "serial_number", "settings_values_changed", "load_connected", "start", "end",
     "line_fail", "output_circuit_short", "inverter_over_temperature", "fan_lock",
     "battery_voltage_high", "battery_low", "battery_under", "over_load", "eeprom_fail",
     "power_limit", "pv1_voltage_high", "pv2_voltage_high", "mppt1_overload_warning",
     "mppt2_overload_warning", "battery_too_low_to_charge_for_scc1",
     "battery_too_low_to_charge_for_scc2", "buzzer", "overload_bypass",
     "lcd_escape_to_default_page_after_1min_timeout", "overload_restart",
     "over_temp_restart", "backlight_on", "alarm_on_primary_source_interrupt",
     "fault_code_record", "reserved", "flag_buzzer", "flag_overload_restart",
     "flag_over_temp_restart", "flag_backlight_on",
     "flag_alarm_on_primary_source_interrupt", "flag_fault_code_record",
     "flag_overload_bypass", "flag_lcd_escape_to_default_page_after_1min_timeout"}
<1>1. Range(Tail(FaultsFields)) =
        {"line_fail", "output_circuit_short", "inverter_over_temperature", "fan_lock",
         "battery_voltage_high", "battery_low", "battery_under", "over_load",
         "eeprom_fail", "power_limit", "pv1_voltage_high", "pv2_voltage_high",
         "mppt1_overload_warning", "mppt2_overload_warning",
         "battery_too_low_to_charge_for_scc1", "battery_too_low_to_charge_for_scc2"}
  BY DEF FaultsFields, Range
<1>2. Range(FlagsFields) =
        {"buzzer", "overload_bypass", "lcd_escape_to_default_page_after_1min_timeout",
         "overload_restart", "over_temp_restart", "backlight_on",
         "alarm_on_primary_source_interrupt", "fault_code_record", "reserved"}
  BY DEF FlagsFields, Range
<1>3. Range(SubSeq(DefaultsFields, 17, 24)) =
        {"flag_buzzer", "flag_overload_restart", "flag_over_temp_restart",
         "flag_backlight_on", "flag_alarm_on_primary_source_interrupt",
         "flag_fault_code_record", "flag_overload_bypass",
         "flag_lcd_escape_to_default_page_after_1min_timeout"}
  BY DEF DefaultsFields, Range
<1> QED BY <1>1, <1>2, <1>3 DEF NonNumbers

LEMMA StylesShow ==
  /\ \A field \in TenthVolts \cup {"ac_output_rating_voltage"} : Shows(field, "tenth_v")
  /\ \A field \in {"ac_input_rating_current", "ac_output_rating_current"} : Shows(field, "tenth_a")
  /\ \A field \in TenthHertz : Shows(field, "tenth_hz")
  /\ \A field \in VoltAmperes : Shows(field, "va")
  /\ \A field \in Watts : Shows(field, "wh") /\ Shows(field, "wh_double")
  /\ \A field \in Amperes : Shows(field, "amperes")
  /\ \A field \in Percents : Shows(field, "percent")
  /\ \A field \in Degrees \ {"max_temp"} : Shows(field, "celsius")
  /\ \A field \in {"fault_code", "parallel_max_num", "local_parallel_id", "max_temp", "id", "year",
                    "month", "day", "hour", "minute", "second", "kwh"} : Shows(field, "number")
  /\ Shows("start", "time") /\ Shows("end", "time")
  /\ \A style : ~IsNumber(style) /\ style # "time" =>
       \A field : field \notin {"start", "end"} => Shows(field, style)
<1> USE NonNumbersAre DEF IsNumber, Numbers
<1> USE DEF Parts, DeclaredUnit, WrongUnits, Watts, TenthVolts, TenthAmperes, TenthHertz, Amperes,
        VoltAmperes, Percents, Degrees
<1>1. \A field \in TenthVolts \cup {"ac_output_rating_voltage"} : Shows(field, "tenth_v")
  BY DEF Shows
<1>2. \A field \in {"ac_input_rating_current", "ac_output_rating_current"} : Shows(field, "tenth_a")
  BY DEF Shows
<1>3. \A field \in TenthHertz : Shows(field, "tenth_hz")
  BY DEF Shows
<1>4. \A field \in VoltAmperes : Shows(field, "va")
  BY DEF Shows
<1>5. \A field \in Watts : Shows(field, "wh") /\ Shows(field, "wh_double")
  BY DEF Shows
<1>6. \A field \in Amperes : Shows(field, "amperes")
  BY DEF Shows
<1>7. \A field \in Percents : Shows(field, "percent")
  BY DEF Shows
<1>8. \A field \in Degrees \ {"max_temp"} : Shows(field, "celsius")
  BY DEF Shows
<1>9. \A field \in {"fault_code", "parallel_max_num", "local_parallel_id", "max_temp", "id", "year",
                    "month", "day", "hour", "minute", "second", "kwh"} : Shows(field, "number")
  BY DEF Shows
<1>10. Shows("start", "time") /\ Shows("end", "time")
  BY DEF Shows
<1>11. \A style : ~IsNumber(style) /\ style # "time" =>
       \A field : field \notin {"start", "end"} => Shows(field, style)
  BY DEF Shows
<1> QED BY <1>1, <1>2, <1>3, <1>4, <1>5, <1>6, <1>7, <1>8, <1>9, <1>10, <1>11


LEMMA StatusShows ==
  /\ Shows("grid_voltage", "tenth_v") /\ Shows("ac_output_voltage", "tenth_v")
     /\ Shows("battery_voltage", "tenth_v") /\ Shows("battery_voltage_scc", "tenth_v")
     /\ Shows("battery_voltage_scc2", "tenth_v") /\ Shows("pv1_input_voltage", "tenth_v")
     /\ Shows("pv2_input_voltage", "tenth_v")
  /\ Shows("grid_freq", "tenth_hz") /\ Shows("ac_output_freq", "tenth_hz")
  /\ Shows("ac_output_apparent_power", "va")
     /\ Shows("total_ac_output_apparent_power", "va")
  /\ Shows("ac_output_active_power", "wh") /\ Shows("total_ac_output_active_power", "wh")
  /\ Shows("output_load_percent", "percent") /\ Shows("battery_capacity", "percent")
     /\ Shows("total_output_load_percent", "percent")
  /\ Shows("battery_discharge_current", "amperes")
     /\ Shows("battery_charging_current", "amperes")
  /\ Shows("inverter_heat_sink_temp", "celsius") /\ Shows("mppt1_charger_temp", "celsius")
     /\ Shows("mppt2_charger_temp", "celsius")
  /\ Shows("pv1_input_power", "wh_double") /\ Shows("pv2_input_power", "wh_double")
  /\ Shows("settings_values_changed", "settings")
  /\ Shows("mppt1_charger_status", "mppt_status")
     /\ Shows("mppt2_charger_status", "mppt_status")
  /\ Shows("load_connected", "load")
  /\ Shows("battery_power_direction", "battery_power")
  /\ Shows("dc_ac_power_direction", "dc_ac_power")
  /\ Shows("line_power_direction", "line_power")
  /\ Shows("local_parallel_id", "number") /\ Shows("max_temp", "number")
  /\ Shows("parallel_id_connection_status", "connection")
  /\ Shows("work_mode", "mode")
  /\ Shows("fault_code", "fault")
<1> USE DEF IsNumber, Numbers, Watts, TenthVolts, TenthAmperes, TenthHertz, Amperes,
        VoltAmperes, Percents, Degrees
<1> QED BY StylesShow

AllShow(rows) == \A j \in DOMAIN rows : Shows(rows[j][1], rows[j][2])

LEMMA RowsShow ==
  /\ AllShow(RatedRows) /\ AllShow(StatusRows) /\ AllShow(FaultsRows) /\ AllShow(FlagsRows)
  /\ AllShow(DefaultsRows) /\ AllShow(ParallelRatedRows) /\ AllShow(ParallelStatusRows)
<1>1. AllShow(StatusRows)
  <2>1. \A j \in 1 .. 28 : Shows(StatusRows[j][1], StatusRows[j][2])
    BY StatusShows DEF StatusRows, GridRows, Rows, PanelRows, ChargerRows, DirectionRows
  <2>2. DOMAIN StatusRows = 1 .. 28
    BY DEF StatusRows, GridRows, Rows, PanelRows, ChargerRows, DirectionRows
  <2> QED BY <2>1, <2>2 DEF AllShow
<1>2. AllShow(ParallelStatusRows)
  <2>1. \A j \in 1 .. 27 : Shows(ParallelStatusRows[j][1], ParallelStatusRows[j][2])
    BY StatusShows
    DEF ParallelStatusRows, GridRows, Rows, PanelRows, ChargerRows, DirectionRows
  <2>2. DOMAIN ParallelStatusRows = 1 .. 27
    BY DEF ParallelStatusRows, GridRows, Rows, PanelRows, ChargerRows, DirectionRows
  <2> QED BY <2>1, <2>2 DEF AllShow
<1>3. /\ DOMAIN RatedRows = 1 .. 25 /\ DOMAIN FaultsRows = 1 .. 17 /\ DOMAIN FlagsRows = 1 .. 8
      /\ DOMAIN DefaultsRows = 1 .. 24 /\ DOMAIN ParallelRatedRows = 1 .. 6
  BY DEF RatedRows, FaultsRows, FaultsFields, FlagsRows, FlagsFields, DefaultsRows,
     ParallelRatedRows, Rows
<1> USE StylesShow DEF IsNumber, Numbers, Watts, TenthVolts, TenthAmperes, TenthHertz, Amperes,
        VoltAmperes, Percents, Degrees
<1>4. \A j \in 1 .. 25 : Shows(RatedRows[j][1], RatedRows[j][2])
  BY SMTT(40) DEF RatedRows, Rows
<1>5. \A j \in 1 .. 17 : Shows(FaultsRows[j][1], FaultsRows[j][2])
  BY DEF FaultsRows, Rows, FaultsFields
<1>6. \A j \in 1 .. 8 : Shows(FlagsRows[j][1], FlagsRows[j][2])
  BY DEF FlagsRows, FlagsFields, Rows
<1>7. \A j \in 1 .. 24 : Shows(DefaultsRows[j][1], DefaultsRows[j][2])
  BY SMTT(40) DEF DefaultsRows, Rows
<1>8. \A j \in 1 .. 6 : Shows(ParallelRatedRows[j][1], ParallelRatedRows[j][2])
  BY DEF ParallelRatedRows
<1>9. /\ AllShow(RatedRows) /\ AllShow(FaultsRows) /\ AllShow(FlagsRows)
      /\ AllShow(DefaultsRows) /\ AllShow(ParallelRatedRows)
  BY ONLY <1>3, <1>4, <1>5, <1>6, <1>7, <1>8 DEF AllShow
<1> QED BY <1>1, <1>2, <1>9

\* Every field but the omitted ones has a row, and every row shows one.
RowsAre(message, rows, fields) ==
  /\ AllShow(rows)
  /\ \E row :
       /\ Ordered(rows, fields, row)
       /\ \A k \in DOMAIN fields : row[k] = 0 <=> <<message, fields[k]>> \in Omitted

LEMMA MessageTables ==
  ASSUME NEW message \in DOMAIN Conversions \cup DOMAIN Columns
  PROVE  RowsAre(message, MessageRows(message), FieldNames(message))
<1>1. CASE message = "rated_information"
  <2> DEFINE row == [k \in 1 .. 25 |-> IF k = 15 THEN 16 ELSE IF k = 16 THEN 15 ELSE k]
  <2>1. \A k \in 1 .. 25 : <<message, RatedFields[k]>> \in Omitted <=> row[k] = 0
    BY <1>1 DEF Omitted
  <2>2. DOMAIN RatedFields = 1 .. 25
    BY DEF RatedFields
  <2>3. Ordered(RatedRows, RatedFields, row)
    BY RowsOrdered
  <2> HIDE DEF row
  <2> QED BY <1>1, <2>1, <2>2, <2>3, RowTables, FieldTables, RowsShow DEF RowsAre
<1>2. CASE message = "general_status"
  <2> DEFINE row == [k \in 1 .. 28 |-> k]
  <2>1. \A k \in 1 .. 28 : <<message, StatusFields[k]>> \in Omitted <=> row[k] = 0
    BY <1>2 DEF Omitted
  <2>2. DOMAIN StatusFields = 1 .. 28
    BY DEF StatusFields, DirectionFields
  <2>3. Ordered(StatusRows, StatusFields, row)
    BY RowsOrdered
  <2> HIDE DEF row
  <2> QED BY <1>2, <2>1, <2>2, <2>3, RowTables, FieldTables, RowsShow DEF RowsAre
<1>3. CASE message = "faults_warnings"
  <2> DEFINE row == [k \in 1 .. 17 |-> k]
  <2>1. \A k \in 1 .. 17 : <<message, FaultsFields[k]>> \in Omitted <=> row[k] = 0
    BY <1>3 DEF Omitted
  <2>2. DOMAIN FaultsFields = 1 .. 17
    BY DEF FaultsFields
  <2>3. Ordered(FaultsRows, FaultsFields, row)
    BY RowsOrdered
  <2> HIDE DEF row
  <2> QED BY <1>3, <2>1, <2>2, <2>3, RowTables, FieldTables, RowsShow DEF RowsAre
<1>4. CASE message = "flags_statuses"
  <2> DEFINE row == [k \in 1 .. 9 |-> k % 9]
  <2>1. \A k \in 1 .. 9 : <<message, FlagsFields[k]>> \in Omitted <=> row[k] = 0
    BY <1>4 DEF Omitted, FlagsFields
  <2>2. DOMAIN FlagsFields = 1 .. 9
    BY DEF FlagsFields
  <2>3. Ordered(FlagsRows, FlagsFields, row)
    BY RowsOrdered
  <2> HIDE DEF row
  <2> QED BY <1>4, <2>1, <2>2, <2>3, RowTables, FieldTables, RowsShow DEF RowsAre
<1>5. CASE message = "defaults"
  <2> DEFINE row == <<1, 2, 3, 4, 6, 5, 7, 8, 10, 9, 11, 12, 13, 14, 15, 16, 17, 20, 21, 22, 23,
                      24, 18, 19>>
  <2>1. \A k \in 1 .. 24 : <<message, DefaultsFields[k]>> \notin Omitted /\ row[k] # 0
    BY <1>5 DEF Omitted
  <2>2. DOMAIN DefaultsFields = 1 .. 24
    BY DEF DefaultsFields
  <2>3. Ordered(DefaultsRows, DefaultsFields, row)
    BY RowsOrdered
  <2> HIDE DEF row
  <2> QED BY <1>5, <2>1, <2>2, <2>3, RowTables, FieldTables, RowsShow DEF RowsAre
<1>6. CASE message = "parallel_rated_information"
  <2> DEFINE row == <<1, 0, 2, 3, 4, 5, 6>>
  <2>1. \A k \in 1 .. 7 : <<message, ParallelRatedFields[k]>> \in Omitted <=> row[k] = 0
    BY <1>6 DEF Omitted, ParallelRatedFields
  <2>2. DOMAIN ParallelRatedFields = 1 .. 7
    BY DEF ParallelRatedFields
  <2>3. Ordered(ParallelRatedRows, ParallelRatedFields, row)
    BY RowsOrdered
  <2> HIDE DEF row
  <2> QED BY <1>6, <2>1, <2>2, <2>3, RowTables, FieldTables, RowsShow DEF RowsAre
<1>7. CASE message = "parallel_general_status"
  <2> DEFINE row == [k \in 1 .. 29 |-> IF k <= 16 THEN k ELSE IF k <= 18 THEN 0 ELSE k - 2]
  <2>1. \A k \in 1 .. 29 : <<message, ParallelStatusFields[k]>> \in Omitted <=> row[k] = 0
    BY <1>7 DEF Omitted, ParallelStatusFields, DirectionFields
  <2>2. DOMAIN ParallelStatusFields = 1 .. 29
    BY DEF ParallelStatusFields, DirectionFields
  <2>3. Ordered(ParallelStatusRows, ParallelStatusFields, row)
    BY RowsOrdered
  <2> HIDE DEF row
  <2> QED BY <1>7, <2>1, <2>2, <2>3, RowTables, FieldTables, RowsShow DEF RowsAre
<1>8. CASE message \in {"cpu_version", "ac_charge_time_bucket", "ac_supply_load_time_bucket"}
  <2> DEFINE fields == FieldNames(message)
             style == IF message = "cpu_version" THEN "text" ELSE "time"
  <2>1. MessageRows(message) = Rows(style, fields)
    BY <1>8, RowTables, FieldTables
  <2>2. /\ Len(fields) \in Nat /\ DOMAIN fields = 1 .. Len(fields)
        /\ \A k \in DOMAIN fields : <<message, fields[k]>> \notin Omitted
        /\ \A k \in DOMAIN fields : Shows(fields[k], style)
    <3>1. CASE message = "cpu_version"
      BY <3>1, FieldTables, StylesShow DEF Omitted, IsNumber, Numbers
    <3>2. CASE message # "cpu_version"
      BY <1>8, <3>2, FieldTables, StylesShow DEF Omitted, TimeFields
    <3> QED BY <3>1, <3>2
  <2> HIDE DEF fields, style
  <2>3. Ordered(Rows(style, fields), fields, [k \in DOMAIN fields |-> k])
    BY <2>2, SameOrder
  <2>4. AllShow(Rows(style, fields))
    BY <2>2 DEF AllShow, Rows
  <2> QED BY <2>1, <2>2, <2>3, <2>4 DEF RowsAre, fields
<1>9. CASE message \in {"protocol_id", "current_time", "total_generated", "year_generated",
                        "month_generated", "day_generated"}
  <2> DEFINE fields == FieldNames(message)
  <2>1. MessageRows(message) = Rows("number", fields)
    BY <1>9, RowTables
  <2>2. /\ Len(fields) \in Nat /\ DOMAIN fields = 1 .. Len(fields)
        /\ \A k \in DOMAIN fields :
             fields[k] \in {"id", "year", "month", "day", "hour", "minute", "second", "kwh"}
    <3>1. fields = [k \in DOMAIN Columns[message] |-> Columns[message][k][1]]
      BY <1>9, ColumnMessages, ColumnTables
    <3>2. Columns[message] \in {CurrentTime, Generated, <<<<"id", 0, 2>>>>}
      BY <1>9 DEF Columns
    <3>3. /\ Len(Columns[message]) \in Nat /\ DOMAIN Columns[message] = 1 .. Len(Columns[message])
          /\ \A k \in DOMAIN Columns[message] :
               Columns[message][k][1] \in {"id", "year", "month", "day", "hour", "minute", "second", "kwh"}
      <4>1. CASE Columns[message] = CurrentTime
        BY <4>1 DEF CurrentTime
      <4>2. CASE Columns[message] = Generated
        BY <4>2 DEF Generated
      <4>3. CASE Columns[message] = <<<<"id", 0, 2>>>>
        BY <4>3
      <4> QED BY <3>2, <4>1, <4>2, <4>3
    <3> HIDE DEF fields
    <3>4. DOMAIN fields = DOMAIN Columns[message] /\ \A k \in DOMAIN fields : fields[k] = Columns[message][k][1]
      BY <3>1
    <3>5. Len(fields) = Len(Columns[message])
      BY <3>1, <3>3
    <3> QED BY <3>3, <3>4, <3>5
  <2> HIDE DEF fields
  <2>3. \A k \in DOMAIN fields :
          <<message, fields[k]>> \notin Omitted /\ Shows(fields[k], "number")
    BY <1>9, <2>2, StylesShow DEF Omitted
  <2>4. Ordered(Rows("number", fields), fields, [k \in DOMAIN fields |-> k])
    BY <2>2, SameOrder
  <2>5. AllShow(Rows("number", fields))
    BY <2>3 DEF AllShow, Rows
  <2> QED BY <2>1, <2>2, <2>3, <2>4, <2>5 DEF RowsAre, fields
<1>10. CASE message = "series_number"
  <2> DEFINE rows == <<<<"id", "text">>>>  fields == <<"length", "id">>  row == <<0, 1>>
  <2>1. MessageRows(message) = rows
    BY <1>10, RowTables
  <2>2. FieldNames(message) = fields
    <3>1. FieldNames(message) = [k \in DOMAIN SeriesNumber |-> SeriesNumber[k][1]]
      BY <1>10, ColumnMessages, ColumnTables DEF Columns
    <3>2. DOMAIN SeriesNumber = 1 .. 2 /\ SeriesNumber[1][1] = "length" /\ SeriesNumber[2][1] = "id"
      BY DEF SeriesNumber
    <3> QED BY <3>1, <3>2
  <2>3. Ordered(rows, fields, row)
    BY DEF Ordered
  <2>4. \A k \in DOMAIN fields : row[k] = 0 <=> <<message, fields[k]>> \in Omitted
    BY <1>10 DEF Omitted
  <2>5. AllShow(rows)
    BY StylesShow DEF AllShow, IsNumber, Numbers
  <2> HIDE DEF rows, fields, row
  <2> QED BY <2>1, <2>2, <2>3, <2>4, <2>5 DEF RowsAre
<1>11. CASE message = "working_mode"
  <2> DEFINE rows == <<<<"mode", "mode">>>>  fields == <<"mode">>  row == <<1>>
  <2>1. MessageRows(message) = rows
    BY <1>11, RowTables
  <2>2. FieldNames(message) = fields
    BY <1>11, ColumnMessages, ColumnTables DEF Columns
  <2>3. Ordered(rows, fields, row)
    BY DEF Ordered
  <2>4. \A k \in DOMAIN fields : row[k] = 0 <=> <<message, fields[k]>> \in Omitted
    BY <1>11 DEF Omitted
  <2>5. AllShow(rows)
    BY StylesShow DEF AllShow, IsNumber, Numbers
  <2> HIDE DEF rows, fields, row
  <2> QED BY <2>1, <2>2, <2>3, <2>4, <2>5 DEF RowsAre
<1> QED
  BY <1>1, <1>2, <1>3, <1>4, <1>5, <1>6, <1>7, <1>8, <1>9, <1>10, <1>11,
     ColumnMessages, ListMessageNames

\* Different fields of a message have different keys.
LEMMA KeysDiffer ==
  ASSUME NEW message \in DOMAIN Conversions \cup DOMAIN Columns,
         NEW j \in DOMAIN FieldNames(message), NEW k \in DOMAIN FieldNames(message),
         Key(message, FieldNames(message)[j]) = Key(message, FieldNames(message)[k])
  PROVE  j = k
<1> DEFINE fields == FieldNames(message)
           New == {"main_v", "slave1_v", "slave2_v", "start_time", "end_time", "mode",
                   "battery_bulk_voltage", "battery_float_voltage", "buzzer_flag",
                   "overload_bypass_flag", "lcd_escape_to_default_page_after_1min_timeout_flag",
                   "overload_restart_flag", "over_temp_restart_flag", "backlight_on_flag",
                   "alarm_on_primary_source_interrupt_flag", "fault_code_record_flag"}
<1>1. /\ \A f \in DOMAIN Renamed : Renamed[f] \in New
      /\ \A f, g \in DOMAIN Renamed : Renamed[f] = Renamed[g] => f = g
  BY DEF Renamed
<1>2. \A i, n \in DOMAIN fields : fields[i] = fields[n] => i = n
  <2>1. CASE message \in DOMAIN Conversions
    BY <2>1, ListTables DEF Matches
  <2>2. CASE message \in DOMAIN Columns
    BY <2>2, ColumnTables
  <2> QED BY <2>1, <2>2
<1>3. CASE message \in {"day_generated", "working_mode", "series_number"}
  <2>1. fields = [i \in DOMAIN Columns[message] |-> Columns[message][i][1]]
    BY <1>3, ColumnMessages, ColumnTables
  <2>2. CASE message = "series_number"
    <3>1. DOMAIN SeriesNumber = 1 .. 2 /\ SeriesNumber[1][1] = "length" /\ SeriesNumber[2][1] = "id"
      BY DEF SeriesNumber
    <3>2. DOMAIN fields = 1 .. 2 /\ fields[1] = "length" /\ fields[2] = "id"
      BY <2>1, <2>2, <3>1 DEF Columns
    <3>3. Key(message, "length") = "length" /\ Key(message, "id") = "sn"
      BY <2>2 DEF Key, Renamed
    <3> QED BY <3>2, <3>3
  <2>3. CASE message # "series_number"
    <3>1. DOMAIN Columns[message] = 1 .. 1
      BY <1>3, <2>3 DEF Columns, Generated
    <3> QED BY <2>1, <3>1
  <2> QED BY <2>2, <2>3
<1>4. CASE message \notin {"day_generated", "working_mode", "series_number"}
  <2>1. \A f : Key(message, f) = IF f \in DOMAIN Renamed THEN Renamed[f] ELSE f
    BY <1>4 DEF Key
  <2>2. CASE message = "rated_information"
    <3>1. \A i \in DOMAIN RatedFields : RatedFields[i] \notin DOMAIN Renamed
      BY DEF RatedFields, Renamed
    <3> QED BY <1>2, <2>1, <2>2, <3>1, FieldTables
  <2>3. CASE message # "rated_information"
    <3>1. \A i \in DOMAIN fields : fields[i] \notin New
      <4>1. CASE message \in DOMAIN Columns
        <5>1. fields = [i \in DOMAIN Columns[message] |-> Columns[message][i][1]]
          BY <4>1, ColumnTables
        <5>2. Columns[message] \in {CurrentTime, Generated, <<<<"id", 0, 2>>>>}
          BY <1>4, <4>1, ColumnMessages DEF Columns
        <5>3. \A i \in DOMAIN Columns[message] : Columns[message][i][1] \notin New
          <6>1. \A i \in DOMAIN CurrentTime : CurrentTime[i][1] \notin New
            BY DEF CurrentTime
          <6>2. \A i \in DOMAIN Generated : Generated[i][1] \notin New
            BY DEF Generated
          <6> QED BY <5>2, <6>1, <6>2
        <5> QED BY <5>1, <5>3
      <4>2. CASE message \in {"cpu_version", "ac_charge_time_bucket", "ac_supply_load_time_bucket"}
        BY <4>2, FieldTables DEF TimeFields
      <4>3. \A i \in DOMAIN StatusFields : StatusFields[i] \notin New
        BY DEF StatusFields, DirectionFields
      <4>4. \A i \in DOMAIN FaultsFields : FaultsFields[i] \notin New
        BY DEF FaultsFields
      <4>5. \A i \in DOMAIN FlagsFields : FlagsFields[i] \notin New
        BY DEF FlagsFields
      <4>6. \A i \in DOMAIN DefaultsFields : DefaultsFields[i] \notin New
        BY DEF DefaultsFields
      <4>7. \A i \in DOMAIN ParallelRatedFields : ParallelRatedFields[i] \notin New
        BY DEF ParallelRatedFields
      <4>8. \A i \in DOMAIN ParallelStatusFields : ParallelStatusFields[i] \notin New
        BY DEF ParallelStatusFields, DirectionFields
      <4> HIDE DEF New
      <4> QED
        BY <2>3, <4>1, <4>2, <4>3, <4>4, <4>5, <4>6, <4>7, <4>8, FieldTables, ListMessageNames
    <3> HIDE DEF New, fields
    <3> QED BY <1>1, <1>2, <2>1, <3>1 DEF fields
  <2> QED BY <2>2, <2>3
<1> QED BY <1>3, <1>4

\* What is stored of the fields that are numbers, and of times.
Stores(message, kinds, fields) ==
  \A k \in DOMAIN fields :
    /\ fields[k] \notin NonNumbers /\ <<message, fields[k]>> \notin WrongValues => kinds[k] = "num"
    /\ fields[k] \in {"start", "end"} => kinds[k] = "time"

LEMMA NumbersAreStored ==
  ASSUME NEW message \in DOMAIN Conversions
  PROVE  Stores(message, Conversions[message], FieldNames(message))
<1> USE NonNumbersAre DEF Stores, Times
<1>1. Stores("cpu_version", CpuVersion, <<"main_cpu_version", "slave1_cpu_version", "slave2_cpu_version">>)
  BY DEF CpuVersion
<1>2. Stores("rated_information", RatedInformation, RatedFields)
  BY DEF RatedInformation, RatedFields
<1>3. Stores("general_status", GeneralStatus, StatusFields)
  BY DEF GeneralStatus, StatusFields, DirectionFields
<1>4. Stores("faults_warnings", FaultsWarnings, FaultsFields)
  BY DEF FaultsWarnings, FaultsFields
<1>5. Stores("flags_statuses", FlagsStatuses, FlagsFields)
  BY DEF FlagsStatuses, FlagsFields
<1>6. Stores("defaults", Defaults, DefaultsFields)
  BY DEF Defaults, DefaultsFields
<1>7. Stores("parallel_rated_information", ParallelRatedInformation, ParallelRatedFields)
  BY DEF ParallelRatedInformation, ParallelRatedFields
<1>8. Stores("parallel_general_status", ParallelGeneralStatus, ParallelStatusFields)
  BY DEF ParallelGeneralStatus, ParallelStatusFields, DirectionFields, WrongValues
<1>9. Stores(message, TimeBucket, TimeFields)
  BY DEF TimeBucket, TimeFields
<1> HIDE DEF Stores
<1> QED
  BY <1>1, <1>2, <1>3, <1>4, <1>5, <1>6, <1>7, <1>8, <1>9, ListMessageNames, FieldTables,
     ConversionTables

-----------------------------------------------------------------------------
(* The invariant. *)

TypeInv ==
  /\ msg \in Messages /\ format \in Formats
  /\ items \in Seq(Seq(Digits))
  /\ ~IsList => Len(items) = 1
  /\ taken \in 0 .. Count

\* What has been read of a list is stored, and everything else is zero.
ListInv ==
  IsList /\ ~IsArray =>
    /\ m = [k \in DOMAIN Names |-> m[k]]
    /\ \A k \in DOMAIN Names :
         m[k] \in IF k <= taken THEN Converted(Kind(msg, k - 1), items[k], ValidLength)
                  ELSE {Zero(Kind(msg, k - 1))}

\* An array holds the first items, as many as fit.
Held == IF taken < AmpsSize THEN taken ELSE AmpsSize
ArrayInv == IsArray => m = [k \in 1 .. Held |-> Atoi(items[k])]

\* What a column may be stored as; length is what a series number begins with.
ColumnValues(column, length) ==
  {IF IsSeries(column) THEN SubstrCopy(text, length) ELSE Atoi(SubstrCopy(text, column[3])) :
     text \in TextAt(column[2])}

ColumnInv ==
  ~IsList =>
    /\ m = [k \in 1 .. taken |-> m[k]]
    /\ \A k \in 1 .. taken : m[k] \in ColumnValues(Columns[msg][k], m[1])

\* The lines printed are those of the first rows, and there are none before
\* everything is unpacked.
LineAt(k) ==
  IF IsArray THEN Line("", Printing[k][2], m[k], format)
  ELSE Line(Key(msg, Printing[k][1]), Printing[k][2], Value(Printing[k][1]), format)

OutInv ==
  \E n \in 0 .. Len(Printing) :
    /\ Unpacked \/ n = 0
    /\ out = [k \in 1 .. n |-> LineAt(k)]

IInv == TypeInv /\ ListInv /\ ArrayInv /\ ColumnInv /\ OutInv

-----------------------------------------------------------------------------
(* Counts and types that follow from it. *)

\* How many there are to look at.
LEMMA Counts ==
  ASSUME msg \in Messages, items \in Seq(Seq(Digits))
  PROVE  /\ Count \in Nat
         /\ IsArray => IsList
         /\ IsList => Count <= Len(items)
         /\ IsArray => Count = Len(items)
         /\ IsList /\ ~IsArray =>
              /\ msg \in DOMAIN Conversions
              /\ DOMAIN Names = 1 .. Len(Conversions[msg]) /\ Len(Conversions[msg]) \in Nat
              /\ Count = IF Len(Conversions[msg]) < Len(items)
                           THEN Len(Conversions[msg]) ELSE Len(items)
         /\ ~IsList => msg \in DOMAIN Columns /\ Count = Len(Columns[msg])
<1> DEFINE n == Len(items)
<1>1. n \in Nat
  OBVIOUS
<1> HIDE DEF n
<1>2. CASE msg \in DOMAIN Conversions
  <2> DEFINE l == Len(Conversions[msg])
  <2>1. l \in Nat /\ DOMAIN Names = 1 .. l
    BY <1>2, ListTables DEF Matches, Names
  <2>2. msg \in ListMessages /\ msg \notin SelectableValues
    BY <1>2, KindsOfMessages DEF ListMessages
  <2>3. Count = IF l # -1 /\ l < n THEN l ELSE n
    BY <2>2 DEF Count, IsList, ExpectedItems, n
  <2> HIDE DEF l
  <2>4. Count = (IF l < n THEN l ELSE n) /\ Count \in Nat /\ Count <= n
    BY <1>1, <2>1, <2>3
  <2> QED BY <1>2, <2>1, <2>2, <2>4 DEF IsList, IsArray, l, n
<1>3. CASE msg \in SelectableValues
  BY <1>1, <1>3, KindsOfMessages DEF Count, IsList, IsArray, ExpectedItems, ListMessages, n
<1>4. CASE msg \in DOMAIN Columns
  BY <1>4, KindsOfMessages, ColumnTables DEF Count, IsList, IsArray, ListMessages
<1> QED BY <1>2, <1>3, <1>4 DEF Messages, ListMessages

\* An item is text, and what a column is read from too.
LEMMA TextsType ==
  ASSUME items \in Seq(Seq(Digits)), ~IsList => Len(items) = 1
  PROVE  /\ \A k \in 1 .. Len(items) : items[k] \in Seq(Digits) /\ Atoi(items[k]) \in Nat
         /\ ~IsList => \A offset \in Nat : TextAt(offset) \subseteq Seq(Digits)
<1>1. \A k \in 1 .. Len(items) : items[k] \in Seq(Digits)
  OBVIOUS
<1>2. \A k \in 1 .. Len(items) : Atoi(items[k]) \in Nat
  BY <1>1, DigitsAreNumbers, AtoiType
<1>3. ASSUME ~IsList, NEW offset \in Nat PROVE TextAt(offset) \subseteq Seq(Digits)
  <2> DEFINE data == items[1]  n == Len(data)
  <2>1. data \in Seq(Digits) /\ n \in Nat
    BY <1>1, <1>3
  <2>2. \A k \in offset + 1 .. n : data[k] \in Digits
    BY <2>1
  <2>3. SubSeq(data, offset + 1, n) \in Seq(Digits)
    <3> HIDE DEF data
    <3>1. offset + 1 \in Nat /\ 0 < offset + 1 /\ \A k \in offset + 1 .. n : data[k] \in Digits
      BY <2>2
    <3> QED BY <2>1, <3>1, SubSeqProperties
  <2>4. <<>> \in Seq(Digits)
    OBVIOUS
  <2> QED BY <2>3, <2>4, ReplyAssumption DEF TextAt
<1> QED BY <1>1, <1>2, <1>3

\* Every column but the text is a number.
LEMMA ColumnType ==
  ASSUME items \in Seq(Seq(Digits)), ~IsList, Len(items) = 1, msg \in DOMAIN Columns,
         NEW k \in DOMAIN Columns[msg], NEW length,
         NEW stored \in ColumnValues(Columns[msg][k], length)
  PROVE  ~IsSeries(Columns[msg][k]) => stored \in Nat
<1> DEFINE column == Columns[msg][k]
<1>1. column[2] \in Nat /\ column[3] \in Nat
  BY ColumnTables
<1> HIDE DEF column
<1>2. ASSUME NEW text \in TextAt(column[2]) PROVE Atoi(SubstrCopy(text, column[3])) \in Nat
  <2>1. text \in Seq(Digits)
    BY <1>1, TextsType
  <2>2. SubstrCopy(text, column[3]) \in Seq(Digits)
    BY <1>1, <2>1, CopyType
  <2> QED BY <2>2, DigitsAreNumbers, AtoiType
<1> QED BY <1>2 DEF ColumnValues, column

\* The length in front of a series number.
LEMMA SeriesLength ==
  ASSUME TypeInv, ColumnInv, msg = "series_number", taken > 0
  PROVE  m[1] \in Nat
<1>1. "series_number" \in DOMAIN Columns /\ "series_number" \notin ListMessages
  BY ColumnMessages, KindsOfMessages
<1>2. ~IsList /\ msg \in DOMAIN Columns /\ 1 \in DOMAIN Columns[msg]
  BY <1>1, SeriesColumn, ColumnTables DEF IsList
<1>3. 1 \in 1 .. taken
  <2>1. Count \in Nat
    BY Counts DEF TypeInv
  <2> QED BY <2>1 DEF TypeInv
<1>4. m[1] \in ColumnValues(Columns[msg][1], m[1])
  BY <1>2, <1>3 DEF ColumnInv
<1>5. ~IsSeries(Columns[msg][1])
  BY SeriesColumn DEF IsSeries
<1> QED BY <1>2, <1>4, <1>5, ColumnType DEF TypeInv

\* The rows are a sequence, whether they are a table or an array.
LEMMA PrintingType ==
  ASSUME TypeInv, ArrayInv
  PROVE  Len(Printing) \in Nat /\ DOMAIN Printing = 1 .. Len(Printing)
<1>1. Count \in Nat /\ (IsArray => IsList)
  BY Counts DEF TypeInv
<1>2. CASE IsArray
  <2>1. Held \in Nat
    BY <1>1, UnpackAssumption DEF TypeInv, Held
  <2>2. DOMAIN m = 1 .. Held
    BY <1>2 DEF ArrayInv
  <2>3. Printing = [k \in 1 .. Held |-> <<"amps", "number">>]
    BY <1>2, <2>2 DEF Printing
  <2> QED BY <2>1, <2>3
<1>3. CASE ~IsArray
  <2>1. msg \in DOMAIN Conversions \cup DOMAIN Columns
    BY <1>3 DEF TypeInv, Messages, ListMessages, IsArray
  <2>2. Printing = MessageRows(msg)
    BY <1>3 DEF Printing
  <2> QED BY <2>1, <2>2, MessageTables DEF RowsAre, Ordered
<1> QED BY <1>2, <1>3

-----------------------------------------------------------------------------
(* The beginning. *)

LEMMA InitInv == Init => IInv
<1> SUFFICES ASSUME Init PROVE IInv
  OBVIOUS
<1>1. PICK reply \in Replies : msg = reply[1] /\ items = reply[2]
  BY DEF Init
<1>2. /\ msg \in Messages /\ items \in Seq(Seq(Digits)) /\ format \in Formats
      /\ ~IsList => Len(items) = 1
      /\ taken = 0 /\ out = <<>>
  BY <1>1, ReplyAssumption DEF Init, IsList
<1>3. TypeInv
  <2>1. Count \in Nat
    BY <1>2, Counts
  <2> QED BY <1>2, <2>1 DEF TypeInv
<1>4. ListInv
  <2> SUFFICES ASSUME IsList, ~IsArray PROVE ListInv!2
    BY DEF ListInv
  <2>1. m = [k \in DOMAIN Names |-> Zero(Kind(msg, k - 1))]
    BY DEF Init
  <2>2. DOMAIN Names \subseteq Nat \ {0}
    BY <1>2, Counts
  <2>3. \A k \in DOMAIN Names : ~(k <= taken)
    BY <1>2, <2>2
  <2> QED BY <2>1, <2>3
<1>5. ArrayInv
  <2>1. 1 .. Held = {}
    BY <1>2, UnpackAssumption DEF Held
  <2>2. [k \in 1 .. Held |-> Atoi(items[k])] = <<>>
    BY <2>1
  <2> QED BY <2>2 DEF Init, ArrayInv
<1>6. ColumnInv
  <2>1. 1 .. taken = {}
    BY <1>2
  <2>2. [k \in 1 .. taken |-> m[k]] = <<>>
    BY <2>1
  <2> QED BY <2>1, <2>2 DEF Init, ColumnInv
<1>7. OutInv
  <2>1. out = [k \in 1 .. 0 |-> LineAt(k)]
    BY <1>2
  <2>2. 0 \in 0 .. Len(Printing)
    BY <1>3, <1>5, PrintingType
  <2> QED BY <2>1, <2>2 DEF OutInv
<1> QED BY <1>3, <1>4, <1>5, <1>6, <1>7 DEF IInv

-----------------------------------------------------------------------------
(* The steps. *)

\* What depends on the reply alone stays.
LEMMA SameReply ==
  ASSUME msg' = msg, items' = items
  PROVE  /\ IsList' = IsList /\ IsArray' = IsArray /\ Names' = Names /\ Count' = Count
         /\ \A offset : TextAt(offset)' = TextAt(offset)
         /\ \A column : IsSeries(column)' = IsSeries(column)
         /\ ~IsArray => Printing' = Printing
  BY DEF IsList, IsArray, Names, Count, TextAt, IsSeries, Printing

\* Only a serial number depends on the length in front of it, which is stored
\* before it.
LEMMA LengthMatters ==
  ASSUME NEW kind, NEW value, NEW before, NEW after, before = after \/ kind # "serial"
  PROVE  Converted(kind, value, before) = Converted(kind, value, after)
  BY DEF Converted

LEMMA LengthIsKept ==
  ASSUME msg \in DOMAIN Conversions, msg' = msg, NEW n \in Nat, NEW stored,
         m' = [m EXCEPT ![n] = stored], NEW k \in 1 .. n
  PROVE  ValidLength' = ValidLength \/ Kind(msg, k - 1) # "serial"
<1>1. CASE msg # "parallel_rated_information"
  BY <1>1 DEF ValidLength
<1>2. CASE msg = "parallel_rated_information" /\ n # 2
  <2>1. m'[2] = m[2]
    BY <1>2
  <2> QED BY <1>2, <2>1 DEF ValidLength
<1>3. CASE msg = "parallel_rated_information" /\ n = 2
  <2>1. Conversions[msg] = <<"num", "num", "serial">> \o Times("num", 4)
    BY <1>3 DEF Conversions, ParallelRatedInformation
  <2>2. Conversions[msg][1] = "num" /\ Conversions[msg][2] = "num"
    BY <2>1 DEF Times
  <2>3. msg \notin SelectableValues /\ (k - 1) + 1 \in {1, 2}
    BY <1>3 DEF SelectableValues
  <2> QED BY <2>2, <2>3 DEF Kind
<1> QED BY <1>1, <1>2, <1>3

\* Before everything is unpacked nothing is printed.
LEMMA NothingPrinted ==
  ASSUME IInv, ~Unpacked
  PROVE  out = <<>>
<1>1. PICK n \in 0 .. Len(Printing) : (Unpacked \/ n = 0) /\ out = [k \in 1 .. n |-> LineAt(k)]
  BY DEF IInv, OutInv
<1>2. 1 .. n = {}
  BY <1>1
<1> QED BY <1>1, <1>2

LEMMA NoOutput ==
  ASSUME TypeInv, ArrayInv, msg' = msg, items' = items, out' = <<>>,
         IsArray => \E held \in Nat : DOMAIN m' = 1 .. held
  PROVE  OutInv'
<1>1. Len(Printing') \in Nat
  <2>1. CASE ~IsArray
    BY <2>1, PrintingType, SameReply
  <2>2. CASE IsArray
    <3>1. PICK held \in Nat : DOMAIN m' = 1 .. held
      BY <2>2
    <3>2. Printing' = [k \in 1 .. held |-> <<"amps", "number">>]
      BY <2>2, <3>1, SameReply DEF Printing
    <3> QED BY <3>2
  <2> QED BY <2>1, <2>2
<1>2. out' = [k \in 1 .. 0 |-> LineAt(k)']
  OBVIOUS
<1>3. 0 \in 0 .. Len(Printing')
  BY <1>1
<1> QED BY <1>2, <1>3 DEF OutInv

\* A callback stores one item, and the ones before it stay.
LEMMA StoreItemInv == IInv /\ StoreItem => IInv'
<1> SUFFICES ASSUME IInv, StoreItem PROVE IInv'
  OBVIOUS
<1>1. PICK stored \in Converted(Kind(msg, taken), items[taken + 1], ValidLength) :
        m' = [m EXCEPT ![taken + 1] = stored]
  BY DEF StoreItem
<1>2. /\ TypeInv /\ ListInv /\ ArrayInv /\ IsList /\ ~IsArray /\ taken # Count
      /\ taken' = taken + 1 /\ msg' = msg /\ items' = items /\ format' = format /\ out' = out
  BY DEF StoreItem, IInv, Unpacked
<1>3. /\ Count \in Nat /\ taken \in Nat /\ taken + 1 <= Count /\ msg \in DOMAIN Conversions
      /\ DOMAIN Names = 1 .. Len(Conversions[msg]) /\ Len(Conversions[msg]) \in Nat
      /\ Count <= Len(Conversions[msg])
  <2>1. Count \in Nat
    BY <1>2, Counts DEF TypeInv
  <2>2. taken \in Nat /\ taken + 1 <= Count
    BY <1>2, <2>1 DEF TypeInv
  <2>3. /\ msg \in DOMAIN Conversions
        /\ DOMAIN Names = 1 .. Len(Conversions[msg]) /\ Len(Conversions[msg]) \in Nat
        /\ Count = IF Len(Conversions[msg]) < Len(items) THEN Len(Conversions[msg]) ELSE Len(items)
    BY <1>2, Counts DEF TypeInv
  <2> DEFINE a == Len(Conversions[msg])  b == Len(items)
  <2>4. b \in Nat
    BY <1>2 DEF TypeInv
  <2> HIDE DEF a, b
  <2>5. Count <= a
    BY <2>3, <2>4 DEF a, b
  <2> QED BY <2>1, <2>2, <2>3, <2>5 DEF a
<1>4. /\ IsList' /\ ~IsArray' /\ Count' = Count /\ Names' = Names
  BY <1>2, SameReply
<1>5. TypeInv'
  BY <1>2, <1>3, <1>4 DEF TypeInv
<1>6. ListInv'
  <2>1. m = [k \in DOMAIN Names |-> m[k]]
    BY <1>2 DEF ListInv
  <2>2. DOMAIN m' = DOMAIN Names
    BY <1>1, <2>1
  <2>3. m' = [k \in DOMAIN Names |-> m'[k]]
    BY <1>1, <2>1, <2>2
  <2>4. ASSUME NEW k \in DOMAIN Names
        PROVE  m'[k] \in IF k <= taken + 1 THEN Converted(Kind(msg, k - 1), items[k], ValidLength')
                         ELSE {Zero(Kind(msg, k - 1))}
    <3>1. k \in Nat /\ k >= 1 /\ taken + 1 \in DOMAIN m
      BY <1>3, <2>1
    <3>2. CASE k <= taken + 1
      <4>1. Converted(Kind(msg, k - 1), items[k], ValidLength') =
              Converted(Kind(msg, k - 1), items[k], ValidLength)
        <5>1. taken + 1 \in Nat /\ k \in 1 .. taken + 1
          BY <1>3, <3>1, <3>2
        <5>2. ValidLength' = ValidLength \/ Kind(msg, k - 1) # "serial"
          BY <1>1, <1>2, <1>3, <5>1, LengthIsKept
        <5> QED BY <5>2, LengthMatters
      <4>2. CASE k = taken + 1
        <5>1. k - 1 = taken /\ m'[k] = stored
          BY <1>1, <1>3, <3>1, <4>2
        <5> QED BY <1>1, <3>2, <4>1, <4>2, <5>1
      <4>3. CASE k # taken + 1
        <5>1. k <= taken /\ m'[k] = m[k]
          BY <1>1, <1>3, <2>1, <3>1, <3>2, <4>3
        <5>2. m[k] \in Converted(Kind(msg, k - 1), items[k], ValidLength)
          BY <1>2, <5>1 DEF ListInv
        <5> QED BY <3>2, <4>1, <5>1, <5>2
      <4> QED BY <4>2, <4>3
    <3>3. CASE ~(k <= taken + 1)
      <4>1. ~(k <= taken) /\ m'[k] = m[k]
        BY <1>1, <1>3, <2>1, <3>1, <3>3
      <4>2. m[k] \in {Zero(Kind(msg, k - 1))}
        BY <1>2, <4>1 DEF ListInv
      <4> QED BY <3>3, <4>1, <4>2
    <3> QED BY <3>2, <3>3
  <2> QED BY <1>2, <1>4, <2>3, <2>4 DEF ListInv
<1>7. ArrayInv' /\ ColumnInv'
  BY <1>4 DEF ArrayInv, ColumnInv
<1>8. OutInv'
  <2>1. out' = <<>>
    BY <1>2, NothingPrinted DEF Unpacked
  <2> QED BY <1>2, <2>1, NoOutput
<1> QED BY <1>5, <1>6, <1>7, <1>8 DEF IInv

\* An array takes the next item if it has room.
LEMMA StoreAmpsInv == IInv /\ StoreAmps => IInv'
<1> SUFFICES ASSUME IInv, StoreAmps PROVE IInv'
  OBVIOUS
<1>1. /\ TypeInv /\ ArrayInv /\ IsArray /\ taken # Count
      /\ m' = IF Len(m) < AmpsSize THEN Append(m, Atoi(items[taken + 1])) ELSE m
      /\ taken' = taken + 1 /\ msg' = msg /\ items' = items /\ format' = format /\ out' = out
  BY DEF StoreAmps, IInv, Unpacked
<1>2. /\ Count \in Nat /\ taken \in Nat /\ taken + 1 <= Count /\ AmpsSize \in Nat /\ IsList
  <2>1. Count \in Nat /\ IsList
    BY <1>1, Counts DEF TypeInv
  <2> QED BY <1>1, <2>1, UnpackAssumption DEF TypeInv
<1>3. IsArray' /\ IsList' /\ Count' = Count
  BY <1>1, <1>2, SameReply
<1>4. TypeInv'
  BY <1>1, <1>2, <1>3 DEF TypeInv
<1>5. m' = [k \in 1 .. Held' |-> Atoi(items[k])]
  <2> DEFINE held == Held  held1 == IF taken + 1 < AmpsSize THEN taken + 1 ELSE AmpsSize
             amps == [k \in 1 .. held |-> Atoi(items[k])]
  <2>1. held \in Nat /\ held = (IF taken < AmpsSize THEN taken ELSE AmpsSize)
    BY <1>2 DEF Held
  <2>2. m = amps
    BY <1>1 DEF ArrayInv
  <2>3. Held' = held1
    BY <1>1 DEF Held
  <2> HIDE DEF held
  <2>4. Len(m) = held /\ amps \in Seq({Atoi(items[k]) : k \in Nat})
    BY <2>1, <2>2
  <2>5. CASE held < AmpsSize
    <3>1. held = taken /\ held1 = held + 1
      BY <1>2, <2>1, <2>5
    <3>2. m' = Append(amps, Atoi(items[held + 1]))
      BY <1>1, <2>2, <2>4, <2>5, <3>1
    <3> HIDE DEF held1
    <3>3. Append(amps, Atoi(items[held + 1])) = [k \in 1 .. held + 1 |-> Atoi(items[k])]
      BY <2>1
    <3> QED BY <2>3, <3>1, <3>2, <3>3
  <2>6. CASE ~(held < AmpsSize)
    <3>1. held1 = held
      BY <1>2, <2>1, <2>6
    <3>2. m' = amps
      BY <1>1, <2>2, <2>4, <2>6
    <3> QED BY <2>3, <3>1, <3>2
  <2> QED BY <2>5, <2>6
<1>6. Held' \in Nat
  BY <1>1, <1>2 DEF Held
<1>7. ArrayInv'
  BY <1>1, <1>5 DEF ArrayInv
<1>8. ListInv' /\ ColumnInv'
  BY <1>3 DEF ListInv, ColumnInv
<1>9. OutInv'
  <2>1. out' = <<>>
    BY <1>1, NothingPrinted DEF Unpacked
  <2>2. DOMAIN m' = 1 .. Held'
    BY <1>5
  <2> QED BY <1>1, <1>6, <2>1, <2>2, NoOutput
<1> QED BY <1>4, <1>7, <1>8, <1>9 DEF IInv

\* The next column is stored behind those before it.
LEMMA StoreColumnInv == IInv /\ StoreColumn => IInv'
<1> SUFFICES ASSUME IInv, StoreColumn PROVE IInv'
  OBVIOUS
<1> DEFINE column == Columns[msg][taken + 1]
           Stored(text) == IF IsSeries(column) THEN SubstrCopy(text, ColumnWidth(column))
                           ELSE Atoi(SubstrCopy(text, ColumnWidth(column)))
<1>1. PICK text \in TextAt(column[2]) : m' = Append(m, Stored(text))
  BY DEF StoreColumn
<1>2. /\ TypeInv /\ ColumnInv /\ ArrayInv /\ ~IsList /\ taken # Count
      /\ taken' = taken + 1 /\ msg' = msg /\ items' = items /\ format' = format /\ out' = out
  BY DEF StoreColumn, IInv, Unpacked
<1>3. /\ Count \in Nat /\ taken \in Nat /\ taken + 1 <= Count /\ ~IsArray
      /\ msg \in DOMAIN Columns /\ Count = Len(Columns[msg])
  <2>1. Count \in Nat /\ ~IsArray /\ msg \in DOMAIN Columns /\ Count = Len(Columns[msg])
    BY <1>2, Counts DEF TypeInv
  <2> QED BY <1>2, <2>1 DEF TypeInv
<1>4. ~IsList' /\ ~IsArray' /\ Count' = Count
  BY <1>2, <1>3, SameReply
<1>5. TypeInv'
  BY <1>2, <1>3, <1>4 DEF TypeInv
<1>6. /\ m' = [k \in 1 .. taken + 1 |-> m'[k]]
      /\ m'[taken + 1] = Stored(text)
      /\ \A k \in 1 .. taken : m'[k] = m[k]
  <2> DEFINE stored == Stored(text)  S == {m[k] : k \in 1 .. taken} \cup {stored}
  <2>1. m = [k \in 1 .. taken |-> m[k]]
    BY <1>2 DEF ColumnInv
  <2>2. m' = Append(m, stored)
    BY <1>1
  <2> HIDE DEF stored
  <2>3. m \in Seq(S) /\ Len(m) = taken
    BY <1>3, <2>1
  <2>4. stored \in S
    OBVIOUS
  <2> HIDE DEF S
  <2>5. /\ m' \in Seq(S) /\ Len(m') = taken + 1 /\ m'[taken + 1] = stored
        /\ \A k \in 1 .. taken : m'[k] = m[k]
    BY <2>2, <2>3, <2>4, AppendProperties
  <2> QED BY <2>5 DEF stored
<1>7. ASSUME NEW k \in 1 .. taken + 1
      PROVE  m'[k] \in ColumnValues(Columns[msg][k], m'[1])
  <2>1. CASE k = taken + 1
    <3>1. ColumnWidth(column) = IF IsSeries(column) THEN m[1] ELSE column[3]
      BY DEF ColumnWidth
    <3>2. IsSeries(column) => m'[1] = m[1]
      <4>1. ASSUME IsSeries(column) PROVE taken # 0
        BY <4>1, SeriesColumn DEF IsSeries
      <4> QED BY <1>3, <1>6, <4>1
    <3> HIDE DEF column
    <3>3. Stored(text) \in ColumnValues(column, m'[1])
      BY <1>1, <3>1, <3>2 DEF ColumnValues
    <3> QED BY <1>6, <2>1, <3>3 DEF column
  <2>2. CASE k # taken + 1
    <3>1. k \in 1 .. taken
      BY <1>3, <2>2
    <3>2. 1 \in 1 .. taken
      BY <1>3, <3>1
    <3>3. m'[1] = m[1] /\ m'[k] = m[k]
      BY <1>6, <3>1, <3>2
    <3>4. m[k] \in ColumnValues(Columns[msg][k], m[1])
      BY <1>2, <3>1 DEF ColumnInv
    <3> QED BY <3>3, <3>4
  <2> QED BY <2>1, <2>2
<1>8. ColumnInv'
  <2>1. \A c, length : ColumnValues(c, length)' = ColumnValues(c, length')
    BY <1>2, SameReply DEF ColumnValues
  <2> QED BY <1>2, <1>6, <1>7, SameReply DEF ColumnInv, ColumnValues
<1>9. ListInv' /\ ArrayInv'
  BY <1>4 DEF ListInv, ArrayInv
<1>10. OutInv'
  <2>1. out' = <<>>
    BY <1>2, NothingPrinted DEF Unpacked
  <2> QED BY <1>2, <1>3, <2>1, NoOutput
<1> QED BY <1>5, <1>8, <1>9, <1>10 DEF IInv

\* What printing leaves alone.
LEMMA SameMessage ==
  ASSUME UNCHANGED <<msg, items, format, taken, m>>, TypeInv, ListInv, ArrayInv, ColumnInv
  PROVE  /\ TypeInv' /\ ListInv' /\ ArrayInv' /\ ColumnInv'
         /\ Printing' = Printing /\ Unpacked' = Unpacked /\ \A k : LineAt(k)' = LineAt(k)
<1>1. /\ IsList' = IsList /\ IsArray' = IsArray /\ Names' = Names /\ Count' = Count
      /\ \A offset : TextAt(offset)' = TextAt(offset)
      /\ \A column : IsSeries(column)' = IsSeries(column)
  BY SameReply
<1>2. ValidLength' = ValidLength /\ Held' = Held
  BY DEF ValidLength, Held
<1>3. \A column, length : ColumnValues(column, length)' = ColumnValues(column, length)
  BY <1>1 DEF ColumnValues
<1>4. TypeInv'
  BY <1>1 DEF TypeInv
<1>5. ListInv'
  BY <1>1, <1>2 DEF ListInv
<1>6. ArrayInv'
  BY <1>1, <1>2 DEF ArrayInv
<1>7. ColumnInv'
  BY <1>1, <1>3 DEF ColumnInv
<1>8. Printing' = Printing /\ Unpacked' = Unpacked
  BY <1>1 DEF Printing, Unpacked
<1>9. \A field : Value(field)' = Value(field)
  BY <1>1 DEF Value
<1>10. \A k : LineAt(k)' = LineAt(k)
  BY <1>1, <1>8, <1>9 DEF LineAt
<1> QED BY <1>4, <1>5, <1>6, <1>7, <1>8, <1>10

\* One more line is printed, of the next row.
LEMMA PrintRowInv == IInv /\ PrintRow => IInv'
<1> SUFFICES ASSUME IInv, PrintRow PROVE IInv'
  OBVIOUS
<1>1. /\ Unpacked /\ Len(out) < Len(Printing) /\ out' = Append(out, LineAt(Len(out) + 1))
      /\ UNCHANGED <<msg, items, format, taken, m>>
  BY DEF PrintRow, LineAt
<1>2. PICK n \in 0 .. Len(Printing) : (Unpacked \/ n = 0) /\ out = [k \in 1 .. n |-> LineAt(k)]
  BY DEF IInv, OutInv
<1>3. TypeInv' /\ ListInv' /\ ArrayInv' /\ ColumnInv'
  BY <1>1, SameMessage DEF IInv
<1>4. Printing' = Printing /\ Unpacked'
  BY <1>1, SameMessage DEF IInv
<1>5. \A k : LineAt(k)' = LineAt(k)
  BY <1>1, SameMessage DEF IInv
<1>6. Len(Printing) \in Nat
  BY PrintingType DEF IInv
<1>7. n \in Nat /\ Len(out) = n /\ n + 1 \in 0 .. Len(Printing)
  BY <1>1, <1>2, <1>6
<1>8. out' = [k \in 1 .. n + 1 |-> LineAt(k)]
  <2> DEFINE line(k) == LineAt(k)
  <2>1. out = [k \in 1 .. n |-> line(k)] /\ out' = Append(out, line(n + 1))
    BY <1>1, <1>2, <1>7
  <2> HIDE DEF line
  <2>2. Append([k \in 1 .. n |-> line(k)], line(n + 1)) = [k \in 1 .. n + 1 |-> line(k)]
    BY <1>7
  <2>3. out' = [k \in 1 .. n + 1 |-> line(k)]
    BY <2>1, <2>2
  <2> QED BY <2>3 DEF line
<1>9. OutInv'
  BY <1>4, <1>5, <1>7, <1>8 DEF OutInv
<1> QED BY <1>3, <1>9 DEF IInv

\* The invariant holds in every state.
LEMMA Invariance == Spec => []IInv
<1>1. IInv /\ UNCHANGED vars => IInv'
  <2> SUFFICES ASSUME IInv, UNCHANGED vars PROVE IInv'
    OBVIOUS
  <2>1. UNCHANGED <<msg, items, format, taken, m>> /\ out' = out
    BY DEF vars
  <2>2. TypeInv' /\ ListInv' /\ ArrayInv' /\ ColumnInv'
    BY <2>1, SameMessage DEF IInv
  <2>3. OutInv'
    BY <2>1, SameMessage DEF IInv, OutInv
  <2> QED BY <2>2, <2>3 DEF IInv
<1>2. IInv /\ [Next]_vars => IInv'
  BY <1>1, StoreItemInv, StoreAmpsInv, StoreColumnInv, PrintRowInv DEF Next
<1> QED BY <1>2, InitInv, PTL DEF Spec

-----------------------------------------------------------------------------
(* What it shows. *)

\* A line is a number or a text.
LEMMA Lines ==
  ASSUME NEW key, NEW style, NEW value, NEW form
  PROVE  LET line == Line(key, style, value, form)
         IN  /\ line.key = key
             /\ IsNumber(style) =>
                  /\ line = NumberLine(key, style, value, form)
                  /\ DOMAIN line = {"key", "number", "decimals", "unit"}
             /\ ~IsNumber(style) =>
                  /\ line = TextLine(key, style, value, form)
                  /\ DOMAIN line = {"key", "text", "quotes"}
                  /\ line.quotes \in 0 .. 2
  BY DEF Line, NumberLine, TextLine, Quotes

\* The lines that are printed.
LEMMA LinesPrinted ==
  ASSUME IInv
  PROVE  /\ Len(out) \in Nat /\ Len(out) <= Len(Printing) /\ Len(Printing) \in Nat
         /\ DOMAIN Printing = 1 .. Len(Printing)
         /\ DOMAIN out = 1 .. Len(out) /\ (out # <<>> => Unpacked)
         /\ \A k \in 1 .. Len(out) : out[k] = LineAt(k)
         /\ out # <<>> => Len(out) \in 1 .. Len(Printing) /\ Last(out) = LineAt(Len(out))
<1>1. PICK n \in 0 .. Len(Printing) : (Unpacked \/ n = 0) /\ out = [k \in 1 .. n |-> LineAt(k)]
  BY DEF IInv, OutInv
<1>2. Len(Printing) \in Nat /\ DOMAIN Printing = 1 .. Len(Printing)
  BY PrintingType DEF IInv
<1>3. n \in Nat /\ Len(out) = n /\ DOMAIN out = 1 .. n /\ n <= Len(Printing)
  BY <1>1, <1>2
<1>4. \A k \in 1 .. n : out[k] = LineAt(k)
  BY <1>1
<1>5. out # <<>> => n # 0
  BY <1>1
<1>6. out # <<>> => Last(out) = out[n]
  BY <1>3 DEF Last
<1> QED BY <1>1, <1>2, <1>3, <1>4, <1>5, <1>6

\* Every reply keeps the types of the message and of the lines, and an array of
\* currents never takes more than its size.
THEOREM ReplyTypeCorrect == Spec => []TypeOK
<1>1. ASSUME IInv PROVE TypeOK
  <2>1. /\ msg \in Messages /\ format \in Formats /\ taken \in 0 .. Count
    BY <1>1 DEF IInv, TypeInv
  <2>2. ASSUME IsArray PROVE Len(m) <= AmpsSize
    <3>1. m = [k \in 1 .. Held |-> Atoi(items[k])]
      BY <1>1, <2>2 DEF IInv, ArrayInv
    <3>2. Held \in Nat /\ Held <= AmpsSize
      <4>1. Count \in Nat
        BY <1>1, Counts DEF IInv, TypeInv
      <4> QED BY <2>1, <4>1, UnpackAssumption DEF Held
    <3> QED BY <3>1, <3>2
  <2>3. ASSUME NEW k \in DOMAIN out, "text" \in DOMAIN out[k] PROVE out[k].quotes \in 0 .. 2
    <3>1. out[k] = LineAt(k)
      BY <1>1, LinesPrinted
    <3>2. \E key, style, value : out[k] = Line(key, style, value, format)
      BY <3>1 DEF LineAt
    <3> QED BY <2>3, <3>2, Lines
  <2> QED BY <1>1, <2>1, <2>2, <2>3, LinesPrinted DEF TypeOK
<1> QED BY <1>1, Invariance, PTL

\* The length of a serial number is a number.
LEMMA LengthType ==
  ASSUME IInv
  PROVE  ValidLength \in Nat
<1>1. CASE msg # "parallel_rated_information"
  BY <1>1 DEF ValidLength
<1>2. CASE msg = "parallel_rated_information"
  <2>1. msg \in DOMAIN Conversions /\ IsList /\ ~IsArray
    BY <1>2, ListMessageNames, KindsOfMessages DEF IsList, IsArray, ListMessages
  <2>2. Names = ParallelRatedFields /\ Conversions[msg] = ParallelRatedInformation
    BY <1>2, FieldTables, ConversionTables DEF Names
  <2>3. 2 \in DOMAIN Names /\ Kind(msg, 2 - 1) = "num"
    BY <2>1, <2>2 DEF ParallelRatedFields, ParallelRatedInformation, Kind, IsArray, Times
  <2>4. m[2] \in IF 2 <= taken THEN Converted(Kind(msg, 2 - 1), items[2], ValidLength)
                 ELSE {Zero(Kind(msg, 2 - 1))}
    BY <2>1, <2>3 DEF IInv, ListInv
  <2>5. 2 <= taken => Atoi(items[2]) \in Nat
    <3> DEFINE n == Len(items)
    <3>1. /\ Count \in Nat /\ Count <= n /\ taken \in 0 .. Count
      BY <2>1, Counts DEF IInv, TypeInv
    <3>2. n \in Nat /\ \A k \in 1 .. n : Atoi(items[k]) \in Nat
      BY TextsType DEF IInv, TypeInv
    <3> HIDE DEF n
    <3> QED BY <3>1, <3>2
  <2>6. m[2] \in Nat
    BY <2>3, <2>4, <2>5 DEF Converted, Zero
  <2> QED BY <1>2, <2>6 DEF ValidLength
<1> QED BY <1>1, <1>2

\* The unpackers' copies have room for the 0 behind them, for any reply.
THEOREM CopiesHaveRoom == Spec => []CopiesFit
<1>1. ASSUME IInv PROVE CopiesFit
  <2> SUFFICES ASSUME ~Unpacked, ~(msg = "current_time" /\ taken = 0),
                      ~(msg = "series_number" /\ taken = 1 /\ m[1] > 31)
               PROVE  Copy[1] < Copy[2]
    BY DEF CopiesFit
  <2>1. /\ TypeInv /\ ColumnInv /\ Count \in Nat /\ taken \in Nat /\ taken < Count
    <3>1. TypeInv /\ ColumnInv
      BY <1>1 DEF IInv
    <3>2. Count \in Nat
      BY <3>1, Counts DEF TypeInv
    <3> QED BY <3>1, <3>2 DEF TypeInv, Unpacked
  <2>2. CASE IsList
    <3>1. ValidLength \in Nat
      BY <1>1, LengthType
    <3>2. SerialLength(ValidLength) < 32
      BY <3>1 DEF SerialLength
    <3> QED BY <2>2, <3>2 DEF Copy
  <2>3. CASE ~IsList
    <3>1. msg \in DOMAIN Columns /\ Count = Len(Columns[msg])
      BY <2>1, <2>3, Counts DEF TypeInv
    <3>2. CASE msg = "series_number"
      <4>1. taken \in {0, 1}
        BY <2>1, <3>1, <3>2, SeriesColumn
      <4>2. Columns[msg] = SeriesNumber /\ SeriesNumber[1] = <<"length", 0, 2>>
        BY <3>2 DEF Columns, SeriesNumber
      <4>3. CASE taken = 0
        BY <2>3, <3>2, <4>2, <4>3 DEF Copy, ColumnWidth, IsSeries
      <4>4. CASE taken = 1
        <5>1. m[1] \in Nat
          BY <2>1, <3>2, <4>4, SeriesLength
        <5>2. SeriesNumber[2][1] = "id"
          BY DEF SeriesNumber
        <5>3. ColumnWidth(Columns[msg][taken + 1]) = m[1]
          BY <3>2, <4>2, <4>4, <5>2 DEF ColumnWidth, IsSeries
        <5> QED BY <2>3, <3>2, <4>4, <5>1, <5>3 DEF Copy
      <4> QED BY <4>1, <4>3, <4>4
    <3>3. CASE msg # "series_number"
      <4>1. CASE Columns[msg] = Generated
        BY <2>3, <3>3, <4>1 DEF Copy
      <4>2. CASE Columns[msg] # Generated
        <5>1. Copy = <<Columns[msg][taken + 1][3], 4>>
          BY <2>3, <3>3, <4>2 DEF Copy
        <5>2. CASE msg = "current_time"
          <6>1. Columns[msg] = CurrentTime /\ Len(CurrentTime) = 6
            BY <5>2 DEF Columns, CurrentTime
          <6>2. taken + 1 \in 2 .. 6
            BY <2>1, <3>1, <5>2, <6>1
          <6>3. \A k \in 2 .. 6 : CurrentTime[k][3] = 2
            BY DEF CurrentTime
          <6> QED BY <5>1, <6>1, <6>2, <6>3
        <5>3. CASE msg \in {"protocol_id", "working_mode"}
          <6>1. \A k \in DOMAIN Columns[msg] : Columns[msg][k][3] = 2
            BY <5>3 DEF Columns
          <6>2. taken + 1 \in DOMAIN Columns[msg]
            BY <2>1, <3>1, ColumnTables
          <6> QED BY <5>1, <6>1, <6>2
        <5> QED BY <3>1, <3>3, <4>2, <5>2, <5>3, ColumnMessages DEF Columns
      <4> QED BY <4>1, <4>2
    <3> QED BY <3>2, <3>3
  <2> QED BY <2>2, <2>3
<1> QED BY <1>1, Invariance, PTL

-----------------------------------------------------------------------------
(* What a line shows. *)

\* Where a field is among the names.
LEMMA PlaceOfField ==
  ASSUME msg \in DOMAIN Conversions \cup DOMAIN Columns, NEW k \in DOMAIN Names
  PROVE  (CHOOSE j \in DOMAIN Names : Names[j] = Names[k]) = k
<1>1. \A i, n \in DOMAIN Names : Names[i] = Names[n] => i = n
  <2>1. CASE msg \in DOMAIN Conversions
    BY <2>1, ListTables DEF Matches, Names
  <2>2. CASE msg \in DOMAIN Columns
    BY <2>2, ColumnTables DEF Names
  <2> QED BY <2>1, <2>2
<1> QED BY <1>1

\* A field of a list is what its item is converted to, or zero.
LEMMA ListValue ==
  ASSUME IInv, Unpacked, IsList, ~IsArray, NEW k \in DOMAIN Names
  PROVE  /\ msg \in DOMAIN Conversions /\ k \in 1 .. Len(Conversions[msg])
         /\ Sent(Names[k]) \in Seq(Digits)
         /\ k <= Len(items) =>
              /\ Sent(Names[k]) = items[k]
              /\ Value(Names[k]) \in Converted(Kind(msg, k - 1), items[k], ValidLength)
         /\ ~(k <= Len(items)) =>
              /\ Sent(Names[k]) = <<>>
              /\ Value(Names[k]) = Zero(Kind(msg, k - 1))
<1> DEFINE a == Len(Conversions[msg])  b == Len(items)
<1>1. /\ msg \in DOMAIN Conversions /\ DOMAIN Names = 1 .. a /\ a \in Nat /\ b \in Nat
      /\ taken = IF a < b THEN a ELSE b
  BY Counts DEF IInv, TypeInv, Unpacked
<1>0. (CHOOSE j \in DOMAIN Names : Names[j] = Names[k]) = k
  BY <1>1, PlaceOfField
<1>2. Value(Names[k]) = m[k]
  BY <1>0 DEF Value
<1>3. Sent(Names[k]) = IF k <= b THEN items[k] ELSE <<>>
  BY <1>0 DEF Sent
<1>4. k <= b => items[k] \in Seq(Digits)
  <2>1. \A n \in 1 .. b : items[n] \in Seq(Digits)
    BY TextsType DEF IInv, TypeInv
  <2> HIDE DEF a, b
  <2> QED BY <1>1, <2>1
<1>5. k <= taken <=> k <= b
  <2> HIDE DEF a, b
  <2> QED BY <1>1
<1>6. m[k] \in IF k <= taken THEN Converted(Kind(msg, k - 1), items[k], ValidLength)
               ELSE {Zero(Kind(msg, k - 1))}
  BY DEF IInv, ListInv
<1>7. <<>> \in Seq(Digits)
  OBVIOUS
<1> HIDE DEF a, b
<1> QED BY <1>1, <1>2, <1>3, <1>4, <1>5, <1>6, <1>7 DEF a, b

\* A field that is a number is the number that was sent.
LEMMA NumberValue ==
  ASSUME IInv, Unpacked, ~IsArray, IsComplete, NEW k \in DOMAIN Names,
         Names[k] \notin NonNumbers, <<msg, Names[k]>> \notin WrongValues,
         msg # "series_number"
  PROVE  Value(Names[k]) = Atoi(Sent(Names[k])) /\ Value(Names[k]) \in Nat
<1>1. CASE IsList
  <2>1. msg \in DOMAIN Conversions
    BY <1>1, ListValue
  <2>2. Conversions[msg][k] = "num"
    BY <2>1, NumbersAreStored DEF Stores, Names
  <2>3. Kind(msg, k - 1) = "num"
    <3>1. k \in Nat
      BY <1>1, ListValue
    <3>2. (k - 1) + 1 = k
      BY <3>1
    <3> QED BY <1>1, <2>2, <3>2 DEF Kind, IsArray
  <2>4. Value(Names[k]) = Atoi(Sent(Names[k]))
    <3>1. CASE k <= Len(items)
      BY <1>1, <2>3, <3>1, ListValue DEF Converted
    <3>2. CASE ~(k <= Len(items))
      BY <1>1, <2>3, <3>2, ListValue, AtoiEmpty DEF Zero
    <3> QED BY <3>1, <3>2
  <2>5. Sent(Names[k]) \in Seq(Digits)
    BY <1>1, ListValue
  <2> QED BY <2>4, <2>5, DigitsAreNumbers, AtoiType
<1>2. CASE ~IsList
  <2> DEFINE column == Columns[msg][k]
  <2>1. TypeInv /\ ColumnInv
    BY DEF IInv
  <2>2. msg \in DOMAIN Columns /\ taken = Len(Columns[msg]) /\ Len(items) = 1
    BY <1>2, <2>1, Counts DEF TypeInv, Unpacked
  <2>3. /\ k \in DOMAIN Columns[msg] /\ DOMAIN Columns[msg] = 1 .. taken
        /\ column[2] \in Nat /\ column[3] \in Nat
    BY <2>2, ColumnTables DEF Names
  <2>4. column[2] < Len(items[1])
    <3>1. column \in Range(Columns[msg])
      BY <2>3 DEF Range
    <3> QED BY <1>2, <3>1 DEF IsComplete
  <2>5. TextAt(column[2]) = {SubSeq(items[1], column[2] + 1, Len(items[1]))}
    BY <2>4 DEF TextAt
  <2>6. ~IsSeries(column)
    BY DEF IsSeries
  <2>7. m[k] \in ColumnValues(column, m[1])
    BY <1>2, <2>1, <2>3 DEF ColumnInv
  <2>8. m[k] = Atoi(SubstrCopy(SubSeq(items[1], column[2] + 1, Len(items[1])), column[3]))
    BY <2>5, <2>6, <2>7 DEF ColumnValues
  <2>9. Value(Names[k]) = m[k]
    BY <2>2, PlaceOfField DEF Value
  <2>10. Sent(Names[k]) =
           SubstrCopy(SubSeq(items[1], column[2] + 1, Len(items[1])), column[3])
    BY <1>2, <2>2, PlaceOfField DEF Sent
  <2>11. m[k] \in Nat
    BY <1>2, <2>1, <2>2, <2>3, <2>6, <2>7, ColumnType DEF TypeInv
  <2> QED BY <2>8, <2>9, <2>10, <2>11
<1> QED BY <1>1, <1>2

\* Dividing loses nothing that is shown.
LEMMA NumberIsExact ==
  ASSUME NEW style, IsNumber(style), NEW value \in Nat, NEW form \in Formats
  PROVE  LET p == Numbers[style][1]
             d == Decimals(style, form)
         IN  ((value * 10^d) \div p) * p = value * 10^d
<1> DEFINE p == Numbers[style][1]  d == Decimals(style, form)
<1>1. \/ p = 1 /\ (d = 0 \/ d = 2)
      \/ p = 10 /\ (d = 1 \/ d = 2)
  <2>1. style \in {"number", "amperes", "va", "wh", "wh_double", "percent", "celsius",
                   "tenth_v", "tenth_a", "tenth_hz"}
    BY DEF Numbers, IsNumber
  <2>2. /\ Numbers["number"][1] = 1 /\ Numbers["number"][2] = 0
        /\ Numbers["amperes"][1] = 1 /\ Numbers["amperes"][2] = 0
        /\ Numbers["va"][1] = 1 /\ Numbers["va"][2] = 0
        /\ Numbers["wh"][1] = 1 /\ Numbers["wh"][2] = 0
        /\ Numbers["percent"][1] = 1 /\ Numbers["percent"][2] = 0
        /\ Numbers["celsius"][1] = 1 /\ Numbers["celsius"][2] = 0
    BY DEF Numbers
  <2>3. Numbers["wh_double"][1] = 1 /\ Numbers["wh_double"][2] = 2
    BY DEF Numbers
  <2>4. /\ Numbers["tenth_v"][1] = 10 /\ Numbers["tenth_v"][2] = 1
        /\ Numbers["tenth_a"][1] = 10 /\ Numbers["tenth_a"][2] = 1
        /\ Numbers["tenth_hz"][1] = 10 /\ Numbers["tenth_hz"][2] = 1
    BY DEF Numbers
  <2>5. CASE style \in {"number", "amperes", "va", "wh", "percent", "celsius"}
    BY <2>2, <2>5 DEF Decimals
  <2>6. CASE style = "wh_double"
    BY <2>3, <2>6 DEF Decimals
  <2>7. CASE style \in {"tenth_v", "tenth_a", "tenth_hz"}
    BY <2>4, <2>7 DEF Decimals
  <2> QED BY <2>1, <2>5, <2>6, <2>7
<1>2. 10^0 = 1 /\ 10^1 = 10 /\ 10^2 = 100
  OBVIOUS
<1> HIDE DEF p, d
<1>3. ASSUME p = 1, NEW q \in Nat PROVE ((value * q) \div p) * p = value * q
  <2>1. value * q \in Nat
    OBVIOUS
  <2> DEFINE v == value * q
  <2> HIDE DEF v
  <2>2. (v \div 1) * 1 = v
    BY <2>1 DEF v
  <2> QED BY <1>3, <2>2 DEF v
<1>4. ((value * 10) \div 10) * 10 = value * 10 /\ ((value * 100) \div 10) * 10 = value * 100
  OBVIOUS
<1>5. CASE p = 1
  <2>1. 10^d = 1 \/ 10^d = 100
    BY <1>1, <1>2, <1>5
  <2>2. 10^d \in Nat
    BY <2>1
  <2> QED BY <1>3, <1>5, <2>2 DEF p, d
<1>6. CASE p = 10 /\ d = 1
  <2>1. ((value * 10^d) \div p) * p = ((value * 10) \div 10) * 10 /\ value * 10^d = value * 10
    BY <1>2, <1>6
  <2> QED BY <1>4, <2>1 DEF p, d
<1>7. CASE p = 10 /\ d = 2
  <2>1. ((value * 10^d) \div p) * p = ((value * 100) \div 10) * 10 /\ value * 10^d = value * 100
    BY <1>2, <1>7
  <2> QED BY <1>4, <2>1 DEF p, d
<1> QED BY <1>1, <1>5, <1>6, <1>7

\* Two characters, one and two more.
LEMMA TwoAndTwo ==
  ASSUME NEW S, NEW s \in Seq(S), NEW t \in Seq(S), NEW c \in S, Len(s) = 2, Len(t) = 2
  PROVE  s \o <<c>> \o t \in Seq(S) /\ Len(s \o <<c>> \o t) = 5
<1> DEFINE front == s \o <<c>>
<1>1. <<c>> \in Seq(S) /\ Len(<<c>>) = 1
  OBVIOUS
<1>2. front \in Seq(S) /\ Len(front) = 3
  <2> HIDE DEF front
  <2>1. front \in Seq(S)
    BY <1>1 DEF front
  <2>2. Len(front) = Len(s) + Len(<<c>>)
    BY <1>1, ConcatProperties DEF front
  <2> QED BY <1>1, <2>1, <2>2
<1> HIDE DEF front
<1>3. front \o t \in Seq(S)
  BY <1>2
<1>4. Len(front \o t) = Len(front) + Len(t)
  BY <1>2, ConcatProperties
<1> QED BY <1>2, <1>3, <1>4 DEF front

\* A time of four digits is printed with the same digits.
LEMMA TimeShown ==
  ASSUME NEW text \in Seq(Digits), Len(text) = 4, NEW time \in TimeOf(text), NEW key,
         NEW form \in Formats
  PROVE  Line(key, "time", time, form).text =
           SubSeq(text, 1, 2) \o <<Colon>> \o SubSeq(text, 3, 4)
<1> DEFINE hour == SubSeq(text, 1, 2)  minute == SubSeq(text, 3, 4)
           clock == hour \o <<Colon>> \o minute
<1>0. \A k \in 1 .. 4 : text[k] \in Digits
  <2>1. \A k \in 1 .. Len(text) : text[k] \in Digits
    BY ElementOfSeq
  <2> QED BY <2>1
<1>1. /\ hour \in Seq(Digits) /\ Len(hour) = 2
      /\ minute \in Seq(Digits) /\ Len(minute) = 2
  <2>1. hour \in Seq(Digits) /\ Len(hour) = 2
    BY <1>0, SubSeqProperties
  <2>2. minute \in Seq(Digits) /\ Len(minute) = 2
    BY <1>0, SubSeqProperties
  <2> QED BY <2>1, <2>2
<1>2. SubstrCopy(text, 2) = hour
  BY DEF SubstrCopy
<1>3. SubstrCopy(SubSeq(text, 3, Len(text)), 2) = minute
  <2>1. SubstrCopy(minute, 2) = SubSeq(minute, 1, 2)
    BY <1>1 DEF SubstrCopy
  <2> HIDE DEF minute
  <2>2. SubSeq(minute, 1, 2) = minute
    BY <1>1
  <2> QED BY <2>1, <2>2 DEF minute
<1>4. time.h = Atoi(hour) /\ time.m = Atoi(minute)
  <2> HIDE DEF hour, minute
  <2>1. TimeOf(text) = {[h |-> Atoi(hour), m |-> minutes] : minutes \in {Atoi(minute)}}
    BY <1>2, <1>3 DEF TimeOf
  <2> QED BY <2>1
<1> HIDE DEF hour, minute
<1>5. Printed(time.h, 2) = hour /\ Printed(time.m, 2) = minute
  BY <1>1, <1>4, PrintedAtoi
<1>6. ClockText(time) = clock
  BY <1>5 DEF ClockText
<1>7. clock \in Seq(0 .. 11) /\ Len(clock) = 5
  <2>1. hour \in Seq(0 .. 11) /\ minute \in Seq(0 .. 11)
    BY <1>1 DEF Digits
  <2>2. Colon \in 0 .. 11
    BY DEF Colon
  <2> QED BY <1>1, <2>1, <2>2, TwoAndTwo
<1> HIDE DEF clock
<1>8. \A room \in {PrintedChars, PrintedChars - 1} : SubstrCopy(clock, room) = clock
  <2>1. SubSeq(clock, 1, 5) = clock
    BY <1>7
  <2> QED BY <1>7, <2>1 DEF SubstrCopy, PrintedChars
<1>9. Wording("time", time, form) = clock
  BY <1>6 DEF Wording
<1>10. Line(key, "time", time, form) = TextLine(key, "time", time, form)
  BY DEF Line, IsNumber, Numbers
<1>11. TextLine(key, "time", time, form).text \in
         {clock, SubstrCopy(clock, PrintedChars), SubstrCopy(clock, PrintedChars - 1)}
  BY <1>9 DEF TextLine
<1> QED BY <1>8, <1>10, <1>11 DEF clock, hour, minute

\* Messages with columns show no times, and of a series number only a text.
LEMMA ColumnStyles ==
  ASSUME NEW message \in DOMAIN Columns, NEW j \in DOMAIN MessageRows(message)
  PROVE  /\ MessageRows(message)[j][2] # "time"
         /\ message = "series_number" => MessageRows(message)[j][2] = "text"
<1>1. CASE message = "series_number"
  BY <1>1, RowTables
<1>2. CASE message = "working_mode"
  BY <1>2, RowTables
<1>3. CASE message \notin {"series_number", "working_mode"}
  <2>1. MessageRows(message) = Rows("number", FieldNames(message))
    BY <1>3, RowTables, ColumnMessages
  <2> QED BY <1>3, <2>1 DEF Rows
<1> QED BY <1>1, <1>2, <1>3

\* print.c and the callbacks of p18.c: whatever the reply and in every format, a
\* number is printed as the quantity that was sent for its field and with its
\* unit, and a time with its digits.
THEOREM NumbersAreShown == Spec => []ShownAsDeclared
<1>1. ASSUME IInv PROVE ShownAsDeclared
  <2> SUFFICES ASSUME out # <<>>, ~IsArray, IsComplete
               PROVE  LET line  == Last(out)
                          field == Printing[Len(out)][1]
                      IN  /\ \/ field \in Questions \/ <<msg, field>> \in WrongValues
                             \/ Faithful(line, field)
                          /\ "unit" \in DOMAIN line /\ field \notin WrongUnits =>
                               line.unit = IF format = "json" THEN "" ELSE DeclaredUnit(field)
    BY DEF ShownAsDeclared
  <2> DEFINE n == Len(out)  field == Printing[n][1]  style == Printing[n][2]  line == Last(out)
  <2>1. /\ Unpacked /\ n \in DOMAIN Printing
        /\ line = Line(Key(msg, field), style, Value(field), format)
    BY <1>1, LinesPrinted DEF LineAt
  <2>2. /\ Printing = MessageRows(msg) /\ format \in Formats
        /\ msg \in DOMAIN Conversions \cup DOMAIN Columns
        /\ IsList <=> msg \in DOMAIN Conversions
    BY <1>1, KindsOfMessages
    DEF IInv, TypeInv, Printing, Messages, ListMessages, IsList, IsArray
  <2>3. PICK k \in DOMAIN Names : field = Names[k]
    <3>1. PICK row : /\ Ordered(Printing, Names, row)
                     /\ \A k \in DOMAIN Names : row[k] = 0 <=> <<msg, Names[k]>> \in Omitted
      BY <2>2, MessageTables DEF RowsAre, Names
    <3>2. PICK k \in DOMAIN Names : row[k] = n
      BY <2>1, <3>1 DEF Ordered
    <3>3. n # 0
      BY <1>1, LinesPrinted
    <3> QED BY <3>1, <3>2, <3>3 DEF Ordered
  <2>4. Shows(field, style)
    BY <2>1, <2>2, MessageTables DEF RowsAre, AllShow
  <2> HIDE DEF field, style, line, n
  <2>5. ASSUME IsNumber(style)
        PROVE  /\ line = NumberLine(Key(msg, field), style, Value(field), format)
               /\ DOMAIN line = {"key", "number", "decimals", "unit"}
    BY <2>1, <2>5, Lines
  <2>6. ASSUME ~IsNumber(style) PROVE DOMAIN line = {"key", "text", "quotes"}
    BY <2>1, <2>6, Lines
  <2>7. ASSUME "unit" \in DOMAIN line, field \notin WrongUnits
        PROVE  line.unit = IF format = "json" THEN "" ELSE DeclaredUnit(field)
    <3>1. IsNumber(style)
      BY <2>6, <2>7
    <3>2. line.unit = Unit(style, format)
      BY <2>5, <3>1 DEF NumberLine
    <3> QED BY <2>4, <2>7, <3>1, <3>2 DEF Unit, Shows
  <2>8. ASSUME field \notin Questions, <<msg, field>> \notin WrongValues
        PROVE  Faithful(line, field)
    <3>1. CASE IsNumber(style)
      <4>1. field \notin NonNumbers /\ Parts(field) = Numbers[style][1]
        BY <2>4, <3>1 DEF Shows
      <4>2. msg # "series_number"
        <5>1. ~IsNumber("text")
          BY DEF IsNumber, Numbers
        <5> QED BY <2>1, <2>2, <3>1, <5>1, ColumnStyles, ColumnMessages DEF style
      <4>3. Value(field) = Atoi(Sent(field)) /\ Value(field) \in Nat
        BY <1>1, <2>1, <2>3, <2>8, <4>1, <4>2, NumberValue
      <4>4. /\ line.number = (Value(field) * 10^line.decimals) \div Numbers[style][1]
            /\ line.decimals = Decimals(style, format)
        BY <2>5, <3>1 DEF NumberLine
      <4>5. line.number * Parts(field) = Atoi(Sent(field)) * 10^line.decimals
        BY <2>2, <3>1, <4>1, <4>3, <4>4, NumberIsExact
      <4>6. "number" \in DOMAIN line /\ field \notin {"start", "end"}
        <5>1. style # "time"
          BY <3>1 DEF IsNumber, Numbers
        <5> QED BY <2>4, <2>5, <3>1, <5>1 DEF Shows
      <4> QED BY <2>8, <4>5, <4>6 DEF Faithful, SameQuantity
    <3>2. CASE ~IsNumber(style) /\ field \in {"start", "end"}
      <4>1. style = "time" /\ "number" \notin DOMAIN line
        BY <2>4, <2>6, <3>2 DEF Shows
      <4>2. msg \in DOMAIN Conversions /\ IsList
        BY <2>1, <2>2, <4>1, ColumnStyles DEF style
      <4>3. ASSUME Len(Sent(field)) = 4
            PROVE  line.text = SubSeq(Sent(field), 1, 2) \o <<Colon>> \o SubSeq(Sent(field), 3, 4)
        <5>1. k <= Len(items)
          <6>1. Sent(field) # <<>>
            BY <4>3
          <6> QED BY <1>1, <2>1, <2>3, <4>2, <6>1, ListValue
        <5>2. Conversions[msg][k] = "time"
          BY <2>3, <3>2, <4>2, NumbersAreStored DEF Stores, Names
        <5>3. Kind(msg, k - 1) = "time"
          <6>1. (k - 1) + 1 = k
            BY <1>1, <2>1, <4>2, ListValue
          <6> QED BY <4>2, <5>2, <6>1, KindsOfMessages DEF Kind
        <5>4. Value(field) \in TimeOf(Sent(field)) /\ Sent(field) \in Seq(Digits)
          BY <1>1, <2>1, <2>3, <4>2, <5>1, <5>3, ListValue DEF Converted
        <5> QED BY <2>1, <2>2, <4>1, <4>3, <5>4, TimeShown
      <4> QED BY <2>8, <3>2, <4>1, <4>3 DEF Faithful, SameTime
    <3>3. CASE ~IsNumber(style) /\ field \notin {"start", "end"}
      <4>1. "number" \notin DOMAIN line
        BY <2>6, <3>3
      <4> QED BY <2>8, <3>3, <4>1 DEF Faithful
    <3> QED BY <3>1, <3>2, <3>3
  <2> QED BY <2>7, <2>8 DEF field, line, n
<1> QED BY <1>1, Invariance, PTL

-----------------------------------------------------------------------------
(* Nothing gets lost. *)

\* A number of an array is printed as it is.
LEMMA PlainNumber ==
  ASSUME NEW key, NEW value \in Nat, NEW form \in Formats
  PROVE  Line(key, "number", value, form).number = value
<1>1. IsNumber("number") /\ Numbers["number"][1] = 1 /\ Numbers["number"][2] = 0
  BY DEF IsNumber, Numbers
<1>2. Decimals("number", form) = 0
  BY <1>1 DEF Decimals
<1>3. 10^0 = 1 /\ (value * 1) \div 1 = value
  OBVIOUS
<1> QED BY <1>1, <1>2, <1>3 DEF Line, NumberLine

\* An array is printed as the numbers that were sent.
LEMMA ArrayIsPrinted ==
  ASSUME IInv, AllPrinted, IsArray
  PROVE  [k \in DOMAIN out |-> out[k].number] =
           [k \in 1 .. (IF Len(items) < AmpsSize THEN Len(items) ELSE AmpsSize) |->
              Atoi(items[k])]
<1> DEFINE n == Len(items)
<1>1. taken = n /\ n \in Nat /\ Held \in Nat /\ Held <= n
  <2>1. Count = n /\ Count \in Nat
    BY Counts DEF IInv, TypeInv
  <2> HIDE DEF n
  <2> QED BY <2>1, UnpackAssumption DEF AllPrinted, Unpacked, Held
<1>2. m = [k \in 1 .. Held |-> Atoi(items[k])]
  BY DEF IInv, ArrayInv
<1>3. Printing = [k \in 1 .. Held |-> <<"amps", "number">>]
  BY <1>2 DEF Printing
<1>4. DOMAIN out = 1 .. Held
  <2>1. Len(Printing) = Held
    BY <1>1, <1>3
  <2> QED BY <2>1, LinesPrinted DEF AllPrinted
<1>5. ASSUME NEW k \in 1 .. Held PROVE out[k].number = Atoi(items[k])
  <2>1. \A j \in 1 .. n : Atoi(items[j]) \in Nat
    BY TextsType DEF IInv, TypeInv
  <2>2. k \in 1 .. n
    <3> HIDE DEF n
    <3> QED BY <1>1
  <2>3. out[k] = LineAt(k)
    BY <1>4, LinesPrinted
  <2>4. LineAt(k) = Line("", "number", Atoi(items[k]), format)
    BY <1>2, <1>3 DEF LineAt
  <2>5. format \in Formats
    BY DEF IInv, TypeInv
  <2> DEFINE value == Atoi(items[k])
  <2>6. value \in Nat
    BY <2>1, <2>2
  <2> HIDE DEF value
  <2>7. Line("", "number", value, format).number = value
    BY <2>5, <2>6, PlainNumber
  <2> QED BY <2>3, <2>4, <2>7 DEF value
<1>6. Held = IF n < AmpsSize THEN n ELSE AmpsSize
  BY <1>1 DEF Held
<1> HIDE DEF n
<1>7. [k \in 1 .. Held |-> out[k].number] = [k \in 1 .. Held |-> Atoi(items[k])]
  BY <1>5
<1> QED BY <1>4, <1>6, <1>7 DEF n

\* A field of a message is one line, or none if it is omitted.
LEMMA FieldIsPrinted ==
  ASSUME IInv, AllPrinted, ~IsArray, NEW field \in Range(Names)
  PROVE  Cardinality({j \in DOMAIN out : out[j].key = Key(msg, field)}) =
           IF <<msg, field>> \in Omitted THEN 0 ELSE 1
<1>1. msg \in DOMAIN Conversions \cup DOMAIN Columns
  BY DEF IInv, TypeInv, Messages, ListMessages, IsArray
<1>2. Printing = MessageRows(msg)
  BY DEF Printing
<1>3. PICK row : /\ Ordered(Printing, Names, row)
                 /\ \A k \in DOMAIN Names : row[k] = 0 <=> <<msg, Names[k]>> \in Omitted
  BY <1>1, <1>2, MessageTables DEF RowsAre, Names
<1>4. DOMAIN out = DOMAIN Printing /\ 0 \notin DOMAIN Printing
  BY LinesPrinted DEF AllPrinted
<1>5. PICK k \in DOMAIN Names : Names[k] = field
  BY DEF Range
<1>6. ASSUME NEW j \in DOMAIN out PROVE out[j].key = Key(msg, Printing[j][1])
  <2>1. out[j] = LineAt(j)
    BY LinesPrinted
  <2> QED BY <2>1, Lines DEF LineAt
<1>7. ASSUME NEW j \in DOMAIN out, out[j].key = Key(msg, field) PROVE j = row[k]
  <2>1. PICK i \in DOMAIN Names : row[i] = j
    BY <1>3, <1>4 DEF Ordered
  <2>2. row[i] # 0
    BY <1>4, <2>1
  <2>3. Printing[j][1] = Names[i]
    BY <1>3, <2>1, <2>2 DEF Ordered
  <2>4. Key(msg, Names[i]) = Key(msg, Names[k])
    BY <1>5, <1>6, <1>7, <2>3
  <2>5. i = k
    BY <1>1, <2>4, KeysDiffer DEF Names
  <2> QED BY <2>1, <2>5
<1>8. CASE row[k] = 0
  <2>1. {j \in DOMAIN out : out[j].key = Key(msg, field)} = {}
    BY <1>4, <1>7, <1>8
  <2>2. <<msg, field>> \in Omitted
    BY <1>3, <1>5, <1>8
  <2> QED BY <2>1, <2>2, FS_EmptySet
<1>9. CASE row[k] # 0
  <2>1. row[k] \in DOMAIN out /\ Printing[row[k]][1] = field
    BY <1>3, <1>4, <1>5, <1>9 DEF Ordered
  <2>2. out[row[k]].key = Key(msg, field)
    BY <1>6, <2>1
  <2>3. {j \in DOMAIN out : out[j].key = Key(msg, field)} = {row[k]}
    BY <1>7, <2>1, <2>2
  <2>4. <<msg, field>> \notin Omitted
    BY <1>3, <1>5, <1>9
  <2> QED BY <2>3, <2>4, FS_Singleton
<1> QED BY <1>8, <1>9

\* Between any reply and the output nothing gets lost and nothing is there
\* twice: every field is one line with a key of its own, and an array is the
\* numbers that were sent, as many as it holds.
THEOREM EveryFieldIsPrinted == Spec => []NothingIsLost
<1>1. IInv => NothingIsLost
  BY ArrayIsPrinted, FieldIsPrinted DEF NothingIsLost
<1> QED BY <1>1, Invariance, PTL

\* The columns of a message but the series number follow on each other.
Contiguous(columns, width) ==
  /\ Len(columns) \in Nat \ {0} /\ DOMAIN columns = 1 .. Len(columns)
  /\ columns[1][2] = 0
  /\ \A k \in 1 .. Len(columns) :
       /\ columns[k][2] \in Nat /\ columns[k][3] \in {2, 4, 8}
       /\ columns[k][2] + columns[k][3] <= width
       /\ columns[k][2] + columns[k][3] =
            IF k = Len(columns) THEN width ELSE columns[k + 1][2]

LEMMA ColumnsContiguous ==
  ASSUME msg \in DOMAIN Columns, msg # "series_number"
  PROVE  Contiguous(Columns[msg], DataWidth)
<1>1. Contiguous(CurrentTime, 14)
  BY DEF Contiguous, CurrentTime
<1>2. Contiguous(Generated, 8)
  BY DEF Contiguous, Generated
<1>3. Contiguous(<<<<"id", 0, 2>>>>, 2) /\ Contiguous(<<<<"mode", 0, 2>>>>, 2)
  BY DEF Contiguous
<1>4. CASE msg = "current_time"
  <2>1. Columns[msg] = CurrentTime /\ DataWidth = 14
    BY <1>4 DEF Columns, DataWidth
  <2> QED BY <1>1, <2>1
<1>5. CASE msg \in {"protocol_id", "working_mode"}
  <2>1. Columns[msg] \in {<<<<"id", 0, 2>>>>, <<<<"mode", 0, 2>>>>} /\ DataWidth = 2
    BY <1>5 DEF Columns, DataWidth
  <2> QED BY <1>3, <2>1
<1>6. CASE msg \in {"total_generated", "year_generated", "month_generated", "day_generated"}
  <2>1. Columns[msg] = Generated /\ DataWidth = 8
    BY <1>6 DEF Columns, DataWidth
  <2> QED BY <1>2, <2>1
<1> QED BY <1>4, <1>5, <1>6, ColumnMessages

\* A column of numbers that is all there is printed as it was sent.
LEMMA ColumnIsPart ==
  ASSUME NEW text \in Seq(Digits), NEW a \in Nat, NEW w \in {2, 4, 8}, a + w <= Len(text)
  PROVE  Printed(Atoi(SubstrCopy(SubSeq(text, a + 1, Len(text)), w)), w) =
           SubSeq(text, a + 1, a + w)
<1> DEFINE part == SubSeq(text, a + 1, a + w)
<1>1. w \in Nat /\ w \in 1 .. 9
  OBVIOUS
<1>2. /\ SubstrCopy(SubSeq(text, a + 1, Len(text)), w) = part
      /\ part \in Seq(Digits) /\ Len(part) = w
  BY <1>1, CopyIsPart
<1> HIDE DEF part
<1>3. Printed(Atoi(part), w) = part
  BY <1>1, <1>2, PrintedAtoi
<1> QED BY <1>2, <1>3 DEF part

\* The columns put together are the data.
LEMMA ColumnsTogether ==
  ASSUME IInv, ~IsList, Unpacked, msg # "series_number", Len(items[1]) = DataWidth
  PROVE  Rejoined = items[1]
<1> DEFINE text == items[1]  n == Len(Columns[msg])  column(k) == Columns[msg][k]
           parts == [k \in 1 .. n |-> Printed(m[k], column(k)[3])]
           cut == [k \in 0 .. n |-> IF k = n THEN DataWidth ELSE column(k + 1)[2]]
<1>1. /\ TypeInv /\ ColumnInv /\ msg \in DOMAIN Columns /\ taken = n
      /\ text \in Seq(Digits)
  <2>1. TypeInv /\ ColumnInv
    BY DEF IInv
  <2>2. msg \in DOMAIN Columns /\ taken = n
    BY <2>1, Counts DEF TypeInv, Unpacked
  <2>3. text \in Seq(Digits)
    BY <2>1, TextsType DEF TypeInv
  <2> QED BY <2>1, <2>2, <2>3
<1>2. /\ n \in Nat \ {0} /\ column(1)[2] = 0
      /\ \A k \in 1 .. n :
           /\ column(k)[2] \in Nat /\ column(k)[3] \in {2, 4, 8}
           /\ column(k)[2] + column(k)[3] <= Len(text)
           /\ column(k)[2] + column(k)[3] = IF k = n THEN Len(text) ELSE column(k + 1)[2]
  BY <1>1, ColumnsContiguous DEF Contiguous
<1>3. ASSUME NEW k \in 1 .. n
      PROVE  m[k] = Atoi(SubstrCopy(SubSeq(text, column(k)[2] + 1, Len(text)), column(k)[3]))
  <2>1. column(k)[2] \in Nat /\ column(k)[2] < Len(text)
    <3> DEFINE a == column(k)[2]  w == column(k)[3]  l == Len(text)
    <3>1. a \in Nat /\ w \in {2, 4, 8} /\ a + w <= l /\ l \in Nat
      BY <1>1, <1>2
    <3> HIDE DEF a, w, l
    <3>2. a < l
      BY <3>1
    <3> QED BY <3>1, <3>2 DEF a, l
  <2>2. TextAt(column(k)[2]) = {SubSeq(text, column(k)[2] + 1, Len(text))}
    BY <2>1 DEF TextAt
  <2>3. m[k] \in ColumnValues(column(k), m[1])
    BY <1>1 DEF ColumnInv
  <2>4. ~IsSeries(column(k))
    BY DEF IsSeries
  <2> QED BY <2>2, <2>3, <2>4 DEF ColumnValues
<1>4. Rejoined = FlattenSeq(parts)
  <2>1. DOMAIN m = 1 .. n
    BY <1>1 DEF ColumnInv
  <2>2. \A k \in 1 .. n : ~IsSeries(column(k))
    BY DEF IsSeries
  <2>3. [k \in 1 .. n |-> IF IsSeries(column(k)) THEN m[k] ELSE Printed(m[k], column(k)[3])]
          = parts
    BY <2>2
  <2> QED BY <2>1, <2>3 DEF Rejoined
<1>5. cut[0] = 0 /\ cut[n] = Len(text) /\ Len(parts) = n
  BY <1>2
<1>6. ASSUME NEW k \in 1 .. n
      PROVE  /\ cut[k - 1] \in Nat /\ cut[k] \in Nat
             /\ cut[k - 1] <= cut[k] /\ cut[k] <= Len(text)
             /\ parts[k] = SubSeq(text, cut[k - 1] + 1, cut[k])
  <2> DEFINE a == column(k)[2]  w == column(k)[3]  l == Len(text)
  <2>1. a \in Nat /\ w \in {2, 4, 8} /\ a + w <= l
    BY <1>2
  <2>2. cut[k - 1] = a
    <3>1. k - 1 \in 0 .. n /\ k - 1 # n /\ (k - 1) + 1 = k
      BY <1>2
    <3> QED BY <3>1
  <2>3. cut[k] = a + w
    <3>1. k \in 0 .. n
      BY <1>2
    <3>2. a + w = IF k = n THEN Len(text) ELSE column(k + 1)[2]
      BY <1>2
    <3> QED BY <3>1, <3>2
  <2>4. parts[k] = Printed(Atoi(SubstrCopy(SubSeq(text, a + 1, l), w)), w)
    BY <1>3
  <2> HIDE DEF a, w, cut, parts, text
  <2>5. Printed(Atoi(SubstrCopy(SubSeq(text, a + 1, l), w)), w) = SubSeq(text, a + 1, a + w)
    BY <1>1, <2>1, ColumnIsPart
  <2>6. a <= a + w /\ a + w \in Nat
    <3> HIDE DEF l
    <3> QED BY <2>1
  <2> QED BY <2>1, <2>2, <2>3, <2>4, <2>5, <2>6
<1> HIDE DEF cut, parts, n, text
<1>7. n \in Nat \ {0} /\ text \in Seq(Digits)
  BY <1>1, <1>2
<1>8. FlattenSeq(parts) = text
  BY ONLY <1>5, <1>6, <1>7, PartsTogether
<1> QED BY <1>4, <1>8 DEF text

\* A series number is its length and as much text.
LEMMA SeriesTogether ==
  ASSUME IInv, ~IsList, Unpacked, msg = "series_number", Len(items[1]) = DataWidth
  PROVE  Rejoined = items[1]
<1> DEFINE text == items[1]  l == m[1]
           parts == <<Printed(m[1], 2), m[2]>>
           cut == [k \in 0 .. 2 |-> IF k = 0 THEN 0 ELSE IF k = 1 THEN 2 ELSE 2 + l]
<1>1. /\ TypeInv /\ ColumnInv /\ taken = 2 /\ text \in Seq(Digits)
      /\ Columns[msg] = SeriesNumber
  <2>1. TypeInv /\ ColumnInv
    BY DEF IInv
  <2>2. taken = 2
    BY <2>1, Counts, SeriesColumn DEF TypeInv, Unpacked
  <2>3. text \in Seq(Digits)
    BY <2>1, TextsType DEF TypeInv
  <2>4. Columns[msg] = SeriesNumber
    BY DEF Columns
  <2> QED BY <2>1, <2>2, <2>3, <2>4
<1>2. l \in Nat
  BY <1>1, SeriesLength
<1>3. Len(text) = 2 + l
  BY DEF DataWidth
<1>4. /\ SeriesNumber[1][1] = "length" /\ SeriesNumber[1][2] = 0 /\ SeriesNumber[1][3] = 2
      /\ SeriesNumber[2][1] = "id" /\ SeriesNumber[2][2] = 2
  BY DEF SeriesNumber
<1>5. ~IsSeries(SeriesNumber[1]) /\ IsSeries(SeriesNumber[2])
  BY <1>4 DEF IsSeries
<1>6. m[1] = Atoi(SubstrCopy(SubSeq(text, 0 + 1, Len(text)), 2))
  <2>1. m[1] \in ColumnValues(SeriesNumber[1], m[1])
    BY <1>1 DEF ColumnInv
  <2>2. 0 < Len(text)
    BY <1>2, <1>3
  <2>3. TextAt(0) = {SubSeq(text, 0 + 1, Len(text))}
    BY <2>2 DEF TextAt
  <2> QED BY <1>4, <1>5, <2>1, <2>3 DEF ColumnValues
<1>7. m[2] = SubSeq(text, 2 + 1, 2 + l)
  <2>1. m[2] \in ColumnValues(SeriesNumber[2], m[1])
    BY <1>1 DEF ColumnInv
  <2>2. PICK rest \in TextAt(2) : m[2] = SubstrCopy(rest, l)
    BY <1>4, <1>5, <2>1 DEF ColumnValues
  <2>3. CASE l = 0
    <3>1. ~(2 < Len(text)) /\ 2 = Len(text)
      BY <1>3, <2>3
    <3>2. rest = <<>>
      BY <2>2, <3>1 DEF TextAt
    <3>3. m[2] = <<>>
      <4>1. SubSeq(<<>>, 1, 0) = <<>> /\ Len(<<>>) = 0
        OBVIOUS
      <4> QED BY <2>2, <2>3, <3>2, <4>1 DEF SubstrCopy
    <3>4. SubSeq(text, 2 + 1, 2 + 0) = <<>>
      <4> HIDE DEF text
      <4> QED BY <1>1, SubSeqEmpty
    <3> QED BY <2>3, <3>3, <3>4
  <2>4. CASE l # 0
    <3>1. 2 < Len(text) /\ 2 + l <= Len(text)
      BY <1>2, <1>3, <2>4
    <3>2. rest = SubSeq(text, 2 + 1, Len(text))
      BY <2>2, <3>1 DEF TextAt
    <3> HIDE DEF text, l
    <3>3. text \in Seq(Digits) /\ 2 \in Nat
      BY <1>1
    <3>4. SubstrCopy(SubSeq(text, 2 + 1, Len(text)), l) = SubSeq(text, 2 + 1, 2 + l)
      BY ONLY <1>2, <3>1, <3>3, CopyIsPart
    <3> QED BY <2>2, <3>2, <3>4
  <2> QED BY <2>3, <2>4
<1>8. Printed(m[1], 2) = SubSeq(text, 0 + 1, 0 + 2)
  <2>1. 0 + 2 <= Len(text)
    BY <1>2, <1>3
  <2> HIDE DEF text
  <2> QED BY <1>1, <1>6, <2>1, ColumnIsPart
<1>9. Rejoined = FlattenSeq(parts)
  <2>1. DOMAIN m = 1 .. 2
    BY <1>1 DEF ColumnInv
  <2>2. [k \in DOMAIN m |-> IF IsSeries(Columns[msg][k]) THEN m[k]
                             ELSE Printed(m[k], Columns[msg][k][3])] = parts
    BY <1>1, <1>4, <1>5, <2>1
  <2> QED BY <2>2 DEF Rejoined
<1>10. cut[0] = 0 /\ cut[2] = Len(text) /\ Len(parts) = 2 /\ 2 \in Nat \ {0}
  BY <1>3
<1>11. ASSUME NEW k \in 1 .. 2
       PROVE  /\ cut[k - 1] \in Nat /\ cut[k] \in Nat
              /\ cut[k - 1] <= cut[k] /\ cut[k] <= Len(text)
              /\ parts[k] = SubSeq(text, cut[k - 1] + 1, cut[k])
  <2>1. cut[0] = 0 /\ cut[1] = 2 /\ cut[2] = 2 + l
    OBVIOUS
  <2>2. parts[1] = SubSeq(text, 0 + 1, 2) /\ parts[2] = SubSeq(text, 2 + 1, 2 + l)
    <3>1. 0 + 2 = 2
      OBVIOUS
    <3>2. parts[1] = Printed(m[1], 2) /\ parts[2] = m[2]
      OBVIOUS
    <3> HIDE DEF parts, text, l
    <3> QED BY <1>7, <1>8, <3>1, <3>2
  <2> HIDE DEF cut, parts, text, l
  <2>3. CASE k = 1
    <3>1. k - 1 = 0
      BY <2>3
    <3>2. 0 <= 2 /\ 2 <= Len(text)
      BY <1>2, <1>3
    <3>3. cut[k - 1] = 0 /\ cut[k] = 2 /\ parts[k] = SubSeq(text, 0 + 1, 2)
      BY <2>1, <2>2, <2>3, <3>1
    <3> QED BY ONLY <3>2, <3>3
  <2>4. CASE k = 2
    <3>1. k - 1 = 1
      BY <2>4
    <3>2. 2 <= 2 + l /\ 2 + l <= Len(text) /\ 2 + l \in Nat
      BY <1>2, <1>3
    <3>3. cut[k - 1] = 2 /\ cut[k] = 2 + l /\ parts[k] = SubSeq(text, 2 + 1, 2 + l)
      BY <2>1, <2>2, <2>4, <3>1
    <3> QED BY ONLY <3>2, <3>3
  <2> QED BY <2>3, <2>4
<1> HIDE DEF cut, parts, text
<1>12. FlattenSeq(parts) = text
  BY ONLY <1>1, <1>10, <1>11, PartsTogether
<1> QED BY <1>9, <1>12 DEF text

\* Of data that has all its columns no character is left out, taken twice or
\* taken for another column's.
THEOREM DataIsKept == Spec => []ColumnsKeepTheData
<1>1. IInv => ColumnsKeepTheData
  BY ColumnsTogether, SeriesTogether DEF ColumnsKeepTheData
<1> QED BY <1>1, Invariance, PTL

-----------------------------------------------------------------------------
(* The words: which styles the rows of which fields have. *)

TextFields ==
  {"main_cpu_version", "slave1_cpu_version", "slave2_cpu_version", "mppt", "serial_number"}

\* What the code stores of a field that is shown by a word or as text.
WordKinds(kinds, fields) ==
  \A k \in DOMAIN fields :
    /\ fields[k] \in TextFields => kinds[k] \in {"cpu", "mppt", "serial"}
    /\ fields[k] \in {"start", "end"} => kinds[k] = "time"
    /\ fields[k] \notin TextFields \cup {"start", "end"} => kinds[k] \in {"num", "flag", "one", "none"}
    /\ fields[k] = "load_connected" => kinds[k] = "one"

\* Which style the row of a field has.
Speaks(field, style) ==
  /\ style \in DOMAIN Numbers \cup DOMAIN Labels \cup {"text", "time", "bool", "flag", "fault"}
  /\ style = "text" <=> field \in TextFields
  /\ style = "time" <=> field \in {"start", "end"}
  /\ style = "load" <=> field = "load_connected"
  /\ field \in Questions \ {"load_connected", "settings_values_changed"} =>
       style \in {"bool", "flag"}

AllSpeak(rows) == \A j \in DOMAIN rows : Speaks(rows[j][1], rows[j][2])

\* The questions by their names.
LEMMA QuestionsAre ==
  Questions =
    {"load_connected", "settings_values_changed"}
    \cup
    {"line_fail", "output_circuit_short", "inverter_over_temperature", "fan_lock",
     "battery_voltage_high", "battery_low", "battery_under", "over_load",
     "eeprom_fail", "power_limit", "pv1_voltage_high", "pv2_voltage_high",
     "mppt1_overload_warning", "mppt2_overload_warning",
     "battery_too_low_to_charge_for_scc1", "battery_too_low_to_charge_for_scc2"}
    \cup
    {"buzzer", "overload_bypass", "lcd_escape_to_default_page_after_1min_timeout",
     "overload_restart", "over_temp_restart", "backlight_on",
     "alarm_on_primary_source_interrupt", "fault_code_record"}
    \cup
    {"flag_buzzer", "flag_overload_restart", "flag_over_temp_restart",
     "flag_backlight_on", "flag_alarm_on_primary_source_interrupt",
     "flag_fault_code_record", "flag_overload_bypass",
     "flag_lcd_escape_to_default_page_after_1min_timeout"}
<1> DEFINE Asks(rows) == {row[1] : row \in {r \in Range(rows) : r[2] \in {"bool", "flag"}}}
<1>0. ASSUME NEW rows
      PROVE  Asks(rows) = {rows[j][1] : j \in {k \in DOMAIN rows : rows[k][2] \in {"bool", "flag"}}}
  BY DEF Range
<1>1. Asks(FaultsRows) = {FaultsFields[j] : j \in 2 .. 17}
  <2>1. /\ DOMAIN FaultsRows = 1 .. 17
        /\ \A j \in 1 .. 17 : FaultsRows[j] = <<FaultsFields[j], IF j = 1 THEN "fault" ELSE "bool">>
    BY DEF FaultsRows, FaultsFields, Rows
  <2>2. {k \in DOMAIN FaultsRows : FaultsRows[k][2] \in {"bool", "flag"}} = 2 .. 17
    BY <2>1
  <2> HIDE DEF Asks
  <2> QED BY <1>0, <2>1, <2>2
<1>2. Asks(FlagsRows) = {FlagsFields[j] : j \in 1 .. 8}
  <2>1. /\ DOMAIN FlagsRows = 1 .. 8
        /\ \A j \in 1 .. 8 : FlagsRows[j] = <<FlagsFields[j], "flag">>
    BY DEF FlagsRows, FlagsFields, Rows
  <2>2. {k \in DOMAIN FlagsRows : FlagsRows[k][2] \in {"bool", "flag"}} = 1 .. 8
    BY <2>1
  <2> HIDE DEF Asks
  <2> QED BY <1>0, <2>1, <2>2
<1>3. Asks(DefaultsRows) = {DefaultsRows[j][1] : j \in 17 .. 24}
  <2>1. DOMAIN DefaultsRows = 1 .. 24
    BY DEF DefaultsRows, Rows
  <2>2. /\ \A j \in 1 .. 16 : DefaultsRows[j][2] \notin {"bool", "flag"}
        /\ \A j \in 17 .. 24 : DefaultsRows[j][2] = "flag"
    BY SMTT(40) DEF DefaultsRows, Rows
  <2>3. {k \in DOMAIN DefaultsRows : DefaultsRows[k][2] \in {"bool", "flag"}} = 17 .. 24
    BY <2>1, <2>2
  <2> HIDE DEF Asks
  <2> QED BY <1>0, <2>1, <2>3
<1>4. Range(FaultsRows \o FlagsRows \o DefaultsRows) =
        Range(FaultsRows) \cup Range(FlagsRows) \cup Range(DefaultsRows)
  <2> DEFINE all == FaultsRows \o FlagsRows \o DefaultsRows
  <2>1. /\ DOMAIN all = 1 .. 49 /\ DOMAIN FaultsRows = 1 .. 17 /\ DOMAIN FlagsRows = 1 .. 8
        /\ DOMAIN DefaultsRows = 1 .. 24
    BY DEF FaultsRows, FaultsFields, FlagsRows, FlagsFields, DefaultsRows, Rows
  <2>2. \A j \in 1 .. 17 : all[j] = FaultsRows[j]
    BY DEF FaultsRows, FaultsFields, FlagsRows, FlagsFields, DefaultsRows, Rows
  <2>3. \A j \in 18 .. 25 : all[j] = FlagsRows[j - 17]
    <3> DEFINE eight == SubSeq(FlagsFields, 1, 8)
    <3>1. DOMAIN eight = 1 .. 8 /\ Len(eight) = 8
      BY DEF FlagsFields
    <3>2. \A j \in 18 .. 25 : all[j] = <<eight[j - 17], "flag">>
      <4> HIDE DEF eight
      <4> QED BY <3>1 DEF FaultsRows, FaultsFields, FlagsRows, DefaultsRows, Rows, eight
    <3>3. \A j \in 18 .. 25 : j - 17 \in DOMAIN eight
      <4> HIDE DEF eight
      <4> QED BY <3>1
    <3> QED BY ONLY <3>2, <3>3 DEF FlagsRows, Rows
  <2>4. \A j \in 26 .. 49 : all[j] = DefaultsRows[j - 25]
    <3> USE DEF FaultsRows, FaultsFields, FlagsRows, FlagsFields, DefaultsRows, Rows
    <3>1. \A j \in 26 .. 33 : all[j] = DefaultsRows[j - 25]
      OBVIOUS
    <3>2. \A j \in 34 .. 41 : all[j] = DefaultsRows[j - 25]
      OBVIOUS
    <3>3. \A j \in 42 .. 49 : all[j] = DefaultsRows[j - 25]
      OBVIOUS
    <3>4. \A j \in 26 .. 49 : j \in 26 .. 33 \/ j \in 34 .. 41 \/ j \in 42 .. 49
      BY ONLY DEF all
    <3> QED BY ONLY <3>1, <3>2, <3>3, <3>4
  <2> HIDE DEF all
  <2>5. \A j \in 1 .. 8 : all[j + 17] = FlagsRows[j]
    <3>1. \A j \in 1 .. 8 : j + 17 \in 18 .. 25 /\ (j + 17) - 17 = j
      OBVIOUS
    <3> QED BY <2>3, <3>1
  <2>6. \A j \in 1 .. 24 : all[j + 25] = DefaultsRows[j]
    <3>1. \A j \in 1 .. 24 : j + 25 \in 26 .. 49 /\ (j + 25) - 25 = j
      OBVIOUS
    <3> QED BY <2>4, <3>1
  <2>7. ASSUME NEW j \in 1 .. 49
        PROVE  all[j] \in Range(FaultsRows) \cup Range(FlagsRows) \cup Range(DefaultsRows)
    <3>1. CASE j \in 1 .. 17
      BY <2>1, <2>2, <3>1 DEF Range
    <3>2. CASE j \in 18 .. 25
      <4>1. j - 17 \in 1 .. 8
        BY <3>2
      <4> QED BY <2>1, <2>3, <3>2, <4>1 DEF Range
    <3>3. CASE j \in 26 .. 49
      <4>1. j - 25 \in 1 .. 24
        BY <3>3
      <4> QED BY <2>1, <2>4, <3>3, <4>1 DEF Range
    <3> QED BY <3>1, <3>2, <3>3
  <2>8. /\ Range(FaultsRows) \subseteq Range(all) /\ Range(FlagsRows) \subseteq Range(all)
        /\ Range(DefaultsRows) \subseteq Range(all)
    <3>1. /\ \A j \in 1 .. 17 : j \in 1 .. 49
          /\ \A j \in 1 .. 8 : j + 17 \in 1 .. 49
          /\ \A j \in 1 .. 24 : j + 25 \in 1 .. 49
      OBVIOUS
    <3> QED BY <2>1, <2>2, <2>5, <2>6, <3>1 DEF Range
  <2>9. Range(all) \subseteq Range(FaultsRows) \cup Range(FlagsRows) \cup Range(DefaultsRows)
    BY <2>1, <2>7 DEF Range
  <2> QED BY <2>8, <2>9 DEF all
<1>5. Asks(FaultsRows \o FlagsRows \o DefaultsRows) =
        Asks(FaultsRows) \cup Asks(FlagsRows) \cup Asks(DefaultsRows)
  BY <1>4
<1>6. Questions = {"load_connected", "settings_values_changed"}
                    \cup Asks(FaultsRows \o FlagsRows \o DefaultsRows)
  BY DEF Questions
<1> HIDE DEF Asks
<1>7. {FaultsFields[j] : j \in 2 .. 17} =
        {"line_fail", "output_circuit_short", "inverter_over_temperature", "fan_lock",
         "battery_voltage_high", "battery_low", "battery_under", "over_load",
         "eeprom_fail", "power_limit", "pv1_voltage_high", "pv2_voltage_high",
         "mppt1_overload_warning", "mppt2_overload_warning",
         "battery_too_low_to_charge_for_scc1", "battery_too_low_to_charge_for_scc2"}
  BY SMTT(40) DEF FaultsFields
<1>8. {FlagsFields[j] : j \in 1 .. 8} =
        {"buzzer", "overload_bypass", "lcd_escape_to_default_page_after_1min_timeout",
         "overload_restart", "over_temp_restart", "backlight_on",
         "alarm_on_primary_source_interrupt", "fault_code_record"}
  BY SMTT(40) DEF FlagsFields
<1>9. {DefaultsRows[j][1] : j \in 17 .. 24} =
        {"flag_buzzer", "flag_overload_restart", "flag_over_temp_restart",
         "flag_backlight_on", "flag_alarm_on_primary_source_interrupt",
         "flag_fault_code_record", "flag_overload_bypass",
         "flag_lcd_escape_to_default_page_after_1min_timeout"}
  BY SMTT(40) DEF DefaultsRows, Rows
<1>10. Questions = {"load_connected", "settings_values_changed"}
                     \cup {FaultsFields[j] : j \in 2 .. 17} \cup {FlagsFields[j] : j \in 1 .. 8}
                     \cup {DefaultsRows[j][1] : j \in 17 .. 24}
  BY ONLY <1>1, <1>2, <1>3, <1>5, <1>6
<1> QED BY ONLY <1>7, <1>8, <1>9, <1>10


LEMMA WordsAreStored ==
  ASSUME NEW message \in DOMAIN Conversions
  PROVE  WordKinds(Conversions[message], FieldNames(message))
<1> USE DEF WordKinds, TextFields, Times
<1>1. WordKinds(CpuVersion, <<"main_cpu_version", "slave1_cpu_version", "slave2_cpu_version">>)
  BY DEF CpuVersion
<1>2. WordKinds(RatedInformation, RatedFields)
  BY DEF RatedInformation, RatedFields
<1>3. WordKinds(GeneralStatus, StatusFields)
  BY DEF GeneralStatus, StatusFields, DirectionFields
<1>4. WordKinds(FaultsWarnings, FaultsFields)
  BY DEF FaultsWarnings, FaultsFields
<1>5. WordKinds(FlagsStatuses, FlagsFields)
  BY DEF FlagsStatuses, FlagsFields
<1>6. WordKinds(Defaults, DefaultsFields)
  BY DEF Defaults, DefaultsFields
<1>7. WordKinds(ParallelRatedInformation, ParallelRatedFields)
  BY DEF ParallelRatedInformation, ParallelRatedFields
<1>8. WordKinds(ParallelGeneralStatus, ParallelStatusFields)
  BY DEF ParallelGeneralStatus, ParallelStatusFields, DirectionFields
<1>9. WordKinds(TimeBucket, TimeFields)
  BY DEF TimeBucket, TimeFields
<1> HIDE DEF WordKinds
<1> QED
  BY <1>1, <1>2, <1>3, <1>4, <1>5, <1>6, <1>7, <1>8, <1>9, ListMessageNames, FieldTables,
     ConversionTables

\* What is stored of a question that its row answers with yes or no.
LEMMA AnswersAreStored ==
  ASSUME NEW message \in DOMAIN Conversions, NEW k \in DOMAIN FieldNames(message),
         FieldNames(message)[k] \in Questions \ {"load_connected", "settings_values_changed"}
  PROVE  Conversions[message][k] = "flag"
<1> DEFINE Flags(kinds, fields) ==
             \A i \in DOMAIN fields :
               fields[i] \in Questions \ {"load_connected", "settings_values_changed"} =>
                 kinds[i] = "flag"
<1> USE QuestionsAre DEF Times
<1>1. Flags(CpuVersion, <<"main_cpu_version", "slave1_cpu_version", "slave2_cpu_version">>)
  BY DEF CpuVersion
<1>2. Flags(RatedInformation, RatedFields)
  BY DEF RatedInformation, RatedFields
<1>3. Flags(GeneralStatus, StatusFields)
  BY DEF GeneralStatus, StatusFields, DirectionFields
<1>4. Flags(FaultsWarnings, FaultsFields)
  BY DEF FaultsWarnings, FaultsFields
<1>5. Flags(FlagsStatuses, FlagsFields)
  BY DEF FlagsStatuses, FlagsFields
<1>6. Flags(Defaults, DefaultsFields)
  BY DEF Defaults, DefaultsFields
<1>7. Flags(ParallelRatedInformation, ParallelRatedFields)
  BY DEF ParallelRatedInformation, ParallelRatedFields
<1>8. Flags(ParallelGeneralStatus, ParallelStatusFields)
  BY DEF ParallelGeneralStatus, ParallelStatusFields, DirectionFields
<1>9. Flags(TimeBucket, TimeFields)
  BY DEF TimeBucket, TimeFields
<1>10. Flags(Conversions[message], FieldNames(message))
  <2> HIDE DEF Flags
  <2> QED
    BY <1>1, <1>2, <1>3, <1>4, <1>5, <1>6, <1>7, <1>8, <1>9, ListMessageNames, FieldTables,
       ConversionTables
<1> QED BY <1>10

\* All styles there are, and those of the labels.
LEMMA StylesAre ==
  /\ DOMAIN Labels =
       {"battery_type", "input_range", "output_priority", "charge_priority", "machine",
        "topology", "output_model", "solar_priority", "mppt_status", "battery_power",
        "dc_ac_power", "line_power", "mode", "connection", "settings", "load"}
  /\ DOMAIN Numbers =
       {"number", "amperes", "va", "wh", "wh_double", "percent", "celsius", "tenth_v",
        "tenth_a", "tenth_hz"}
  BY DEF Labels, Numbers

\* A message without conversions to truth values asks no such question.
LEMMA NoAnswers ==
  ASSUME NEW message \in DOMAIN Conversions, NEW rows,
         \E row : Ordered(rows, FieldNames(message), row),
         \A k \in DOMAIN FieldNames(message) : Conversions[message][k] # "flag"
  PROVE  \A j \in DOMAIN rows :
           rows[j][1] \notin Questions \ {"load_connected", "settings_values_changed"}
<1> DEFINE fields == FieldNames(message)
<1>1. PICK row : Ordered(rows, fields, row)
  OBVIOUS
<1>2. ASSUME NEW j \in DOMAIN rows PROVE \E k \in DOMAIN fields : rows[j][1] = fields[k]
  <2>1. PICK k \in DOMAIN fields : row[k] = j
    BY <1>1 DEF Ordered
  <2>2. j # 0
    BY <1>1 DEF Ordered
  <2> QED BY <1>1, <2>1, <2>2 DEF Ordered
<1>3. \A k \in DOMAIN fields :
        fields[k] \notin Questions \ {"load_connected", "settings_values_changed"}
  BY AnswersAreStored
<1> QED BY <1>2, <1>3

LEMMA RowsSpeak ==
  /\ AllSpeak(RatedRows) /\ AllSpeak(StatusRows) /\ AllSpeak(FaultsRows) /\ AllSpeak(FlagsRows)
  /\ AllSpeak(DefaultsRows) /\ AllSpeak(ParallelRatedRows) /\ AllSpeak(ParallelStatusRows)
<1>1. AllSpeak(RatedRows)
  <2>1. DOMAIN RatedRows = 1 .. 25
    BY ONLY SMTT(20) DEF Rows, RatedRows
  <2>2. \A j \in 1 .. 25 : RatedRows[j][2] \in 
          {"number", "amperes", "va", "wh", "tenth_v", "tenth_a", "tenth_hz", "battery_type",
           "input_range", "output_priority", "charge_priority", "machine", "topology",
           "output_model", "solar_priority", "text"}
    BY ONLY SMTT(40) DEF Rows, RatedRows
  <2>3. \A j \in 1 .. 25 :
          /\ RatedRows[j][2] = "text" <=> RatedRows[j][1] \in TextFields
          /\ RatedRows[j][2] = "load" <=> RatedRows[j][1] = "load_connected"
          /\ RatedRows[j][1] \notin {"start", "end"}
    BY ONLY SMTT(40) DEF TextFields, Rows, RatedRows
  <2>4. \A j \in 1 .. 25 :
          RatedRows[j][1] \notin Questions \ {"load_connected", "settings_values_changed"}
    <3>1. \A k \in DOMAIN RatedFields : RatedInformation[k] # "flag"
      BY DEF RatedInformation, RatedFields, Times
    <3>2. \E row : Ordered(RatedRows, RatedFields, row)
      BY RowsOrdered
    <3>3. /\ FieldNames("rated_information") = RatedFields
          /\ Conversions["rated_information"] = RatedInformation /\ "rated_information" \in DOMAIN Conversions
      BY FieldTables, ConversionTables, ListMessageNames
    <3> QED BY <2>1, <3>1, <3>2, <3>3, NoAnswers
  <2> QED BY <2>1, <2>2, <2>3, <2>4, StylesAre DEF AllSpeak, Speaks
<1>2. AllSpeak(StatusRows)
  <2>1. DOMAIN StatusRows = 1 .. 28
    BY ONLY SMTT(20) DEF Rows, StatusRows, GridRows, PanelRows,
       ChargerRows, DirectionRows
  <2>2. \A j \in 1 .. 28 : StatusRows[j][2] \in 
          {"number", "amperes", "va", "wh", "wh_double", "percent", "celsius", "tenth_v",
           "tenth_hz", "fault", "mppt_status", "battery_power", "dc_ac_power", "line_power",
           "mode", "connection", "settings", "load"}
    BY ONLY SMTT(80) DEF Rows, StatusRows, GridRows, PanelRows,
       ChargerRows, DirectionRows
  <2>3. \A j \in 1 .. 28 : StatusRows[j][1] \notin TextFields \cup {"start", "end"}
    BY ONLY SMTT(80) DEF TextFields, Rows, StatusRows, GridRows, PanelRows,
       ChargerRows, DirectionRows
  <2>4. \A j \in 1 .. 28 : StatusRows[j][2] = "load" <=> StatusRows[j][1] = "load_connected"
    BY ONLY SMTT(80) DEF Rows, StatusRows, GridRows, PanelRows,
       ChargerRows, DirectionRows
  <2>5. \A j \in 1 .. 28 :
          StatusRows[j][1] \notin Questions \ {"load_connected", "settings_values_changed"}
    <3>1. \A k \in DOMAIN StatusFields : GeneralStatus[k] # "flag"
      BY DEF GeneralStatus, StatusFields, DirectionFields, Times
    <3>2. \E row : Ordered(StatusRows, StatusFields, row)
      BY RowsOrdered
    <3>3. /\ FieldNames("general_status") = StatusFields
          /\ Conversions["general_status"] = GeneralStatus /\ "general_status" \in DOMAIN Conversions
      BY FieldTables, ConversionTables, ListMessageNames
    <3> QED BY <2>1, <3>1, <3>2, <3>3, NoAnswers
  <2> QED BY <2>1, <2>2, <2>3, <2>4, <2>5, StylesAre DEF AllSpeak, Speaks
<1>3. AllSpeak(ParallelRatedRows)
  <2>1. DOMAIN ParallelRatedRows = 1 .. 6
    BY ONLY SMTT(20) DEF ParallelRatedRows
  <2>2. \A j \in 1 .. 6 : ParallelRatedRows[j][2] \in {"connection", "text", "charge_priority", "amperes", "output_model"}
    BY ONLY SMTT(40) DEF ParallelRatedRows
  <2>3. \A j \in 1 .. 6 :
          /\ ParallelRatedRows[j][2] = "text" <=> ParallelRatedRows[j][1] \in TextFields
          /\ ParallelRatedRows[j][2] = "load" <=> ParallelRatedRows[j][1] = "load_connected"
          /\ ParallelRatedRows[j][1] \notin {"start", "end"}
    BY ONLY SMTT(40) DEF TextFields, ParallelRatedRows
  <2>4. \A j \in 1 .. 6 :
          ParallelRatedRows[j][1] \notin Questions \ {"load_connected", "settings_values_changed"}
    <3>1. \A k \in DOMAIN ParallelRatedFields : ParallelRatedInformation[k] # "flag"
      BY DEF ParallelRatedInformation, ParallelRatedFields, Times
    <3>2. \E row : Ordered(ParallelRatedRows, ParallelRatedFields, row)
      BY RowsOrdered
    <3>3. /\ FieldNames("parallel_rated_information") = ParallelRatedFields
          /\ Conversions["parallel_rated_information"] = ParallelRatedInformation /\ "parallel_rated_information" \in DOMAIN Conversions
      BY FieldTables, ConversionTables, ListMessageNames
    <3> QED BY <2>1, <3>1, <3>2, <3>3, NoAnswers
  <2> QED BY <2>1, <2>2, <2>3, <2>4, StylesAre DEF AllSpeak, Speaks
<1>4. AllSpeak(ParallelStatusRows)
  <2>1. DOMAIN ParallelStatusRows = 1 .. 27
    BY ONLY SMTT(20) DEF Rows, ParallelStatusRows, GridRows, PanelRows,
       ChargerRows, DirectionRows
  <2>2. \A j \in 1 .. 27 : ParallelStatusRows[j][2] \in 
          {"number", "amperes", "va", "wh", "wh_double", "percent", "celsius", "tenth_v",
           "tenth_hz", "fault", "mppt_status", "battery_power", "dc_ac_power", "line_power",
           "mode", "connection", "settings", "load"}
    BY ONLY SMTT(80) DEF Rows, ParallelStatusRows, GridRows, PanelRows,
       ChargerRows, DirectionRows
  <2>3. \A j \in 1 .. 27 : ParallelStatusRows[j][1] \notin TextFields \cup {"start", "end"}
    BY ONLY SMTT(80) DEF TextFields, Rows, ParallelStatusRows, GridRows, PanelRows,
       ChargerRows, DirectionRows
  <2>4. \A j \in 1 .. 27 : ParallelStatusRows[j][2] = "load" <=> ParallelStatusRows[j][1] = "load_connected"
    BY ONLY SMTT(80) DEF Rows, ParallelStatusRows, GridRows, PanelRows,
       ChargerRows, DirectionRows
  <2>5. \A j \in 1 .. 27 :
          ParallelStatusRows[j][1] \notin Questions \ {"load_connected", "settings_values_changed"}
    <3>1. \A k \in DOMAIN ParallelStatusFields : ParallelGeneralStatus[k] # "flag"
      BY DEF ParallelGeneralStatus, ParallelStatusFields, DirectionFields, Times
    <3>2. \E row : Ordered(ParallelStatusRows, ParallelStatusFields, row)
      BY RowsOrdered
    <3>3. /\ FieldNames("parallel_general_status") = ParallelStatusFields
          /\ Conversions["parallel_general_status"] = ParallelGeneralStatus /\ "parallel_general_status" \in DOMAIN Conversions
      BY FieldTables, ConversionTables, ListMessageNames
    <3> QED BY <2>1, <3>1, <3>2, <3>3, NoAnswers
  <2> QED BY <2>1, <2>2, <2>3, <2>4, <2>5, StylesAre DEF AllSpeak, Speaks
<1>5. AllSpeak(FaultsRows)
  <2>1. /\ DOMAIN FaultsRows = 1 .. 17
        /\ \A j \in 1 .. 17 : FaultsRows[j][2] = IF j = 1 THEN "fault" ELSE "bool"
        /\ FaultsRows[1][1] = "fault_code"
    BY DEF FaultsRows, FaultsFields, Rows
  <2>2. \A j \in 1 .. 17 :
          FaultsRows[j][1] \notin TextFields \cup {"start", "end", "load_connected"}
    BY ONLY SMTT(40) DEF FaultsRows, FaultsFields, Rows, TextFields
  <2>3. "fault_code" \notin Questions
    BY QuestionsAre
  <2> QED BY <2>1, <2>2, <2>3 DEF AllSpeak, Speaks
<1>6. AllSpeak(FlagsRows)
  <2>1. DOMAIN FlagsRows = 1 .. 8 /\ \A j \in 1 .. 8 : FlagsRows[j][2] = "flag"
    BY DEF FlagsRows, FlagsFields, Rows
  <2>2. \A j \in 1 .. 8 : FlagsRows[j][1] \notin TextFields \cup {"start", "end", "load_connected"}
    BY ONLY SMTT(40) DEF FlagsRows, FlagsFields, Rows, TextFields
  <2> QED BY <2>1, <2>2 DEF AllSpeak, Speaks
<1>7. AllSpeak(DefaultsRows)
  <2>1. DOMAIN DefaultsRows = 1 .. 24
    BY DEF DefaultsRows, Rows
  <2>2. \A j \in 1 .. 24 :
          IF j <= 16
            THEN DefaultsRows[j][2] \in {"tenth_v", "tenth_hz", "input_range", "amperes",
                   "battery_type", "output_priority", "charge_priority", "solar_priority",
                   "machine", "output_model"}
            ELSE DefaultsRows[j][2] = "flag"
    BY ONLY SMTT(40) DEF DefaultsRows, Rows
  <2>3. \A j \in 1 .. 24 :
          DefaultsRows[j][1] \notin TextFields \cup {"start", "end", "load_connected"}
    BY ONLY SMTT(40) DEF DefaultsRows, Rows, TextFields
  <2>4. \A j \in 1 .. 16 : DefaultsRows[j][1] \notin Questions
    <3> DEFINE numbers ==
                 {"ac_output_voltage", "ac_output_freq", "ac_input_voltage_range",
                  "battery_under_voltage", "charging_bulk_voltage", "charging_float_voltage",
                  "battery_recharge_voltage", "battery_redischarge_voltage",
                  "max_ac_charging_current", "max_charging_current", "battery_type",
                  "output_source_priority", "charger_source_priority", "solar_power_priority",
                  "machine_type", "output_model_setting"}
    <3>1. \A j \in 1 .. 16 : DefaultsRows[j][1] \in numbers
      BY ONLY SMTT(40) DEF DefaultsRows, Rows
    <3>2. \A field \in numbers : field \notin Questions
      BY ONLY QuestionsAre, SMTT(20)
    <3> HIDE DEF numbers
    <3> QED BY ONLY <3>1, <3>2
  <2>5. \A j \in 1 .. 24 : ~(j <= 16) \/ j \in 1 .. 16
    OBVIOUS
  <2> QED BY <2>1, <2>2, <2>3, <2>4, <2>5, StylesAre DEF AllSpeak, Speaks
<1> QED BY ONLY <1>1, <1>2, <1>3, <1>4, <1>5, <1>6, <1>7

-----------------------------------------------------------------------------
(* The words: what a field that is shown by one holds. *)

\* What an item may be stored as, by the kind of its conversion.
LEMMA WordsStored ==
  ASSUME NEW kind, NEW value \in Seq(Digits), NEW length \in Nat,
         NEW stored \in Converted(kind, value, length)
  PROVE  /\ kind \in {"cpu", "mppt", "serial"} => stored \in Seq(Digits) /\ Len(stored) <= 31
         /\ kind = "time" => \E hours, minutes \in 0 .. 99 : stored = [h |-> hours, m |-> minutes]
         /\ kind \in {"num", "flag", "one", "none"} => stored \in Nat
         /\ kind = "one" => stored \in {0, 1} /\ (stored = 1 <=> Atoi(value) = 1)
         /\ kind = "flag" => stored \in {0, 1} /\ (stored = 1 <=> Atoi(value) > 0)
<1>1. Atoi(value) \in Nat
  BY DigitsAreNumbers, AtoiType
<1>2. ASSUME NEW len \in 0 .. 31
      PROVE  SubstrCopy(value, len) \in Seq(Digits) /\ Len(SubstrCopy(value, len)) \in 0 .. len
  <2>1. /\ SubstrCopy(value, len) \in Seq(Digits)
        /\ Len(SubstrCopy(value, len)) = IF len < Len(value) THEN len ELSE Len(value)
    BY CopyType
  <2>2. Len(value) \in Nat
    OBVIOUS
  <2> QED BY <2>1, <2>2
<1>3. SerialLength(length) \in 0 .. 31
  BY DEF SerialLength
<1>4. CASE kind \in {"cpu", "mppt", "serial"}
  <2>1. PICK len \in 0 .. 31 : stored = SubstrCopy(value, len)
    <3>1. 5 \in 0 .. 31 /\ 1 \in 0 .. 31
      OBVIOUS
    <3> QED BY <1>3, <1>4, <3>1 DEF Converted
  <2> DEFINE n == Len(stored)
  <2>2. stored \in Seq(Digits) /\ n \in 0 .. len
    BY <1>2, <2>1
  <2>3. n <= 31
    <3> HIDE DEF n
    <3> QED BY <2>2
  <2>4. kind \notin {"time", "num", "flag", "one", "none"}
    BY <1>4
  <2> QED BY ONLY <2>2, <2>3, <2>4
<1>5. CASE kind = "time"
  <2>1. ASSUME NEW text \in Seq(Digits) PROVE Atoi(SubstrCopy(text, 2)) \in 0 .. 99
    <3> DEFINE two == SubstrCopy(text, 2)  a == Len(text)  n == Len(two)
    <3>1. two \in Seq(Digits) /\ n = (IF 2 < a THEN 2 ELSE a)
      BY CopyType
    <3>2. a \in Nat
      OBVIOUS
    <3>3. n \in {0, 1, 2}
      <4> HIDE DEF n, a
      <4> QED BY <3>1, <3>2
    <3>4. n <= 9
      <4> HIDE DEF n, a
      <4> QED BY <3>3
    <3> HIDE DEF two
    <3> DEFINE number == Atoi(two)  p == 10^n
    <3>5. number \in Nat /\ number < p
      BY <3>1, <3>4, AtoiBelow
    <3>6. p \in {1, 10, 100}
      <4>1. 10^0 = 1 /\ 10^1 = 10 /\ 10^2 = 100
        OBVIOUS
      <4> HIDE DEF n, a
      <4> QED BY <3>3, <4>1
    <3>7. number \in 0 .. 99
      <4> HIDE DEF number, p
      <4> QED BY <3>5, <3>6
    <3> QED BY <3>7 DEF two
  <2>2. ~(Len(value) < 2) => SubSeq(value, 3, Len(value)) \in Seq(Digits)
    <3>1. \A k \in 3 .. Len(value) : value[k] \in Digits
      OBVIOUS
    <3> QED BY <3>1, SubSeqProperties
  <2>3. stored \in TimeOf(value)
    BY <1>5 DEF Converted
  <2>4. PICK minutes \in (IF Len(value) < 2 THEN StaleMinutes
                          ELSE {Atoi(SubstrCopy(SubSeq(value, 3, Len(value)), 2))}) :
          stored = [h |-> Atoi(SubstrCopy(value, 2)), m |-> minutes]
    BY <2>3 DEF TimeOf
  <2>5. minutes \in 0 .. 99 /\ Atoi(SubstrCopy(value, 2)) \in 0 .. 99
    BY <2>1, <2>2, <2>4, UnpackAssumption
  <2> QED BY <1>5, <2>4, <2>5
<1>6. CASE kind \in {"num", "flag", "one", "none"}
  <2> DEFINE number == Atoi(value)
  <2>1. /\ kind = "num" => stored = number
        /\ kind = "flag" => stored = IF number > 0 THEN 1 ELSE 0
        /\ kind = "one" => stored = IF number = 1 THEN 1 ELSE 0
        /\ kind = "none" => stored = 0
    BY DEF Converted, Zero
  <2>2. number \in Nat
    BY <1>1
  <2> HIDE DEF number
  <2>3. kind \notin {"cpu", "mppt", "serial", "time"}
    BY <1>6
  <2>4. /\ stored \in Nat
        /\ kind = "one" => stored \in {0, 1} /\ (stored = 1 <=> number = 1)
        /\ kind = "flag" => stored \in {0, 1} /\ (stored = 1 <=> number > 0)
    BY ONLY <1>6, <2>1, <2>2
  <2> QED BY ONLY <2>3, <2>4 DEF number
<1> QED BY <1>4, <1>5, <1>6

\* The same of a field whose item was not sent.
LEMMA WordsOfZero ==
  ASSUME NEW kind
  PROVE  /\ kind \in {"cpu", "mppt", "serial"} => Zero(kind) \in Seq(Digits) /\ Len(Zero(kind)) <= 31
         /\ kind = "time" => \E hours, minutes \in 0 .. 99 : Zero(kind) = [h |-> hours, m |-> minutes]
         /\ kind \in {"num", "flag", "one", "none"} => Zero(kind) = 0
<1>1. <<>> \in Seq(Digits) /\ Len(<<>>) <= 31 /\ 0 \in 0 .. 99
  OBVIOUS
<1> QED BY <1>1 DEF Zero

\* What a field of a list holds: text, a time or a code.
LEMMA FieldWords ==
  ASSUME IInv, Unpacked, IsList, ~IsArray, NEW k \in DOMAIN Names
  PROVE  LET field == Names[k]
             value == Value(field)
         IN  /\ field \in TextFields => value \in Seq(Digits) /\ Len(value) <= 31
             /\ field \in {"start", "end"} =>
                  \E hours, minutes \in 0 .. 99 : value = [h |-> hours, m |-> minutes]
             /\ field \notin TextFields \cup {"start", "end"} => value \in Nat
             /\ field = "load_connected" =>
                  value \in {0, 1} /\ (value = 1 <=> Atoi(Sent(field)) = 1)
             /\ field \in Questions \ {"load_connected", "settings_values_changed"} =>
                  value \in {0, 1} /\ (value = 1 <=> Atoi(Sent(field)) > 0)
<1> DEFINE field == Names[k]  value == Value(field)  kind == Kind(msg, k - 1)
<1>1. msg \in DOMAIN Conversions /\ kind = Conversions[msg][k]
  <2>1. msg \in DOMAIN Conversions /\ k \in 1 .. Len(Conversions[msg])
    BY ListValue
  <2>2. (k - 1) + 1 = k
    BY <2>1
  <2> QED BY <2>1, <2>2, KindsOfMessages DEF Kind
<1>2. /\ field \in TextFields => kind \in {"cpu", "mppt", "serial"}
      /\ field \in {"start", "end"} => kind = "time"
      /\ field \notin TextFields \cup {"start", "end"} => kind \in {"num", "flag", "one", "none"}
      /\ field = "load_connected" => kind = "one"
  <2>1. WordKinds(Conversions[msg], Names)
    BY <1>1, WordsAreStored DEF Names
  <2> QED BY <1>1, <2>1 DEF WordKinds
<1>3. field \in Questions \ {"load_connected", "settings_values_changed"} => kind = "flag"
  BY <1>1, AnswersAreStored DEF Names
<1>4. Sent(field) \in Seq(Digits)
  BY ListValue
<1>5. CASE k <= Len(items)
  <2>1. value \in Converted(kind, Sent(field), ValidLength)
    BY <1>5, ListValue
  <2>2. ValidLength \in Nat
    BY LengthType
  <2> HIDE DEF kind, value, field
  <2>3. /\ kind \in {"cpu", "mppt", "serial"} => value \in Seq(Digits) /\ Len(value) <= 31
        /\ kind = "time" => \E hours, minutes \in 0 .. 99 : value = [h |-> hours, m |-> minutes]
        /\ kind \in {"num", "flag", "one", "none"} => value \in Nat
        /\ kind = "one" => value \in {0, 1} /\ (value = 1 <=> Atoi(Sent(field)) = 1)
        /\ kind = "flag" => value \in {0, 1} /\ (value = 1 <=> Atoi(Sent(field)) > 0)
    BY <1>4, <2>1, <2>2, WordsStored, ZenonT(30)
  <2> QED BY <1>2, <1>3, <2>3 DEF value, field
<1>6. CASE ~(k <= Len(items))
  <2>1. value = Zero(kind) /\ Sent(field) = <<>>
    BY <1>6, ListValue
  <2>2. Atoi(Sent(field)) = 0
    BY <2>1, AtoiEmpty
  <2> HIDE DEF kind, value, field
  <2>3. /\ kind \in {"cpu", "mppt", "serial"} => value \in Seq(Digits) /\ Len(value) <= 31
        /\ kind = "time" => \E hours, minutes \in 0 .. 99 : value = [h |-> hours, m |-> minutes]
        /\ kind \in {"num", "flag", "one", "none"} => value = 0
    BY <2>1, WordsOfZero
  <2>4. 0 \in Nat /\ 0 \in {0, 1} /\ ~(0 = 1) /\ ~(0 > 0)
    OBVIOUS
  <2> QED BY <1>2, <1>3, <2>2, <2>3, <2>4 DEF value, field
<1> QED BY <1>5, <1>6

-----------------------------------------------------------------------------
(* The words: how a cell shows them. *)

\* A cell that has room for its text and two quotation marks shows both.
LEMMA RoomForText ==
  ASSUME NEW key, NEW style, ~IsNumber(style), NEW value, NEW form \in Formats, NEW text,
         text = Wording(style, value, form),
         IsTable(form) =>
           /\ Len(text) \in Nat /\ Len(text) <= 31 /\ SubSeq(text, 1, Len(text)) = text
           /\ HasSpace(style, text) => Len(text) <= 29
  PROVE  LET line == Line(key, style, value, form)
         IN  /\ line.text = text
             /\ form = "parsable-table" /\ HasSpace(style, text) => line.quotes = 2
<1> DEFINE line == Line(key, style, value, form)  n == Len(text)  quotes == Quotes(style, text, form)
           room == IF quotes = 0 THEN PrintedChars ELSE PrintedChars - 1
<1>1. /\ line.text = IF IsTable(form) THEN SubstrCopy(text, room) ELSE text
      /\ line.quotes = quotes
  BY DEF Line, TextLine
<1>2. ASSUME IsTable(form) PROVE SubstrCopy(text, room) = text
  <2>1. ~(room < n)
    <3>1. CASE quotes = 0
      <4>1. room = 31
        BY <3>1 DEF PrintedChars
      <4> HIDE DEF room, quotes, n
      <4> QED BY <1>2, <4>1 DEF n
    <3>2. CASE quotes # 0
      <4>1. HasSpace(style, text)
        BY <1>2, <3>2 DEF Quotes
      <4>2. room = 30
        BY <3>2 DEF PrintedChars
      <4> HIDE DEF room, quotes
      <4> QED BY <1>2, <4>1, <4>2
    <3> QED BY <3>1, <3>2
  <2> HIDE DEF room
  <2> QED BY <1>2, <2>1 DEF SubstrCopy
<1>3. ASSUME form = "parsable-table", HasSpace(style, text) PROVE quotes = 2
  <2>1. IsTable(form)
    BY <1>3 DEF IsTable
  <2>2. n + 2 <= 31
    <3>1. n \in Nat /\ n <= 29
      BY <1>3, <2>1
    <3> HIDE DEF n
    <3> QED BY <3>1
  <2> QED BY <1>3, <2>1, <2>2 DEF Quotes, PrintedChars
<1> HIDE DEF line, quotes, room
<1> QED BY <1>1, <1>2, <1>3 DEF line

\* A text of digits has no spaces.
LEMMA TextFits ==
  ASSUME NEW S, NEW text \in Seq(S), Len(text) <= 31, NEW style \in {"text", "time"}
  PROVE  /\ Len(text) \in Nat /\ SubSeq(text, 1, Len(text)) = text
         /\ ~HasSpace(style, text)
<1>1. Len(text) \in Nat
  OBVIOUS
<1>2. SubSeq(text, 1, Len(text)) = text
  OBVIOUS
<1>3. ~HasSpace(style, text)
  BY DEF HasSpace
<1> QED BY <1>1, <1>2, <1>3

\* A time has five characters.
LEMMA ClockFits ==
  ASSUME NEW hours \in 0 .. 99, NEW minutes \in 0 .. 99
  PROVE  LET clock == ClockText([h |-> hours, m |-> minutes])
         IN  clock \in Seq(0 .. 11) /\ Len(clock) = 5
<1>1. ASSUME NEW number \in 0 .. 99
      PROVE  Printed(number, 2) \in Seq(0 .. 11) /\ Len(Printed(number, 2)) = 2
  <2>1. number \in Nat /\ number < 10^9 /\ number < 10^2 /\ 2 \in 1 .. 9
    OBVIOUS
  <2>2. Printed(number, 2) \in Seq(Digits) /\ Len(Printed(number, 2)) = 2
    BY <2>1, PrintedType
  <2> QED BY <2>2 DEF Digits
<1>2. Colon \in 0 .. 11
  BY DEF Colon
<1> QED BY <1>1, <1>2, TwoAndTwo DEF ClockText

\* A label is one of the words, or of a fault code.
LEMMA LabelsAre ==
  ASSUME NEW style \in DOMAIN Labels \cup {"fault"}, NEW code \in Nat
  PROVE  /\ style = "fault" =>
              Label(style, code) \in {"Unknown"} \cup {fault[2] : fault \in FaultCodes}
         /\ style # "fault" => Label(style, code) \in Words
<1>1. CASE style = "fault"
  BY <1>1 DEF Label, FaultLabel
<1>2. CASE style # "fault"
  <2> DEFINE labels == Labels[style]
  <2>1. Len(labels) \in Nat /\ DOMAIN labels = 1 .. Len(labels)
    <3> DEFINE Is(l, n) == Len(l) = n /\ DOMAIN l = 1 .. n
    <3>1. /\ Is(Labels["input_range"], 2) /\ Is(Labels["output_priority"], 2)
          /\ Is(Labels["machine"], 2) /\ Is(Labels["topology"], 2)
          /\ Is(Labels["solar_priority"], 2) /\ Is(Labels["connection"], 2)
          /\ Is(Labels["settings"], 2) /\ Is(Labels["load"], 2)
      BY DEF Labels
    <3>2. /\ Is(Labels["battery_type"], 3) /\ Is(Labels["charge_priority"], 3)
          /\ Is(Labels["mppt_status"], 3) /\ Is(Labels["battery_power"], 3)
          /\ Is(Labels["dc_ac_power"], 3) /\ Is(Labels["line_power"], 3)
      BY DEF Labels
    <3>3. /\ Is(Labels["output_model"], 5)
      BY DEF Labels
    <3>4. /\ Is(Labels["mode"], 6)
      BY DEF Labels
    <3>5. style \in DOMAIN Labels
      BY <1>2
    <3>6. \E n \in Nat : Is(Labels[style], n)
      <4> HIDE DEF Is
      <4>1. 2 \in Nat /\ 3 \in Nat /\ 5 \in Nat /\ 6 \in Nat
        OBVIOUS
      <4> QED BY ONLY <3>1, <3>2, <3>3, <3>4, <3>5, <4>1, StylesAre
    <3> QED BY <3>6
  <2>2. code < Len(labels) => code + 1 \in DOMAIN labels
    <3> DEFINE n == Len(labels)
    <3> HIDE DEF n
    <3> QED BY <2>1 DEF n
  <2>3. code < Len(labels) => labels[code + 1] \in Range(labels)
    BY <2>2 DEF Range
  <2>4. Range(labels) \subseteq Words /\ "Unknown" \in Words
    BY <1>2 DEF Words
  <2> HIDE DEF labels
  <2>5. Label(style, code) = IF code < Len(labels) THEN labels[code + 1] ELSE "Unknown"
    BY <1>2 DEF Label, labels
  <2> QED BY <1>2, <2>3, <2>4, <2>5
<1> QED BY <1>1, <1>2

\* Nothing but labels, truth values, text and times is shown by a word.
LEMMA Wordings ==
  ASSUME NEW style, NEW value, NEW form \in Formats
  PROVE  /\ style = "text" => Wording(style, value, form) = value
         /\ style = "time" => Wording(style, value, form) = ClockText(value)
         /\ style \in {"bool", "flag"} =>
              /\ Wording(style, value, form) = Answer(style, value, form)
              /\ Wording(style, value, form) \in Words
              /\ Wording(style, value, form) \in {"Yes", "Enabled", "true"} <=> value = 1
         /\ style \in DOMAIN Labels \cup {"fault"} =>
              Wording(style, value, form) = Label(style, value)
<1>1. style \in {"bool", "flag"} =>
        /\ Answer(style, value, form) \in Words
        /\ Answer(style, value, form) \in {"Yes", "Enabled", "true"} <=> value = 1
  BY DEF Answer, Words
<1> QED BY <1>1, StylesAre DEF Wording

\* The last line: which row it is, which field of which kind, and its text.
LEMMA LastLine ==
  ASSUME IInv, out # <<>>, ~IsArray
  PROVE  LET row == Printing[Len(out)]
         IN  /\ Unpacked /\ format \in Formats
             /\ Last(out) = Line(Key(msg, row[1]), row[2], Value(row[1]), format)
             /\ \E k \in DOMAIN Names : row[1] = Names[k]
             /\ IsList => msg \in DOMAIN Conversions /\ Speaks(row[1], row[2])
             /\ ~IsList =>
                  /\ msg \in DOMAIN Columns /\ Len(out) \in DOMAIN MessageRows(msg)
                  /\ row = MessageRows(msg)[Len(out)]
<1> DEFINE n == Len(out)  row == Printing[n]
<1>1. /\ Unpacked /\ n \in DOMAIN Printing /\ n # 0
      /\ Last(out) = Line(Key(msg, row[1]), row[2], Value(row[1]), format)
  BY LinesPrinted DEF LineAt
<1>2. /\ Printing = MessageRows(msg) /\ format \in Formats
      /\ msg \in DOMAIN Conversions \cup DOMAIN Columns
      /\ IsList <=> msg \in DOMAIN Conversions
  BY KindsOfMessages
  DEF IInv, TypeInv, Printing, Messages, ListMessages, IsList, IsArray
<1>3. \E k \in DOMAIN Names : row[1] = Names[k]
  <2>1. PICK place : /\ Ordered(Printing, Names, place)
                     /\ \A k \in DOMAIN Names : place[k] = 0 <=> <<msg, Names[k]>> \in Omitted
    BY <1>2, MessageTables DEF RowsAre, Names
  <2>2. PICK k \in DOMAIN Names : place[k] = n
    BY <1>1, <2>1 DEF Ordered
  <2> QED BY <1>1, <2>1, <2>2 DEF Ordered
<1>4. ASSUME IsList PROVE Speaks(row[1], row[2])
  <2>1. AllSpeak(Rows("text", <<"main_cpu_version", "slave1_cpu_version", "slave2_cpu_version">>))
    BY QuestionsAre DEF AllSpeak, Speaks, TextFields, Rows
  <2>2. AllSpeak(Rows("time", TimeFields))
    BY QuestionsAre DEF AllSpeak, Speaks, TextFields, Rows, TimeFields
  <2>3. AllSpeak(MessageRows(msg))
    BY <1>2, <1>4, <2>1, <2>2, RowsSpeak, RowTables, ListMessageNames
  <2> QED BY <1>1, <1>2, <2>3 DEF AllSpeak
<1> HIDE DEF n
<1> QED BY <1>1, <1>2, <1>3, <1>4 DEF n

\* print.c: whatever answer an inverter sends to a question, in every format the
\* wording that is printed is that answer, and a yes only if it was sent.
THEOREM AnswersAreTrue == Spec => []AnswersAreGiven
<1>1. ASSUME IInv PROVE AnswersAreGiven
  <2> DEFINE row == Printing[Len(out)]  field == row[1]  style == row[2]  line == Last(out)
             value == Value(field)
  <2> SUFFICES ASSUME out # <<>>, ~IsArray, field \in Questions,
                      <<msg, field>> \notin WrongValues
               PROVE  SameAnswer(line, field)
    BY DEF AnswersAreGiven
  <2>1. /\ Unpacked /\ format \in Formats
        /\ line = Line(Key(msg, field), style, value, format)
    BY <1>1, LastLine
  <2>2. PICK k \in DOMAIN Names : field = Names[k]
    BY <1>1, LastLine
  <2>3. IsList
    <3>1. SUFFICES ASSUME ~IsList PROVE FALSE
      OBVIOUS
    <3>2. msg \in DOMAIN Columns
      BY <1>1, <3>1, LastLine
    <3>3. Names = [i \in DOMAIN Columns[msg] |-> Columns[msg][i][1]]
      BY <3>2, ColumnTables DEF Names
    <3>4. \A i \in DOMAIN Columns[msg] : Columns[msg][i][1] \notin Questions
      <4> USE QuestionsAre
      <4>1. \A i \in DOMAIN CurrentTime : CurrentTime[i][1] \notin Questions
        BY DEF CurrentTime
      <4>2. \A i \in DOMAIN Generated : Generated[i][1] \notin Questions
        BY DEF Generated
      <4>3. \A i \in DOMAIN SeriesNumber : SeriesNumber[i][1] \notin Questions
        BY DEF SeriesNumber
      <4>4. /\ \A i \in DOMAIN <<<<"id", 0, 2>>>> : <<<<"id", 0, 2>>>>[i][1] \notin Questions
            /\ \A i \in DOMAIN <<<<"mode", 0, 2>>>> : <<<<"mode", 0, 2>>>>[i][1] \notin Questions
        OBVIOUS
      <4> QED BY ONLY <3>2, <4>1, <4>2, <4>3, <4>4, ColumnMessages DEF Columns
    <3> QED BY <2>2, <3>3, <3>4
  <2>4. msg \in DOMAIN Conversions /\ Speaks(field, style)
    BY <1>1, <2>3, LastLine
  <2>5. /\ field = "load_connected" =>
             value \in {0, 1} /\ (value = 1 <=> Atoi(Sent(field)) = 1)
        /\ field \in Questions \ {"load_connected", "settings_values_changed"} =>
             value \in {0, 1} /\ (value = 1 <=> Atoi(Sent(field)) > 0)
    <3>1. /\ Names[k] = "load_connected" =>
               Value(Names[k]) \in {0, 1} /\ (Value(Names[k]) = 1 <=> Atoi(Sent(Names[k])) = 1)
          /\ Names[k] \in Questions \ {"load_connected", "settings_values_changed"} =>
               Value(Names[k]) \in {0, 1} /\ (Value(Names[k]) = 1 <=> Atoi(Sent(Names[k])) > 0)
      BY <1>1, <2>1, <2>3, FieldWords
    <3> HIDE DEF field
    <3> QED BY <2>2, <3>1
  <2>6. field # "settings_values_changed"
    <3> DEFINE Other(fields) == \A i \in DOMAIN fields : fields[i] # "settings_values_changed"
    <3>1. Other(RatedFields)
      BY ONLY SMTT(20) DEF Other, RatedFields
    <3>2. Other(FaultsFields)
      BY ONLY SMTT(20) DEF Other, FaultsFields
    <3>3. Other(FlagsFields)
      BY DEF FlagsFields
    <3>4. Other(DefaultsFields)
      BY ONLY SMTT(20) DEF Other, DefaultsFields
    <3>5. Other(ParallelRatedFields)
      BY DEF ParallelRatedFields
    <3>6. Other(ParallelStatusFields)
      BY ONLY SMTT(20) DEF Other, ParallelStatusFields, DirectionFields
    <3>7. Other(TimeFields)
      BY DEF TimeFields
    <3>8. Other(<<"main_cpu_version", "slave1_cpu_version", "slave2_cpu_version">>)
      OBVIOUS
    <3> HIDE DEF Other
    <3>9. msg # "general_status" => Other(Names)
      BY <2>4, <3>1, <3>2, <3>3, <3>4, <3>5, <3>6, <3>7, <3>8, FieldTables, ListMessageNames
      DEF Names
    <3> HIDE DEF field
    <3> QED BY <2>2, <3>9 DEF Other, WrongValues
  <2> HIDE DEF row, field, style, line, value
  <2>7. CASE field = "load_connected"
    <3>1. style = "load"
      BY <2>4, <2>7 DEF Speaks
    <3> DEFINE word == Label("load", value)
    <3>2. word = (IF value = 1 THEN "Connected" ELSE "Disconnected") /\ value \in Nat
      <4>1. Labels["load"] = <<"Disconnected", "Connected">>
        BY DEF Labels
      <4>2. /\ <<"Disconnected", "Connected">>[0 + 1] = "Disconnected"
            /\ <<"Disconnected", "Connected">>[1 + 1] = "Connected"
            /\ 0 < Len(<<"Disconnected", "Connected">>)
            /\ 1 < Len(<<"Disconnected", "Connected">>)
        OBVIOUS
      <4>3. value = 0 \/ value = 1
        BY <2>5, <2>7
      <4>4. Label("load", 0) = "Disconnected" /\ Label("load", 1) = "Connected"
        BY <4>1, <4>2 DEF Label
      <4> QED BY <4>3, <4>4
    <3>3. word \in Words /\ Wording(style, value, format) = word
      BY <2>1, <3>1, <3>2, LabelsAre, StylesAre, Wordings
    <3>4. ~IsNumber(style)
      BY <3>1, StylesAre DEF IsNumber
    <3>5. Len(word) \in Nat /\ Len(word) <= 31 /\ Len(word) <= 29 /\ SubSeq(word, 1, Len(word)) = word
      <4> HIDE DEF word
      <4>1. Len(word) \in Nat /\ Len(word) <= 29 /\ SubSeq(word, 1, Len(word)) = word
        BY <3>3, WordsAssumption
      <4> QED BY <4>1
    <3>6. line.text = word
      <4> HIDE DEF word
      <4> QED BY <2>1, <3>3, <3>4, <3>5, RoomForText
    <3>7. (line.text = "Connected") <=> Atoi(Sent(field)) = 1
      BY <2>5, <2>7, <3>2, <3>6
    <3> QED BY <2>7, <3>7 DEF SameAnswer, SaysOne
  <2>8. CASE field # "load_connected"
    <3>1. style \in {"bool", "flag"}
      BY <2>4, <2>6, <2>8 DEF Speaks, field, row
    <3> DEFINE word == Wording(style, value, format)
    <3>2. word \in Words /\ (word \in {"Yes", "Enabled", "true"} <=> value = 1)
      BY <2>1, <3>1, Wordings
    <3>3. ~IsNumber(style)
      BY <3>1, StylesAre DEF IsNumber
    <3>4. Len(word) \in Nat /\ Len(word) <= 31 /\ Len(word) <= 29 /\ SubSeq(word, 1, Len(word)) = word
      <4> HIDE DEF word
      <4>1. Len(word) \in Nat /\ Len(word) <= 29 /\ SubSeq(word, 1, Len(word)) = word
        BY <3>2, WordsAssumption
      <4> QED BY <4>1
    <3>5. line.text = word
      <4>1. ASSUME NEW text, text = word PROVE line.text = text
        BY <2>1, <3>3, <3>4, <4>1, RoomForText
      <4> QED BY <4>1
    <3>6. line.text \in {"Yes", "Enabled", "true"} <=> Atoi(Sent(field)) > 0
      <4>1. value = 1 <=> Atoi(Sent(field)) > 0
        BY <2>5, <2>6, <2>8 DEF field, row
      <4> HIDE DEF word
      <4> QED BY <3>2, <3>5, <4>1
    <3> QED BY <2>6, <2>8, <3>6 DEF SameAnswer
  <2> QED BY <2>7, <2>8
<1> QED BY <1>1, Invariance, PTL

\* A number that stands for a code is shown by a label that fits its cell, if it
\* is not that of a fault.
LEMMA LabelShown ==
  ASSUME NEW key, NEW style \in DOMAIN Labels \cup {"fault", "bool", "flag"}, NEW value \in Nat,
         NEW form \in Formats
  PROVE  LET label == Wording(style, value, form)
             line  == Line(key, style, value, form)
         IN  \/ style = "fault" /\ IsTable(form) /\ IsTooLong(label)
             \/ /\ line.text = label
                /\ form = "parsable-table" /\ HasSpace(style, label) => line.quotes = 2
<1> DEFINE label == Wording(style, value, form)
<1>1. /\ ~IsNumber(style)
      /\ \A text : HasSpace(style, text) <=> HasSpace("fault", text)
  BY StylesAre DEF IsNumber, HasSpace
<1>2. CASE style # "fault"
  <2>1. label \in Words
    BY <1>2, LabelsAre, Wordings
  <2>2. label = Wording(style, value, form)
    OBVIOUS
  <2> HIDE DEF label
  <2>3. Len(label) \in Nat /\ Len(label) <= 29 /\ SubSeq(label, 1, Len(label)) = label
    BY <2>1, WordsAssumption
  <2>4. Len(label) <= 31
    BY <2>3
  <2> QED BY <1>1, <2>2, <2>3, <2>4, RoomForText DEF label
<1>3. CASE style = "fault" /\ ~(IsTable(form) /\ IsTooLong(label))
  <2>1. label \in Words \cup {fault[2] : fault \in FaultCodes}
    <3>1. label \in {"Unknown"} \cup {fault[2] : fault \in FaultCodes}
      BY <1>3, LabelsAre, Wordings
    <3> QED BY <3>1 DEF Words
  <2>2. label = Wording(style, value, form)
    OBVIOUS
  <2> HIDE DEF label
  <2>3. Len(label) \in Nat /\ SubSeq(label, 1, Len(label)) = label
    BY <2>1, WordsAssumption
  <2>4. IsTable(form) => Len(label) <= 31 /\ (HasSpace(style, label) => Len(label) <= 29)
    <3>1. IsTable(form) => ~(Len(label) > IF HasSpace("fault", label) THEN 29 ELSE 31)
      BY <1>3 DEF IsTooLong
    <3> DEFINE n == Len(label)
    <3>2. n \in Nat
      BY <2>3
    <3> HIDE DEF n
    <3> QED BY <1>1, <3>1, <3>2 DEF n
  <2> QED BY <1>1, <2>2, <2>3, <2>4, RoomForText DEF label
<1> QED BY <1>2, <1>3

\* A text or a time fits its cell.
LEMMA TextShown ==
  ASSUME NEW key, NEW style \in {"text", "time"}, NEW value, NEW form \in Formats,
         NEW S, Wording(style, value, form) \in Seq(S), Len(Wording(style, value, form)) <= 31
  PROVE  LET label == Wording(style, value, form)
             line  == Line(key, style, value, form)
         IN  /\ line.text = label
             /\ form = "parsable-table" /\ HasSpace(style, label) => line.quotes = 2
<1> DEFINE label == Wording(style, value, form)
<1>1. ~IsNumber(style)
  BY StylesAre DEF IsNumber
<1>2. label \in Seq(S) /\ Len(label) <= 31 /\ label = Wording(style, value, form)
  OBVIOUS
<1> HIDE DEF label
<1>3. Len(label) \in Nat /\ SubSeq(label, 1, Len(label)) = label /\ ~HasSpace(style, label)
  BY <1>2, TextFits
<1> QED BY <1>1, <1>2, <1>3, RoomForText DEF label

\* The text of a series number, and the codes of the other columns.
LEMMA ColumnWords ==
  ASSUME IInv, Unpacked, ~IsList, NEW k \in DOMAIN Names
  PROVE  /\ msg \in DOMAIN Columns
         /\ msg = "series_number" /\ Names[k] = "id" /\ ~(m[1] > 31) =>
              Value(Names[k]) \in Seq(Digits) /\ Len(Value(Names[k])) <= 31
         /\ msg # "series_number" => Value(Names[k]) \in Nat
<1> DEFINE column == Columns[msg][k]  length == m[1]
<1>1. TypeInv /\ ColumnInv
  BY DEF IInv
<1>2. msg \in DOMAIN Columns /\ taken = Len(Columns[msg]) /\ Len(items) = 1
  BY <1>1, Counts DEF TypeInv, Unpacked
<1>3. /\ k \in DOMAIN Columns[msg] /\ DOMAIN Columns[msg] = 1 .. taken /\ column[2] \in Nat
      /\ Names[k] = column[1]
  BY <1>2, ColumnTables DEF Names
<1>4. Value(Names[k]) = m[k]
  BY <1>2, PlaceOfField, KindsOfMessages DEF Value
<1>5. m[k] \in ColumnValues(column, length)
  BY <1>1, <1>3 DEF ColumnInv
<1>6. ASSUME msg # "series_number" PROVE m[k] \in Nat
  <2>1. ~IsSeries(column)
    BY <1>6 DEF IsSeries
  <2> QED BY <1>1, <1>2, <1>3, <1>5, <2>1, ColumnType DEF TypeInv
<1>7. ASSUME msg = "series_number", Names[k] = "id", ~(m[1] > 31)
      PROVE  m[k] \in Seq(Digits) /\ Len(m[k]) <= 31
  <2>1. IsSeries(column)
    BY <1>3, <1>7 DEF IsSeries
  <2>2. length \in Nat
    <3>1. Len(Columns[msg]) = 2
      BY <1>7, SeriesColumn
    <3> QED BY <1>1, <1>2, <1>7, <3>1, SeriesLength
  <2> HIDE DEF length
  <2>3. PICK text \in TextAt(column[2]) : m[k] = SubstrCopy(text, length)
    BY <1>5, <2>1 DEF ColumnValues
  <2>4. text \in Seq(Digits)
    BY <1>1, <1>3, <2>3, TextsType DEF TypeInv
  <2>5. /\ SubstrCopy(text, length) \in Seq(Digits)
        /\ Len(SubstrCopy(text, length)) = IF length < Len(text) THEN length ELSE Len(text)
    BY <2>2, <2>4, CopyType
  <2>6. length <= 31
    BY <1>7, <2>2 DEF length
  <2>7. (IF length < Len(text) THEN length ELSE Len(text)) <= 31
    <3> DEFINE n == Len(text)
    <3>1. n \in Nat
      BY <2>4
    <3> HIDE DEF n
    <3> QED BY <2>2, <2>6, <3>1 DEF n
  <2> QED BY <2>3, <2>5, <2>7
<1> QED BY <1>2, <1>4, <1>6, <1>7

\* print_table: whatever the reply, every label but that of a fault that is too
\* long for a cell is printed in full, and one with a space stands between two
\* quotation marks in a parsable table.
THEOREM LabelsAreShown == Spec => []LabelsAreReadable
<1>1. ASSUME IInv PROVE LabelsAreReadable
  <2> DEFINE row == Printing[Len(out)]  field == row[1]  style == row[2]  line == Last(out)
             value == Value(field)  label == Wording(style, value, format)  key == Key(msg, field)
             Readable == /\ line.text = label
                         /\ format = "parsable-table" /\ HasSpace(style, label) => line.quotes = 2
  <2> SUFFICES ASSUME out # <<>>, "text" \in DOMAIN line,
                      ~(msg = "series_number" /\ m[1] > 31)
               PROVE  \/ style = "fault" /\ IsTable(format) /\ IsTooLong(label)
                      \/ Readable
    BY DEF LabelsAreReadable
  <2>1. ~IsArray
    <3>1. SUFFICES ASSUME IsArray PROVE FALSE
      OBVIOUS
    <3> DEFINE n == Len(out)  number == m[n]
    <3>2. Last(out) = LineAt(n) /\ n \in DOMAIN Printing
      BY <1>1, LinesPrinted
    <3> HIDE DEF n
    <3>3. Printing[n] = <<"amps", "number">>
      BY <3>1, <3>2 DEF Printing
    <3>4. Printing[n][2] = "number"
      BY <3>3
    <3>5. LineAt(n) = Line("", Printing[n][2], number, format)
      BY <3>1 DEF LineAt
    <3> HIDE DEF number
    <3>6. IsNumber("number")
      BY StylesAre DEF IsNumber
    <3>7. ASSUME NEW any, NEW some PROVE "text" \notin DOMAIN Line(any, "number", some, format)
      <4> DEFINE cell == Line(any, "number", some, format)
      <4>1. DOMAIN cell = {"key", "number", "decimals", "unit"}
        BY <3>6, Lines
      <4> HIDE DEF cell
      <4> QED BY <4>1 DEF cell
    <3>8. "text" \notin DOMAIN Line("", "number", number, format)
      BY <3>7
    <3> QED BY <3>2, <3>4, <3>5, <3>8
  <2>2. /\ Unpacked /\ format \in Formats /\ line = Line(key, style, value, format)
    BY <1>1, <2>1, LastLine
  <2>3. PICK k \in DOMAIN Names : field = Names[k]
    BY <1>1, <2>1, LastLine
  <2>4. ~IsNumber(style)
    <3> HIDE DEF style, value, key, line
    <3> QED BY <2>2, Lines DEF line
  <2>5. CASE IsList
    <3>1. Speaks(field, style)
      BY <1>1, <2>1, <2>5, LastLine
    <3>2. /\ Names[k] \in TextFields =>
               Value(Names[k]) \in Seq(Digits) /\ Len(Value(Names[k])) <= 31
          /\ Names[k] \in {"start", "end"} =>
               \E hours, minutes \in 0 .. 99 : Value(Names[k]) = [h |-> hours, m |-> minutes]
          /\ Names[k] \notin TextFields \cup {"start", "end"} => Value(Names[k]) \in Nat
      BY <1>1, <2>1, <2>2, <2>5, FieldWords
    <3> HIDE DEF row, field, style, line, key
    <3>3. CASE style = "text"
      <4>1. value \in Seq(Digits) /\ Len(value) <= 31
        BY <2>3, <3>1, <3>2, <3>3 DEF Speaks
      <4>2. label = value
        BY <2>2, <3>3, Wordings
      <4> HIDE DEF value
      <4> QED BY <2>2, <3>3, <4>1, <4>2, TextShown, ZenonT(30)
    <3>4. CASE style = "time"
      <4>1. PICK hours, minutes \in 0 .. 99 : value = [h |-> hours, m |-> minutes]
        BY <2>3, <3>1, <3>2, <3>4 DEF Speaks
      <4>2. label = ClockText(value)
        BY <2>2, <3>4, Wordings
      <4>3. label \in Seq(0 .. 11) /\ Len(label) = 5
        BY <4>1, <4>2, ClockFits
      <4> HIDE DEF value
      <4>4. Len(label) <= 31
        BY <4>3
      <4> QED BY <2>2, <3>4, <4>3, <4>4, TextShown, ZenonT(30)
    <3>5. CASE style \notin {"text", "time"}
      <4>1. value \in Nat
        BY <2>3, <3>1, <3>2, <3>5 DEF Speaks
      <4>2. style \in DOMAIN Labels \cup {"fault", "bool", "flag"}
        BY <2>4, <3>1, <3>5 DEF Speaks, IsNumber
      <4> HIDE DEF value
      <4> QED BY <2>2, <4>1, <4>2, LabelShown
    <3> QED BY <3>3, <3>4, <3>5
  <2>6. CASE ~IsList
    <3>1. /\ msg \in DOMAIN Columns /\ Len(out) \in DOMAIN MessageRows(msg)
          /\ row = MessageRows(msg)[Len(out)]
      BY <1>1, <2>1, <2>6, LastLine
    <3>2. /\ msg = "series_number" /\ Names[k] = "id" =>
               Value(Names[k]) \in Seq(Digits) /\ Len(Value(Names[k])) <= 31
          /\ msg # "series_number" => Value(Names[k]) \in Nat
      BY <1>1, <2>2, <2>6, ColumnWords
    <3>3. CASE msg = "series_number"
      <4>1. row = <<"id", "text">>
        BY <3>1, <3>3, RowTables
      <4>2. style = "text" /\ field = "id"
        BY <4>1
      <4> HIDE DEF row, field, style, line, key
      <4>3. value \in Seq(Digits) /\ Len(value) <= 31
        BY <2>3, <3>2, <3>3, <4>2
      <4>4. label = value
        BY <2>2, <4>2, Wordings
      <4> HIDE DEF value
      <4> QED BY <2>2, <4>2, <4>3, <4>4, TextShown, ZenonT(30)
    <3>4. CASE msg = "working_mode"
      <4>1. row = <<"mode", "mode">>
        BY <3>1, <3>4, RowTables
      <4>2. style = "mode"
        BY <4>1
      <4> HIDE DEF row, field, style, line, key
      <4>3. value \in Nat
        BY <2>3, <3>2, <3>4
      <4>4. style \in DOMAIN Labels \cup {"fault", "bool", "flag"}
        BY <4>2, StylesAre
      <4> HIDE DEF value
      <4> QED BY <2>2, <4>3, <4>4, LabelShown
    <3>5. CASE msg \notin {"series_number", "working_mode"}
      <4>1. MessageRows(msg) = Rows("number", FieldNames(msg))
        BY <3>1, <3>5, RowTables, ColumnMessages
      <4>2. style = "number"
        BY <3>1, <4>1 DEF Rows
      <4> QED BY <2>4, <4>2, StylesAre DEF IsNumber
    <3> QED BY <3>3, <3>4, <3>5
  <2> QED BY <2>5, <2>6
<1> QED BY <1>1, Invariance, PTL
=============================================================================
