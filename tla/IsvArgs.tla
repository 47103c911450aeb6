------------------------------- MODULE IsvArgs -------------------------------
(***************************************************************************)
(* The way of one option with arguments from the command line to a         *)
(* request: main (isv.c) takes the words, checks them, rewrites some in    *)
(* place and lets p18_build_command build the request.  Isv leaves open    *)
(* what the words are; here they are what is looked at.                    *)
(***************************************************************************)
EXTENDS P18Command

CONSTANT CommandLines   \* bound: pairs of a command and the words behind its option

\* A word means what it says: digits behind a separator only, a second sign behind
\* a colon only, one decimal, as Tenths reads it, and, where it is read as a number,
\* one that atoi can hold and that Width knows.
IsReadable(cmd, word) ==
  /\ word.sep = "" => word.more = <<>>
  /\ word.sep # ":" => word.behind = NoLead
  /\ word.sep = "." => Len(word.more) <= 1
  /\ cmd # "SET_SOLAR_CONFIG" => Atoi(word.digits) < 10^9 /\ Atoi(word.more) < 10^9

\* get_args and getopt_long: the word may be an option.
BeginsWithMinus(word) == word.lead = [blanks |-> 0, sign |-> "-"]

\* The words behind an option end where the next option is.
ASSUME CommandLinesAssumption ==
  \A line \in CommandLines :
    /\ line[1] \in AllCommands /\ line[2] \in Seq(Word)
    /\ \A k \in DOMAIN line[2] :
         /\ IsReadable(line[1], line[2][k])
         /\ k > WordsTaken(line[1]) => ~BeginsWithMinus(line[2][k])

VARIABLES
  pc,        \* "option", "check", "build", "sent" or "refused"
  command,
  words,     \* the words on the command line
  a,         \* the array a[] of main, from 1
  request    \* what p18_build_command built, or NoRequest

vars == <<pc, command, words, a, request>>

NoRequest == [set |-> FALSE, name |-> "none", length |-> 0, text |-> <<>>]

-----------------------------------------------------------------------------
(* What the code asks of a word. *)

\* strlen, of a word without letters, and isnumeric.
LeadSize(lead) == lead.blanks + (IF lead.sign = "" THEN 0 ELSE 1)
Strlen(word) ==
  LeadSize(word.lead) + Len(word.digits) + (IF word.sep = "" THEN 0 ELSE 1)
    + LeadSize(word.behind) + Len(word.more) + word.tail
IsNumeric(word) == word.lead = NoLead /\ word.key = "" /\ word.sep = "" /\ word.tail = 0

\* strcmp with a string of digits.
IsText(word, digits) == word = Numeral(digits)

\* get_uint: strtoul read something; it takes blanks and a sign in front of it.
GetUint(word) == word.key = "" /\ word.digits # <<>>

\* is_valid_parallel_id.
IsValidParallelId(word) == IsNumeric(word) /\ Strlen(word) = 1

\* validate_date_args for the year; year, month and day.
ValidYear(word) == IsNumeric(word) /\ Strlen(word) = 4 /\ Number(word) \in 2000 .. 2099
ValidMonth(word) == IsNumeric(word) /\ Strlen(word) <= 2 /\ Number(word) \in 1 .. 12
ValidDay(word) == IsNumeric(word) /\ Strlen(word) <= 2 /\ Number(word) \in 1 .. 31

\* Mutant: every fourth year is taken for the common one.
IsDateValidNoLeap(y, m, d) ==
  /\ m \in {4, 6, 9, 11} => d # 31
  /\ m = 2 => d <= 28

\* isdatevalid, for numbers that are in range.
IsDateValid(y, m, d) ==
  /\ m \in {4, 6, 9, 11} => d # 31
  /\ m = 2 => (y % 4 # 0 /\ d <= 28) \/ (y % 4 = 0 /\ d <= 29)

\* validate_date_args.
ValidDate(y, m, d) ==
  /\ ValidYear(y) /\ ValidMonth(m) /\ ValidDay(d)
  /\ IsDateValid(Number(y), Number(m), Number(d))

\* validate_time_args for hours, minutes, seconds; no digits at all are 0.
ValidTimePart(word, limit) == IsNumeric(word) /\ Strlen(word) <= 2 /\ Number(word) <= limit

\* get_float and the comparisons of a float with the limits low and high, in
\* tenths.  Below 64 a float is a multiple of 2^-18: FloatOf is the nearest to
\* a number of tenths.  Not a number compares with nothing.
Fraction == 262144   \* 2^18
FloatOf(tenths) == (tenths * Fraction * 2 + 10) \div 20
InRange(word, low, high) ==
  \/ word.key = "nan"
  \/ /\ word.key = "" /\ word.digits # <<>>
     /\ 10 * FloatOf(Tenths(word)) >= low * Fraction
     /\ 10 * FloatOf(Tenths(word)) <= high * Fraction

\* What is left of a number in an unsigned short.
Short(number) == number % 65536

\* A word cut in two at its colon.
HoursOf(word)   == [Numeral(word.digits) EXCEPT !.lead = word.lead]
MinutesOf(word) == [Numeral(word.more) EXCEPT !.lead = word.behind, !.tail = word.tail]

\* sscanf(word, "%hu:%hu"), which takes blanks and signs in front of either number,
\* and the comparisons of the two unsigned shorts; what follows the minutes is not
\* looked at.
ValidTime(word) ==
  /\ word.key = "" /\ word.digits # <<>> /\ word.sep = ":" /\ word.more # <<>>
  /\ Short(Number(HoursOf(word))) <= 23 /\ Short(Number(MinutesOf(word))) <= 59

\* A voltage as it stands in a list: "11" or "11.3".
Volts(tenths) ==
  [Numeral(Printed(tenths \div 10, 1)) EXCEPT
     !.sep = IF tenths % 10 = 0 THEN "" ELSE ".",
     !.more = IF tenths % 10 = 0 THEN <<>> ELSE <<tenths % 10>>]

\* p18_battery_util_recharging_voltages_*, redischarging_voltages_*, in tenths.
Recharging ==
  <<<<110, 113, 115, 118, 120, 123, 125, 128>>,
    <<220, 225, 230, 235, 240, 245, 250, 255>>,
    <<440, 450, 460, 470, 480, 490, 500, 510>>>>
Redischarging ==
  <<<<0, 120, 123, 125, 128, 130, 133, 135, 138, 140, 143, 145>>,
    <<0, 240, 245, 250, 255, 260, 265, 270, 275, 280, 285, 290>>,
    <<0, 480, 490, 500, 510, 520, 530, 540, 550, 560, 570, 580>>>>

\* Mutant: the last entry of a table is not looked at.
InTableShort(word, tables) ==
  \E unit \in 1 .. 3, k \in 1 .. 7 : word = Volts(tables[unit][k])

\* instrarray(word, table, ARRAY_SIZE(recharging table), NULL) for the three
\* tables: the eight first entries of either.
InTable(word, tables) ==
  \E unit \in 1 .. 3, k \in 1 .. Len(Recharging[1]) : word = Volts(tables[unit][k])

\* p18_ac_output_rated_voltages.
RatedVoltages == {202, 208, 220, 230, 240}

\* The lists "allowed" of main, and which word is looked up in them.
KeywordLists ==
  [SET_OUTPUT_SOURCE_PRIORITY   |-> <<"SUB", "SBU">>,
   SET_CHARGING_SOURCE_PRIORITY |-> <<"SF", "SU", "S">>,
   SET_SOLAR_POWER_PRIORITY     |-> <<"BLU", "LBU">>,
   SET_AC_INPUT_VOLTAGE_RANGE   |-> <<"APPLIANCE", "UPS">>,
   SET_BAT_TYPE                 |-> <<"AGM", "FLOODED", "USER">>,
   SET_OUTPUT_MODEL             |-> <<"SM", "P", "P1", "P2", "P3">>]
KeywordPlace(cmd) == IF cmd \in {"SET_CHARGING_SOURCE_PRIORITY", "SET_OUTPUT_MODEL"} THEN 2 ELSE 1

\* p18_flags_printable_list: what the user writes and what is sent.
FlagLetters ==
  [BUZZ |-> "A", OLBP |-> "B", LCDE |-> "C", OLRS |-> "D", OTRS |-> "E", BLON |-> "F",
   ALRM |-> "G", FTCR |-> "H", MTYP |-> "I"]

\* A keyword with a digit in it, such as P1.
KeyOf(name) ==
  CASE name = "P1" -> [Keyword("P") EXCEPT !.digits = <<1>>]
    [] name = "P2" -> [Keyword("P") EXCEPT !.digits = <<2>>]
    [] name = "P3" -> [Keyword("P") EXCEPT !.digits = <<3>>]
    [] OTHER -> Keyword(name)

\* instrarray: the index of a word in a list, -1 if it is not there.
IndexOf(word, list) ==
  IF \E k \in DOMAIN list : KeyOf(list[k]) = word
    THEN (CHOOSE k \in DOMAIN list : KeyOf(list[k]) = word) - 1
    ELSE -1

\* The checks of main, command by command.  A rated voltage is compared as an
\* unsigned int: a negative number is none of them.
Checked(cmd, w) ==
  CASE cmd = "YEAR_GENERATED" -> ValidYear(w[1])
    [] cmd = "MONTH_GENERATED" -> ValidYear(w[1]) /\ ValidMonth(w[2])
    [] cmd = "DAY_GENERATED" -> ValidDate(w[1], w[2], w[3])
    [] cmd \in {"PARALLEL_RATED_INFORMATION", "PARALLEL_GENERAL_STATUS"} ->
         IsNumeric(w[1]) /\ Strlen(w[1]) <= 1
    [] cmd = "SET_LOADS" -> IsText(w[1], <<0>>) \/ IsText(w[1], <<1>>)
    [] cmd = "SET_FLAG" ->
         /\ \E flag \in DOMAIN FlagLetters : w[1] = Keyword(flag)
         /\ IsText(w[2], <<0>>) \/ IsText(w[2], <<1>>)
    [] cmd \in {"SET_BAT_MAX_CHARGE_CURRENT", "SET_BAT_MAX_AC_CHARGE_CURRENT"} ->
         IsValidParallelId(w[1]) /\ GetUint(w[2]) /\ Strlen(w[2]) <= 3
    [] cmd = "SET_AC_OUTPUT_FREQ" -> IsText(w[1], <<5, 0>>) \/ IsText(w[1], <<6, 0>>)
    [] cmd = "SET_BAT_MAX_CHARGE_VOLTAGE" -> InRange(w[1], 480, 584) /\ InRange(w[2], 480, 584)
    [] cmd = "SET_AC_OUTPUT_RATED_VOLTAGE" -> GetUint(w[1]) /\ Number(w[1]) \in RatedVoltages
    [] cmd = "SET_BAT_CHARGING_THRESHOLDS" ->
         InTable(w[1], Recharging) /\ InTable(w[2], Redischarging)
    [] cmd \in DOMAIN KeywordLists ->
         /\ KeywordPlace(cmd) = 2 => IsValidParallelId(w[1])
         /\ IndexOf(w[KeywordPlace(cmd)], KeywordLists[cmd]) # -1
    [] cmd = "SET_BAT_CUTOFF_VOLTAGE" -> InRange(w[1], 400, 480)
    [] cmd = "SET_SOLAR_CONFIG" -> IsNumeric(w[1]) /\ Strlen(w[1]) <= 20
    [] cmd = "SET_DATE_TIME" ->
         /\ ValidDate(w[1], w[2], w[3])
         /\ ValidTimePart(w[4], 23) /\ ValidTimePart(w[5], 59) /\ ValidTimePart(w[6], 59)
    [] cmd \in {"SET_AC_CHARGE_TIME_BUCKET", "SET_AC_SUPPLY_LOAD_TIME_BUCKET"} ->
         ValidTime(w[1]) /\ ValidTime(w[2])
    [] OTHER -> TRUE

\* Mutant: the words of a time bucket are left as they are.
RewrittenUnsplit(cmd, w) ==
  CASE cmd = "SET_FLAG" -> [w EXCEPT ![1] = Keyword(FlagLetters[w[1].key])]
    [] cmd \in DOMAIN KeywordLists ->
         [w EXCEPT ![KeywordPlace(cmd)] =
            Numeral(<<IndexOf(w[KeywordPlace(cmd)], KeywordLists[cmd])>>)]
    [] OTHER -> w

\* What main puts into a[] for words that pass: the letter of a flag, the index
\* of a keyword (write_num), hours and minutes apart.
Rewritten(cmd, w) ==
  CASE cmd = "SET_FLAG" -> [w EXCEPT ![1] = Keyword(FlagLetters[w[1].key])]
    [] cmd \in DOMAIN KeywordLists ->
         [w EXCEPT ![KeywordPlace(cmd)] =
            Numeral(<<IndexOf(w[KeywordPlace(cmd)], KeywordLists[cmd])>>)]
    [] cmd \in {"SET_AC_CHARGE_TIME_BUCKET", "SET_AC_SUPPLY_LOAD_TIME_BUCKET"} ->
         <<HoursOf(w[1]), MinutesOf(w[1]), HoursOf(w[2]), MinutesOf(w[2])>>
    [] OTHER -> w

-----------------------------------------------------------------------------
(* One option. *)

Init ==
  /\ pc = "option"
  /\ \E line \in CommandLines : command = line[1] /\ words = line[2]
  /\ a = <<>> /\ request = NoRequest

Refuse == pc' = "refused" /\ UNCHANGED <<command, words, a, request>>

\* getopt_long takes the first word whatever it is, get_args the others if they
\* are no options.
HasWord(k) == k <= Len(words) /\ (k > 1 => ~BeginsWithMinus(words[k]))
HasWords == \A k \in 1 .. WordsTaken(command) : HasWord(k)

TooFewWords == pc = "option" /\ ~HasWords /\ Refuse

GetArgs ==
  /\ pc = "option" /\ HasWords
  /\ a' = SubSeq(words, 1, WordsTaken(command))
  /\ pc' = "check"
  /\ UNCHANGED <<command, words, request>>

\* A word does not pass.
BadWord == pc = "check" /\ ~Checked(command, a) /\ Refuse

Check ==
  /\ pc = "check" /\ Checked(command, a)
  /\ a' = Rewritten(command, a)
  /\ pc' = "build"
  /\ UNCHANGED <<command, words, request>>

\* "extra parameter found".
ExtraWord == pc = "build" /\ Len(words) > WordsTaken(command) /\ Refuse

\* query builds the request.
Build ==
  /\ pc = "build" /\ Len(words) = WordsTaken(command)
  /\ request' = BuildCommand(command, a)
  /\ pc' = "sent"
  /\ UNCHANGED <<command, words, a>>

Ended == pc \in {"refused", "sent"} /\ UNCHANGED vars

Next == TooFewWords \/ GetArgs \/ BadWord \/ Check \/ ExtraWord \/ Build \/ Ended

Spec == Init /\ [][Next]_vars

-----------------------------------------------------------------------------
(* What README.md and the usage text say of the words, kind by kind, and how  *)
(* the inverter is told.  Numbers are in the unit they are sent in.          *)

Kinds(cmd) ==
  CASE cmd = "YEAR_GENERATED" -> <<"year">>
    [] cmd = "MONTH_GENERATED" -> <<"year", "month">>
    [] cmd = "DAY_GENERATED" -> <<"year", "month", "day">>
    [] cmd \in {"PARALLEL_RATED_INFORMATION", "PARALLEL_GENERAL_STATUS"} -> <<"id">>
    [] cmd = "SET_LOADS" -> <<"bit">>
    [] cmd = "SET_FLAG" -> <<"flag", "bit">>
    [] cmd \in {"SET_BAT_MAX_CHARGE_CURRENT", "SET_BAT_MAX_AC_CHARGE_CURRENT"} -> <<"id", "amps">>
    [] cmd = "SET_AC_OUTPUT_FREQ" -> <<"frequency">>
    [] cmd = "SET_BAT_MAX_CHARGE_VOLTAGE" -> <<"charging", "charging">>
    [] cmd = "SET_AC_OUTPUT_RATED_VOLTAGE" -> <<"rated">>
    [] cmd = "SET_BAT_CHARGING_THRESHOLDS" -> <<"recharging", "redischarging">>
    [] cmd \in {"SET_CHARGING_SOURCE_PRIORITY", "SET_OUTPUT_MODEL"} -> <<"id", "keyword">>
    [] cmd \in DOMAIN KeywordLists /\ KeywordPlace(cmd) = 1 -> <<"keyword">>
    [] cmd = "SET_BAT_CUTOFF_VOLTAGE" -> <<"cutoff">>
    [] cmd = "SET_SOLAR_CONFIG" -> <<"serial">>
    [] cmd = "SET_DATE_TIME" -> <<"year", "month", "day", "hour", "minute", "minute">>
    [] cmd \in {"SET_AC_CHARGE_TIME_BUCKET", "SET_AC_SUPPLY_LOAD_TIME_BUCKET"} -> <<"time", "time">>
    [] OTHER -> <<>>

\* The codes p18.h gives the settings, with which the inverter also reports them.
KeywordValues ==
  [SUB |-> 0, SBU |-> 1, SF |-> 0, SU |-> 1, S |-> 2, BLU |-> 0, LBU |-> 1,
   APPLIANCE |-> 0, UPS |-> 1, AGM |-> 0, FLOODED |-> 1, USER |-> 2,
   SM |-> 0, P |-> 1, P1 |-> 2, P2 |-> 3, P3 |-> 4]

KeywordOf(word) == CHOOSE name \in DOMAIN KeywordValues : KeyOf(name) = word

Volt == {"charging", "recharging", "redischarging", "cutoff"}

\* What a word of some kind says.
ValueOf(kind, word) ==
  CASE kind = "keyword" -> KeywordValues[KeywordOf(word)]
    [] kind = "flag" -> FlagChars[FlagLetters[word.key]]
    [] kind \in Volt -> Tenths(word)
    [] kind = "rated" -> 10 * Number(word)
    [] kind = "time" -> 100 * Number(HoursOf(word)) + Number(MinutesOf(word))
    [] OTHER -> Number(word)

\* What it may say.
Allowed(kind) ==
  CASE kind = "year" -> 2000 .. 2099
    [] kind = "month" -> 1 .. 12
    [] kind = "day" -> 1 .. 31
    [] kind = "hour" -> 0 .. 23
    [] kind = "minute" -> 0 .. 59
    [] kind = "id" -> 0 .. 9
    [] kind = "bit" -> {0, 1}
    [] kind = "amps" -> 0 .. 999
    [] kind = "frequency" -> {50, 60}
    [] kind = "charging" -> 480 .. 584
    [] kind = "cutoff" -> 400 .. 480
    [] kind = "rated" -> {2020, 2080, 2200, 2300, 2400}
    [] kind = "recharging" -> UNION {ToSet(Recharging[unit]) : unit \in 1 .. 3}
    [] kind = "redischarging" -> UNION {ToSet(Redischarging[unit]) : unit \in 1 .. 3}
    [] kind = "time" -> {100 * h + m : h \in 0 .. 23, m \in 0 .. 59}

\* The places it is sent in.
Places(cmd, kind) ==
  CASE kind = "year" -> IF cmd = "SET_DATE_TIME" THEN 2 ELSE 4
    [] kind \in {"rated", "time"} -> 4
    [] kind \in Volt \cup {"amps"} -> 3
    [] kind \in {"month", "day", "hour", "minute", "frequency"} -> 2
    [] OTHER -> 1

\* How README.md writes the word for a value: two digits for parts of dates and
\* times, a decimal for voltages between limits.
Written(kind, value) ==
  CASE kind = "year" -> Numeral(Printed(value, 4))
    [] kind \in {"month", "day", "hour", "minute"} -> Numeral(Printed(value, 2))
    [] kind = "rated" -> Numeral(Printed(value \div 10, 3))
    [] kind \in {"charging", "cutoff"} ->
         [Numeral(Printed(value \div 10, 2)) EXCEPT !.sep = ".", !.more = <<value % 10>>]
    [] kind \in {"recharging", "redischarging"} -> Volts(value)
    [] kind = "time" ->
         [Numeral(Printed(value \div 100, 2)) EXCEPT !.sep = ":", !.more = Printed(value % 100, 2)]
    [] OTHER -> Numeral(Printed(value, 1))

\* A date is a day of the calendar.
DaysOf(y, m) ==
  IF m = 2 THEN (IF y % 4 = 0 THEN 29 ELSE 28) ELSE IF m \in {4, 6, 9, 11} THEN 30 ELSE 31
DayExists(cmd) ==
  cmd \in {"DAY_GENERATED", "SET_DATE_TIME"} =>
    Number(words[3]) <= DaysOf(Number(words[1]), Number(words[2]))

DocumentedWord(cmd, kind, word) ==
  CASE kind = "keyword" -> \E name \in ToSet(KeywordLists[cmd]) : word = KeyOf(name)
    [] kind = "flag" -> \E name \in DOMAIN FlagLetters : word = Keyword(name)
    [] kind = "serial" -> IsNumeric(word) /\ Len(word.digits) \in 1 .. 20
    [] OTHER -> /\ ValueOf(kind, word) \in Allowed(kind)
                /\ word = Written(kind, ValueOf(kind, word))

\* The words are what README.md asks for.
Documented ==
  /\ Len(words) = Len(Kinds(command))
  /\ \A k \in DOMAIN words : DocumentedWord(command, Kinds(command)[k], words[k])
  /\ DayExists(command)

\* Words that C reads in a way nobody meant: a voltage that is not a number, which
\* no limit stops; amperes below 0, which get_uint takes; and hours or minutes that
\* are negative or from 65536 up, which wrap in sscanf but not in atoi.
Misread(kind, word) ==
  \/ kind \in Volt /\ word.key = "nan"
  \/ kind = "amps" /\ Number(word) < 0
  \/ kind = "time"
       /\ \E number \in {Number(HoursOf(word)), Number(MinutesOf(word))} : Short(number) # number

\* The request's text for the values of the words.
TextOf(cmd) ==
  LET value(k) == ValueOf(Kinds(cmd)[k], words[k])
                    - (IF cmd = "SET_DATE_TIME" /\ k = 1 THEN 2000 ELSE 0)
      part(k) == Printed(value(k), Places(cmd, Kinds(cmd)[k]))
      commas == cmd \in SetCommands \ {"SET_DATE_TIME"} /\ Len(words) > 1
  IN  CASE cmd = "SET_SOLAR_CONFIG" -> SolarId(words[1].digits)
        [] cmd = "SET_FLAG" ->
             <<IF value(2) = 1 THEN EnableChar ELSE DisableChar, value(1)>>
        [] OTHER ->
             FlattenSeq([k \in DOMAIN words |->
               (IF commas /\ k > 1 THEN <<Comma>> ELSE <<>>) \o part(k)])

-----------------------------------------------------------------------------
(* Properties. *)

\* Every variable keeps its type, and a[] holds what p18_append_arguments reads.
TypeOK ==
  /\ pc \in {"option", "check", "build", "sent", "refused"}
  /\ command \in AllCommands
  /\ pc \in {"build", "sent"} => Len(a) >= ArgumentsRead(command)
  /\ pc = "sent" => request.text \in Seq(0 .. MinusChar)

\* p18_build_command: the length a request declares is the number of bytes on
\* the wire behind it, checksum and '\r' included, and the request fits the
\* buffer of query.
LengthIsDeclared ==
  pc = "sent" =>
    /\ request.length = RequestSize(request) + 3 - (2 + LengthDigits)
    /\ RequestSize(request) < 128

\* main and p18_append_arguments: whatever words are accepted, with any blanks and
\* signs, what is sent is what they say, in the form of the command, and something
\* the documents allow, unless one is of those C misreads: settings with the code the inverter reports them with, dates that exist.
SentIsMeant ==
  pc = "sent" /\ (\A k \in DOMAIN words : ~Misread(Kinds(command)[k], words[k])) =>
    /\ \A k \in DOMAIN words :
         Kinds(command)[k] \in {"keyword", "flag", "serial"}
           \/ ValueOf(Kinds(command)[k], words[k]) \in Allowed(Kinds(command)[k])
    /\ DayExists(command)
    /\ request.text = TextOf(command)

\* Documented words that are refused: voltages of 58.4, which as a float is
\* more than the double 58.4, and the last four of the redischarging tables,
\* which are searched with the length of the recharging tables.
KnownRefusal ==
  \/ command = "SET_BAT_MAX_CHARGE_VOLTAGE" /\ 584 \in {Tenths(words[1]), Tenths(words[2])}
  \/ command = "SET_BAT_CHARGING_THRESHOLDS"
       /\ \E unit \in 1 .. 3, k \in 9 .. 12 : Tenths(words[2]) = Redischarging[unit][k]

\* main: every word README.md allows is accepted, with those exceptions.
OthersAreAccepted == pc = "refused" /\ Documented => KnownRefusal

-----------------------------------------------------------------------------
(* What the documentation says and the code does not do. *)

\* README.md and usage list what the options take; none of it is refused.
DocumentedIsAccepted == ~(pc = "refused" /\ Documented)
=============================================================================
