---------------------------- MODULE IsvArgsProofs ----------------------------
(***************************************************************************)
(* Theorems about IsvArgs for all command lines: words of any length and   *)
(* with any numbers an int holds.                                          *)
(***************************************************************************)
EXTENDS IsvArgs, P18TextProofs

-----------------------------------------------------------------------------
(* The invariant. *)

TypeInv ==
  /\ pc \in {"option", "check", "build", "sent", "refused"}
  /\ command \in AllCommands /\ words \in Seq(Word)
  /\ \A k \in DOMAIN words : IsReadable(command, words[k])

\* The words that the option takes.
Taken == SubSeq(words, 1, WordsTaken(command))

\* What is in a[], and what is sent, comes from words that passed the checks;
\* what is refused has too few words, too many, or one that does not pass; a word
\* that is an option is none.
WordsInv ==
  /\ pc = "check" => a = Taken
  /\ pc = "build" => Checked(command, Taken) /\ a = Rewritten(command, Taken)
  /\ pc \in {"check", "build"} => Len(words) >= WordsTaken(command)
  /\ pc = "sent" =>
       /\ Len(words) = WordsTaken(command) /\ Checked(command, words)
       /\ a = Rewritten(command, words) /\ request = BuildCommand(command, a)
  /\ pc = "refused" =>
       ~HasWords \/ Len(words) # WordsTaken(command) \/ ~Checked(command, words)

IInv == TypeInv /\ WordsInv

LEMMA TakenType == \A cmd : WordsTaken(cmd) \in 0 .. 6
  BY DEF WordsTaken

\* An option whose words are all there is takes them all.
LEMMA TakesAll ==
  ASSUME TypeInv, Len(words) = WordsTaken(command)
  PROVE  Taken = words
<1>1. SubSeq(words, 1, Len(words)) = words
  BY SubSeqFull DEF TypeInv
<1> QED BY <1>1 DEF Taken

\* The words are there.
LEMMA HasThem ==
  ASSUME TypeInv, HasWords
  PROVE  Len(words) >= WordsTaken(command)
<1> DEFINE n == WordsTaken(command)  l == Len(words)
<1>1. n \in 0 .. 6 /\ l \in Nat
  BY TakenType DEF TypeInv
<1>2. n \in 1 .. n => n <= l
  BY DEF HasWords, HasWord
<1> HIDE DEF n, l
<1>3. l >= n
  BY <1>1, <1>2
<1> QED BY <1>3 DEF n, l

LEMMA InitInv == Init => IInv
<1> SUFFICES ASSUME Init PROVE IInv
  OBVIOUS
<1>1. PICK line \in CommandLines : command = line[1] /\ words = line[2]
  BY DEF Init
<1>2. TypeInv
  BY <1>1, CommandLinesAssumption DEF Init, TypeInv
<1>3. WordsInv
  BY DEF Init, WordsInv
<1> QED BY <1>2, <1>3 DEF IInv

LEMMA StepInv == IInv /\ [Next]_vars => IInv'
<1> SUFFICES ASSUME IInv, [Next]_vars PROVE IInv'
  OBVIOUS
<1>1. TypeInv /\ WordsInv
  BY DEF IInv
<1>2. WordsTaken(command) \in 0 .. 6 /\ Len(words) \in Nat
  BY <1>1, TakenType DEF TypeInv
<1>3. ASSUME UNCHANGED <<command, words>>,
             pc' \in {"option", "check", "build", "sent", "refused"}
      PROVE  TypeInv' /\ Taken' = Taken /\ HasWords' = HasWords
  BY <1>1, <1>3 DEF TypeInv, Taken, HasWords, HasWord
<1>4. CASE TooFewWords
  <2>1. TypeInv' /\ pc' = "refused" /\ ~HasWords'
    BY <1>3, <1>4 DEF TooFewWords, Refuse
  <2>2. WordsInv'
    BY <2>1 DEF WordsInv
  <2> QED BY <2>1, <2>2 DEF IInv
<1>5. CASE GetArgs
  <2>1. TypeInv' /\ Taken' = Taken /\ Len(words) >= WordsTaken(command)
    BY <1>1, <1>3, <1>5, HasThem DEF GetArgs
  <2>2. WordsInv'
    BY <1>5, <2>1 DEF GetArgs, WordsInv, Taken
  <2> QED BY <2>1, <2>2 DEF IInv
<1>6. CASE BadWord
  <2>1. TypeInv' /\ pc' = "refused" /\ ~Checked(command, Taken)
        /\ UNCHANGED <<command, words>>
    BY <1>1, <1>3, <1>6 DEF BadWord, Refuse, WordsInv
  <2>2. Len(words) = WordsTaken(command) => ~Checked(command, words)
    BY <1>1, <2>1, TakesAll
  <2>3. WordsInv'
    BY <2>1, <2>2 DEF WordsInv
  <2> QED BY <2>1, <2>3 DEF IInv
<1>7. CASE Check
  <2>1. TypeInv' /\ Taken' = Taken
    BY <1>3, <1>7 DEF Check
  <2>2. WordsInv'
    BY <1>1, <1>7, <2>1 DEF Check, WordsInv
  <2> QED BY <2>1, <2>2 DEF IInv
<1>8. CASE ExtraWord
  <2>1. TypeInv' /\ pc' = "refused" /\ Len(words) > WordsTaken(command)
        /\ UNCHANGED <<command, words>>
    BY <1>3, <1>8 DEF ExtraWord, Refuse
  <2>2. WordsInv'
    BY <1>2, <2>1 DEF WordsInv
  <2> QED BY <2>1, <2>2 DEF IInv
<1>9. CASE Build
  <2>1. TypeInv' /\ Taken = words
    BY <1>1, <1>3, <1>9, TakesAll DEF Build
  <2>2. WordsInv'
    BY <1>1, <1>9, <2>1 DEF Build, WordsInv
  <2> QED BY <2>1, <2>2 DEF IInv
<1>10. CASE UNCHANGED vars
  <2>1. TypeInv' /\ Taken' = Taken /\ HasWords' = HasWords
    BY <1>1, <1>3, <1>10 DEF vars, TypeInv
  <2>2. WordsInv'
    BY <1>1, <1>10, <2>1 DEF vars, WordsInv
  <2> QED BY <2>1, <2>2 DEF IInv
<1> QED
  BY <1>4, <1>5, <1>6, <1>7, <1>8, <1>9, <1>10 DEF Next, Ended

LEMMA Invariance == Spec => []IInv
  BY InitInv, StepInv, PTL DEF Spec

-----------------------------------------------------------------------------
(* The tables, command by command. *)

\* The commands with words of their own.
Dates == {"YEAR_GENERATED", "MONTH_GENERATED", "DAY_GENERATED"}
Parallels == {"PARALLEL_RATED_INFORMATION", "PARALLEL_GENERAL_STATUS"}
Currents == {"SET_BAT_MAX_CHARGE_CURRENT", "SET_BAT_MAX_AC_CHARGE_CURRENT"}
Buckets == {"SET_AC_CHARGE_TIME_BUCKET", "SET_AC_SUPPLY_LOAD_TIME_BUCKET"}
OneKeyword ==
  {"SET_OUTPUT_SOURCE_PRIORITY", "SET_SOLAR_POWER_PRIORITY", "SET_AC_INPUT_VOLTAGE_RANGE",
   "SET_BAT_TYPE"}
IdAndKeyword == {"SET_CHARGING_SOURCE_PRIORITY", "SET_OUTPUT_MODEL"}
WithWords ==
  Dates \cup Parallels \cup Currents \cup Buckets \cup OneKeyword \cup IdAndKeyword
  \cup {"SET_LOADS", "SET_FLAG", "SET_AC_OUTPUT_FREQ", "SET_BAT_MAX_CHARGE_VOLTAGE",
        "SET_AC_OUTPUT_RATED_VOLTAGE", "SET_BAT_CHARGING_THRESHOLDS",
        "SET_BAT_CUTOFF_VOLTAGE", "SET_SOLAR_CONFIG", "SET_DATE_TIME"}

LEMMA KeywordCommands == DOMAIN KeywordLists = OneKeyword \cup IdAndKeyword
  BY DEF KeywordLists, OneKeyword, IdAndKeyword

LEMMA WithoutWords ==
  ASSUME NEW cmd \in AllCommands \ WithWords, NEW w
  PROVE  /\ WordsTaken(cmd) = 0 /\ ArgumentsRead(cmd) = 0 /\ Kinds(cmd) = <<>>
         /\ Checked(cmd, w) = TRUE /\ Rewritten(cmd, w) = w /\ AppendArguments(cmd, w) = <<>>
<1> USE DEF WithWords, Dates, Parallels, Currents, Buckets, OneKeyword, IdAndKeyword
<1>1. WordsTaken(cmd) = 0
  BY DEF WordsTaken
<1>2. ArgumentsRead(cmd) = 0
  BY DEF ArgumentsRead
<1>3. Kinds(cmd) = <<>>
  BY KeywordCommands DEF Kinds
<1>4. Checked(cmd, w) = TRUE
  BY KeywordCommands DEF Checked
<1>5. Rewritten(cmd, w) = w
  BY KeywordCommands DEF Rewritten
<1>6. AppendArguments(cmd, w) = <<>>
  BY DEF AppendArguments
<1> QED BY <1>1, <1>2, <1>3, <1>4, <1>5, <1>6

LEMMA WordsTables ==
  /\ \A cmd \in Buckets : WordsTaken(cmd) = 2 /\ ArgumentsRead(cmd) = 4
  /\ \A cmd \in Currents \cup IdAndKeyword
                \cup {"MONTH_GENERATED", "SET_FLAG", "SET_BAT_MAX_CHARGE_VOLTAGE",
                      "SET_BAT_CHARGING_THRESHOLDS"} :
       WordsTaken(cmd) = 2 /\ ArgumentsRead(cmd) = 2
  /\ \A cmd \in Parallels \cup OneKeyword
                \cup {"YEAR_GENERATED", "SET_LOADS", "SET_AC_OUTPUT_FREQ",
                      "SET_AC_OUTPUT_RATED_VOLTAGE", "SET_BAT_CUTOFF_VOLTAGE",
                      "SET_SOLAR_CONFIG"} :
       WordsTaken(cmd) = 1 /\ ArgumentsRead(cmd) = 1
  /\ WordsTaken("DAY_GENERATED") = 3 /\ ArgumentsRead("DAY_GENERATED") = 3
  /\ WordsTaken("SET_DATE_TIME") = 6 /\ ArgumentsRead("SET_DATE_TIME") = 6
<1> USE DEF Parallels, Currents, Buckets, OneKeyword, IdAndKeyword, WordsTaken, ArgumentsRead
<1>1. \A cmd \in Buckets : WordsTaken(cmd) = 2 /\ ArgumentsRead(cmd) = 4
  OBVIOUS
<1>2. \A cmd \in Currents \cup IdAndKeyword
                 \cup {"MONTH_GENERATED", "SET_FLAG", "SET_BAT_MAX_CHARGE_VOLTAGE",
                       "SET_BAT_CHARGING_THRESHOLDS"} :
        WordsTaken(cmd) = 2 /\ ArgumentsRead(cmd) = 2
  OBVIOUS
<1>3. \A cmd \in Parallels \cup OneKeyword
                 \cup {"YEAR_GENERATED", "SET_LOADS", "SET_AC_OUTPUT_FREQ",
                       "SET_AC_OUTPUT_RATED_VOLTAGE", "SET_BAT_CUTOFF_VOLTAGE",
                       "SET_SOLAR_CONFIG"} :
        WordsTaken(cmd) = 1 /\ ArgumentsRead(cmd) = 1
  OBVIOUS
<1>4. /\ WordsTaken("DAY_GENERATED") = 3 /\ ArgumentsRead("DAY_GENERATED") = 3
      /\ WordsTaken("SET_DATE_TIME") = 6 /\ ArgumentsRead("SET_DATE_TIME") = 6
  OBVIOUS
<1> QED BY <1>1, <1>2, <1>3, <1>4

LEMMA KindTables ==
  /\ Kinds("YEAR_GENERATED") = <<"year">>
  /\ Kinds("MONTH_GENERATED") = <<"year", "month">>
  /\ Kinds("DAY_GENERATED") = <<"year", "month", "day">>
  /\ \A cmd \in Parallels : Kinds(cmd) = <<"id">>
  /\ Kinds("SET_LOADS") = <<"bit">>
  /\ Kinds("SET_FLAG") = <<"flag", "bit">>
  /\ \A cmd \in Currents : Kinds(cmd) = <<"id", "amps">>
  /\ Kinds("SET_AC_OUTPUT_FREQ") = <<"frequency">>
  /\ Kinds("SET_BAT_MAX_CHARGE_VOLTAGE") = <<"charging", "charging">>
  /\ Kinds("SET_AC_OUTPUT_RATED_VOLTAGE") = <<"rated">>
  /\ Kinds("SET_BAT_CHARGING_THRESHOLDS") = <<"recharging", "redischarging">>
  /\ \A cmd \in IdAndKeyword : Kinds(cmd) = <<"id", "keyword">>
  /\ \A cmd \in OneKeyword : Kinds(cmd) = <<"keyword">>
  /\ Kinds("SET_BAT_CUTOFF_VOLTAGE") = <<"cutoff">>
  /\ Kinds("SET_SOLAR_CONFIG") = <<"serial">>
  /\ Kinds("SET_DATE_TIME") = <<"year", "month", "day", "hour", "minute", "minute">>
  /\ \A cmd \in Buckets : Kinds(cmd) = <<"time", "time">>
  BY KeywordCommands DEF Kinds, KeywordPlace, Parallels, Currents, Buckets, OneKeyword, IdAndKeyword

LEMMA ChecksTables ==
  ASSUME NEW w
  PROVE  /\ Checked("YEAR_GENERATED", w) <=> ValidYear(w[1])
         /\ Checked("MONTH_GENERATED", w) <=> ValidYear(w[1]) /\ ValidMonth(w[2])
         /\ Checked("DAY_GENERATED", w) <=> ValidDate(w[1], w[2], w[3])
         /\ \A cmd \in Parallels :
              Checked(cmd, w) <=> IsNumeric(w[1]) /\ Strlen(w[1]) <= 1
         /\ Checked("SET_LOADS", w) <=> IsText(w[1], <<0>>) \/ IsText(w[1], <<1>>)
         /\ Checked("SET_FLAG", w) <=>
              /\ \E flag \in DOMAIN FlagLetters : w[1] = Keyword(flag)
              /\ IsText(w[2], <<0>>) \/ IsText(w[2], <<1>>)
         /\ \A cmd \in Currents :
              Checked(cmd, w) <=>
                IsValidParallelId(w[1]) /\ GetUint(w[2]) /\ Strlen(w[2]) <= 3
         /\ Checked("SET_AC_OUTPUT_FREQ", w) <=> IsText(w[1], <<5, 0>>) \/ IsText(w[1], <<6, 0>>)
         /\ Checked("SET_BAT_MAX_CHARGE_VOLTAGE", w) <=>
              InRange(w[1], 480, 584) /\ InRange(w[2], 480, 584)
         /\ Checked("SET_AC_OUTPUT_RATED_VOLTAGE", w) <=>
              GetUint(w[1]) /\ Number(w[1]) \in RatedVoltages
         /\ Checked("SET_BAT_CHARGING_THRESHOLDS", w) <=>
              InTable(w[1], Recharging) /\ InTable(w[2], Redischarging)
         /\ Checked("SET_BAT_CUTOFF_VOLTAGE", w) <=> InRange(w[1], 400, 480)
         /\ Checked("SET_SOLAR_CONFIG", w) <=> IsNumeric(w[1]) /\ Strlen(w[1]) <= 20
         /\ Checked("SET_DATE_TIME", w) <=>
              /\ ValidDate(w[1], w[2], w[3])
              /\ ValidTimePart(w[4], 23) /\ ValidTimePart(w[5], 59) /\ ValidTimePart(w[6], 59)
         /\ \A cmd \in Buckets : Checked(cmd, w) <=> ValidTime(w[1]) /\ ValidTime(w[2])
  BY KeywordCommands DEF Checked, Parallels, Currents, Buckets, OneKeyword, IdAndKeyword

LEMMA KeywordChecks ==
  ASSUME NEW w
  PROVE  /\ \A cmd \in OneKeyword : Checked(cmd, w) <=> IndexOf(w[1], KeywordLists[cmd]) # -1
         /\ \A cmd \in IdAndKeyword :
              Checked(cmd, w) <=>
                IsValidParallelId(w[1]) /\ IndexOf(w[2], KeywordLists[cmd]) # -1
  BY KeywordCommands DEF Checked, KeywordPlace, Parallels, Currents, Buckets, OneKeyword,
     IdAndKeyword

LEMMA RewrittenTables ==
  ASSUME NEW w
  PROVE  /\ Rewritten("SET_FLAG", w) = [w EXCEPT ![1] = Keyword(FlagLetters[w[1].key])]
         /\ \A cmd \in OneKeyword :
              Rewritten(cmd, w) =
                [w EXCEPT ![1] = Numeral(<<IndexOf(w[1], KeywordLists[cmd])>>)]
         /\ \A cmd \in IdAndKeyword :
              Rewritten(cmd, w) =
                [w EXCEPT ![2] = Numeral(<<IndexOf(w[2], KeywordLists[cmd])>>)]
         /\ \A cmd \in Buckets :
              Rewritten(cmd, w) =
                <<HoursOf(w[1]), MinutesOf(w[1]), HoursOf(w[2]), MinutesOf(w[2])>>
         /\ \A cmd : cmd \notin Buckets \cup OneKeyword \cup IdAndKeyword \cup {"SET_FLAG"} =>
              Rewritten(cmd, w) = w
  BY KeywordCommands DEF Rewritten, KeywordPlace, Parallels, Currents, Buckets, OneKeyword,
     IdAndKeyword

LEMMA AppendTables ==
  ASSUME NEW w
  PROVE  /\ AppendArguments("YEAR_GENERATED", w) = w[1].digits
         /\ AppendArguments("MONTH_GENERATED", w) = w[1].digits \o Printed(Number(w[2]), 2)
         /\ AppendArguments("DAY_GENERATED", w) =
              w[1].digits \o Printed(Number(w[2]), 2) \o Printed(Number(w[3]), 2)
         /\ \A cmd \in Parallels : AppendArguments(cmd, w) = Printed(Number(w[1]), 1)
         /\ AppendArguments("SET_LOADS", w) = w[1].digits
         /\ AppendArguments("SET_FLAG", w) =
              <<IF w[2].digits[1] = 1 THEN EnableChar ELSE DisableChar, FlagChars[w[1].key]>>
         /\ \A cmd \in Currents :
              AppendArguments(cmd, w) = <<w[1].digits[1], Comma>> \o Printed(Number(w[2]), 3)
         /\ AppendArguments("SET_AC_OUTPUT_FREQ", w) = Printed(Number(w[1]), 2)
         /\ \A cmd \in {"SET_BAT_MAX_CHARGE_VOLTAGE", "SET_BAT_CHARGING_THRESHOLDS"} :
              AppendArguments(cmd, w) = PrintedTenths(w[1]) \o <<Comma>> \o PrintedTenths(w[2])
         /\ AppendArguments("SET_AC_OUTPUT_RATED_VOLTAGE", w) = Printed(10 * Number(w[1]), 4)
         /\ \A cmd \in OneKeyword : AppendArguments(cmd, w) = <<w[1].digits[1]>>
         /\ \A cmd \in IdAndKeyword :
              AppendArguments(cmd, w) = <<w[1].digits[1], Comma, w[2].digits[1]>>
         /\ AppendArguments("SET_BAT_CUTOFF_VOLTAGE", w) = PrintedTenths(w[1])
         /\ AppendArguments("SET_SOLAR_CONFIG", w) = SolarId(w[1].digits)
         /\ AppendArguments("SET_DATE_TIME", w) = DateTime(w)
         /\ \A cmd \in Buckets :
              AppendArguments(cmd, w) =
                Printed(Number(w[1]), 2) \o Printed(Number(w[2]), 2) \o <<Comma>>
                  \o Printed(Number(w[3]), 2) \o Printed(Number(w[4]), 2)
  BY DEF AppendArguments, Parallels, Currents, Buckets, OneKeyword, IdAndKeyword

-----------------------------------------------------------------------------
(* Words that passed. *)

\* What stands in front of digits.
LEMMA LeadIs ==
  ASSUME NEW lead \in Lead
  PROVE  LeadSize(lead) \in Nat
<1>1. lead.blanks \in Nat
  BY DEF Lead
<1>2. CASE lead.sign = ""
  <2>1. LeadSize(lead) = lead.blanks + 0
    BY <1>2 DEF LeadSize
  <2> QED BY <1>1, <2>1
<1>3. CASE lead.sign # ""
  <2>1. LeadSize(lead) = lead.blanks + 1
    BY <1>3, Zenon DEF LeadSize
  <2> QED BY <1>1, <2>1
<1> QED BY <1>2, <1>3

LEMMA SignedIs ==
  ASSUME NEW lead, NEW number \in Int
  PROVE  Signed(lead, number) \in Int /\ Signed(lead, number) \in {number, -number}
<1>1. CASE lead.sign = "-"
  BY <1>1 DEF Signed
<1>2. CASE lead.sign # "-"
  BY <1>2 DEF Signed
<1> QED BY <1>1, <1>2

LEMMA NoLeadIs ==
  /\ NoLead \in Lead /\ LeadSize(NoLead) = 0
  /\ \A number : Signed(NoLead, number) = number
<1>1. NoLead.blanks = 0 /\ NoLead.sign = ""
  BY DEF NoLead
<1>2. NoLead \in Lead
  <2>1. 0 \in Nat /\ "" \in {"", "+", "-"}
    OBVIOUS
  <2> QED BY <2>1, Zenon DEF NoLead, Lead
<1>3. LeadSize(NoLead) = 0
  <2>1. LeadSize(NoLead) = 0 + 0
    BY <1>1, Zenon DEF LeadSize
  <2> QED BY <2>1
<1>4. \A number : Signed(NoLead, number) = number
  BY <1>1 DEF Signed
<1> QED BY <1>2, <1>3, <1>4

LEMMA NumberType ==
  ASSUME NEW word, word.digits \in Seq(Digits)
  PROVE  /\ Atoi(word.digits) \in Nat /\ Number(word) \in Int
         /\ Number(word) \in {0, Atoi(word.digits), -Atoi(word.digits)}
<1> DEFINE n == Atoi(word.digits)
<1>1. n \in Nat /\ n \in Int
  BY DigitsAreNumbers, AtoiType
<1> HIDE DEF n
<1>2. Signed(word.lead, n) \in Int /\ Signed(word.lead, n) \in {n, -n}
  BY <1>1, SignedIs
<1>3. Number(word) = 0 \/ Number(word) = Signed(word.lead, n)
  BY DEF Number, n
<1> QED BY <1>1, <1>2, <1>3 DEF n

\* Numbers are numbers.
LEMMA NumbersType ==
  ASSUME NEW word \in Word
  PROVE  /\ word.digits \in Seq(Digits) /\ word.more \in Seq(Digits) /\ word.tail \in Nat
         /\ Atoi(word.digits) \in Nat /\ Atoi(word.more) \in Nat
         /\ Number(word) \in Int
         /\ Number(word) \in {0, Atoi(word.digits), -Atoi(word.digits)}
         /\ Len(word.digits) \in Nat /\ Len(word.more) \in Nat
         /\ Tenths(word) \in Int
         /\ LeadSize(word.lead) \in Nat /\ LeadSize(word.behind) \in Nat
<1>1. /\ word.digits \in Seq(Digits) /\ word.more \in Seq(Digits) /\ word.tail \in Nat
      /\ word.lead \in Lead /\ word.behind \in Lead
  BY DEF Word
<1>2. Atoi(word.digits) \in Nat /\ Atoi(word.more) \in Nat
  BY <1>1, DigitsAreNumbers, AtoiType
<1>3. /\ Number(word) \in Int
      /\ Number(word) \in {0, Atoi(word.digits), -Atoi(word.digits)}
  BY <1>1, NumberType
<1>4. Decimals(word) \in Int
  <2>1. Atoi(SubstrCopy(word.more, 1)) \in Nat
    BY <1>1, CopyType, DigitsAreNumbers, AtoiType
  <2> QED BY <2>1 DEF Decimals
<1>5. Tenths(word) \in Int
  <2> DEFINE n == 10 * Atoi(word.digits) + Decimals(word)
  <2>1. n \in Int
    BY <1>2, <1>4
  <2> HIDE DEF n
  <2>2. Signed(word.lead, n) \in Int
    BY <2>1, SignedIs
  <2>3. Tenths(word) = 0 \/ Tenths(word) = Signed(word.lead, n)
    BY DEF Tenths, n
  <2> QED BY <2>2, <2>3
<1>6. LeadSize(word.lead) \in Nat /\ LeadSize(word.behind) \in Nat
  BY <1>1, LeadIs
<1> QED BY <1>1, <1>2, <1>3, <1>5, <1>6

\* No digits behind a separator that is not there, and no sign where no colon is.
IsPlain(word) ==
  /\ word.sep = "" => word.more = <<>>
  /\ word.sep # ":" => word.behind = NoLead

\* The length of a word, and a word of digits only.
LEMMA StrlenIs ==
  ASSUME NEW word \in Word
  PROVE  /\ Strlen(word) \in Nat /\ Len(word.digits) <= Strlen(word)
         /\ IsNumeric(word) /\ IsPlain(word) =>
              /\ Strlen(word) = Len(word.digits) /\ Number(word) = Atoi(word.digits)
              /\ word = Numeral(word.digits)
<1>1. /\ Len(word.digits) \in Nat /\ Len(word.more) \in Nat /\ word.tail \in Nat
      /\ LeadSize(word.lead) \in Nat /\ LeadSize(word.behind) \in Nat
  BY NumbersType
<1> DEFINE l == Len(word.digits)  k == Len(word.more)  t == word.tail
           s == IF word.sep = "" THEN 0 ELSE 1
           b == LeadSize(word.lead)  c == LeadSize(word.behind)
<1>0. Strlen(word) = b + l + s + c + k + t
  BY DEF Strlen
<1>a. l \in Nat /\ k \in Nat /\ t \in Nat /\ s \in Nat /\ b \in Nat /\ c \in Nat
  BY <1>1
<1>2. Strlen(word) \in Nat /\ Len(word.digits) <= Strlen(word)
  <2> HIDE DEF l, k, t, s, b, c
  <2>1. b + l + s + c + k + t \in Nat /\ l <= b + l + s + c + k + t
    BY <1>a
  <2> QED BY <1>0, <2>1 DEF l
<1>3. ASSUME IsNumeric(word), IsPlain(word)
      PROVE  /\ Strlen(word) = Len(word.digits) /\ Number(word) = Atoi(word.digits)
             /\ word = Numeral(word.digits)
  <2>1. /\ word.key = "" /\ word.sep = "" /\ word.tail = 0 /\ word.more = <<>>
        /\ word.lead = NoLead /\ word.behind = NoLead
    BY <1>3 DEF IsNumeric, IsPlain
  <2>2. k = 0 /\ t = 0 /\ s = 0 /\ b = 0 /\ c = 0
    BY <2>1, NoLeadIs
  <2>3. Strlen(word) = Len(word.digits)
    <3> HIDE DEF l, k, t, s, b, c
    <3>1. b + l + s + c + k + t = l
      BY <1>a, <2>2
    <3> QED BY <1>0, <3>1 DEF l
  <2>4. Number(word) = Atoi(word.digits)
    BY <2>1, NoLeadIs DEF Number
  <2>5. word = Numeral(word.digits)
    BY <2>1 DEF Word, Numeral
  <2> QED BY <2>3, <2>4, <2>5
<1> QED BY <1>2, <1>3

\* A word of n digits that is a number is below 10^n, and above -10^n.
LEMMA NumericBelow ==
  ASSUME NEW word \in Word, NEW n \in 0 .. 9, Len(word.digits) <= n
  PROVE  Number(word) < 10^n /\ Atoi(word.digits) < 10^n /\ -(10^n) < Number(word)
<1> DEFINE l == Len(word.digits)  p == 10^l  q == 10^n  a1 == Atoi(word.digits)
           number == Number(word)
<1>1. word.digits \in Seq(Digits) /\ l \in 0 .. n
  BY NumbersType
<1>2. a1 \in Nat /\ a1 < p
  BY <1>1, AtoiBelow
<1>3. p \in Nat /\ q \in Nat /\ 0 < p /\ p <= q
  BY <1>1, PowersGrow
<1>4. number \in Int /\ number \in {0, a1, -a1}
  BY NumbersType
<1> HIDE DEF l, p, q, a1, number
<1>5. a1 < q /\ number < q /\ -q < number
  BY <1>2, <1>3, <1>4
<1> QED BY <1>5 DEF q, a1, number

\* Words are looked at through these facts.
LEMMA PlainIs ==
  ASSUME NEW word \in Word, IsPlain(word), IsNumeric(word)
  PROVE  /\ Strlen(word) = Len(word.digits) /\ Number(word) = Atoi(word.digits)
         /\ word = Numeral(word.digits)
  BY StrlenIs DEF IsPlain

\* A year is four digits.
Years == 2000 .. 2099

LEMMA YearIs ==
  ASSUME NEW word \in Word, IsPlain(word), ValidYear(word)
  PROVE  /\ Number(word) \in Years
         /\ word.digits \in Seq(Digits) /\ Len(word.digits) = 4
         /\ Printed(Number(word), 4) = word.digits
<1>1. /\ Number(word) = Atoi(word.digits) /\ Len(word.digits) = 4
      /\ Number(word) \in Years
  <2>1. IsNumeric(word) /\ Strlen(word) = 4 /\ Number(word) \in Years
    BY DEF ValidYear, Years
  <2>2. Strlen(word) = Len(word.digits) /\ Number(word) = Atoi(word.digits)
    <3>1. IsNumeric(word)
      BY <2>1
    <3> QED BY <3>1, PlainIs
  <2> QED BY <2>1, <2>2
<1>2. word.digits \in Seq(Digits) /\ 4 \in 1 .. 9
  BY NumbersType
<1>3. Printed(Atoi(word.digits), 4) = word.digits
  BY <1>1, <1>2, PrintedAtoi
<1> QED BY <1>1, <1>2, <1>3

\* One or two digits.
LEMMA TwoDigits ==
  ASSUME NEW word \in Word, IsPlain(word), IsNumeric(word), Strlen(word) <= 2
  PROVE  Number(word) \in 0 .. 99
<1>1. Len(word.digits) <= 2
  BY PlainIs
<1>2. 10^2 = 100 /\ 2 \in 0 .. 9
  OBVIOUS
<1>3. Number(word) < 10^2
  BY <1>1, <1>2, NumericBelow
<1>4. Number(word) \in Nat
  BY PlainIs, NumbersType
<1> DEFINE number == Number(word)
<1> HIDE DEF number
<1>5. number \in 0 .. 99
  BY <1>2, <1>3, <1>4 DEF number
<1> QED BY <1>5 DEF number

\* One digit or none.
LEMMA OneDigit ==
  ASSUME NEW word \in Word, IsPlain(word), IsNumeric(word), Strlen(word) <= 1
  PROVE  Number(word) \in 0 .. 9
<1>1. Len(word.digits) <= 1
  BY PlainIs
<1>2. 10^1 = 10 /\ 1 \in 0 .. 9
  OBVIOUS
<1>3. Number(word) < 10^1
  BY <1>1, <1>2, NumericBelow
<1>4. Number(word) \in Nat
  BY PlainIs, NumbersType
<1> DEFINE number == Number(word)
<1> HIDE DEF number
<1>5. number \in 0 .. 9
  BY <1>2, <1>3, <1>4 DEF number
<1> QED BY <1>5 DEF number

\* One digit is printed in one place.
LEMMA PrintedDigit ==
  ASSUME NEW d \in Digits
  PROVE  Printed(d, 1) = <<d>>
<1>1. <<d>> \in Seq(Digits) /\ Len(<<d>>) = 1 /\ 1 \in 1 .. 9
  OBVIOUS
<1>2. Printed(Atoi(<<d>>), 1) = <<d>>
  BY <1>1, PrintedAtoi
<1> QED BY <1>2, AtoiFew

\* The number of a machine is one digit.
LEMMA IdIs ==
  ASSUME NEW word \in Word, IsPlain(word), IsValidParallelId(word)
  PROVE  /\ Number(word) \in 0 .. 9 /\ word.digits[1] \in Digits
         /\ Printed(Number(word), 1) = <<word.digits[1]>>
<1>1. IsNumeric(word) /\ Strlen(word) <= 1 /\ Strlen(word) = 1
  BY DEF IsValidParallelId
<1>2. Number(word) \in 0 .. 9 /\ Number(word) = Atoi(word.digits) /\ Len(word.digits) = 1
  BY <1>1, OneDigit, PlainIs
<1>3. word.digits \in Seq(Digits) /\ 1 \in 1 .. 9
  BY NumbersType
<1> DEFINE text == word.digits
<1>4. text[1] \in Digits /\ text = <<text[1]>>
  <2>1. text \in Seq(Digits) /\ Len(text) = 1
    BY <1>2, <1>3
  <2> HIDE DEF text
  <2> QED BY <2>1
<1>5. Printed(Atoi(text), 1) = text
  BY <1>2, <1>3, PrintedAtoi
<1> QED BY <1>2, <1>4, <1>5

\* A current has at most three digits, and may be negative.
LEMMA AmpsIs ==
  ASSUME NEW word \in Word, GetUint(word), Strlen(word) <= 3
  PROVE  Number(word) \in -999 .. 999
<1>1. Len(word.digits) <= 3
  <2> DEFINE l == Len(word.digits)  s == Strlen(word)
  <2>1. l \in Nat /\ s \in Nat /\ l <= s /\ s <= 3
    BY StrlenIs, NumbersType
  <2> HIDE DEF l, s
  <2>2. l <= 3
    BY <2>1
  <2> QED BY <2>2 DEF l
<1>2. 10^3 = 1000 /\ 3 \in 0 .. 9
  OBVIOUS
<1>3. Number(word) < 10^3 /\ -(10^3) < Number(word)
  BY <1>1, <1>2, NumericBelow
<1>4. Number(word) \in Int
  BY NumbersType
<1> DEFINE number == Number(word)
<1> HIDE DEF number
<1>5. number \in -999 .. 999
  BY <1>2, <1>3, <1>4 DEF number
<1> QED BY <1>5 DEF number

\* A voltage between limits, in tenths, is between them as a float too.
LEMMA FloatLimits ==
  ASSUME NEW t \in Int, NEW low \in Nat, NEW high \in Nat
  PROVE  /\ 10 * FloatOf(t) >= low * Fraction => t >= low
         /\ 10 * FloatOf(t) <= high * Fraction => t <= high
<1>1. \A x \in Int : x \div 20 \in Int /\ 20 * (x \div 20) <= x /\ x < 20 * (x \div 20) + 20
  OBVIOUS
<1> DEFINE x == t * Fraction * 2 + 10  q == x \div 20
<1>2. x \in Int /\ x = 524288 * t + 10
  BY SMT DEF Fraction
<1>3. FloatOf(t) = q
  BY DEF FloatOf
<1> HIDE DEF x
<1>4. q \in Int /\ 20 * q <= x /\ x < 20 * q + 20
  BY <1>1, <1>2
<1> HIDE DEF q
<1>5. ASSUME 10 * q >= low * Fraction
      PROVE  t >= low
  <2>1. 524288 * low <= 20 * q
    BY <1>4, <1>5, SMT DEF Fraction
  <2>2. 524288 * low <= 524288 * t + 10
    BY <1>2, <1>4, <2>1
  <2> QED BY <2>2
<1>6. ASSUME 10 * q <= high * Fraction
      PROVE  t <= high
  <2>1. 20 * q <= 524288 * high
    BY <1>4, <1>6, SMT DEF Fraction
  <2>2. 524288 * t + 10 < 524288 * high + 20
    BY <1>2, <1>4, <2>1
  <2> QED BY <2>2
<1> QED BY <1>3, <1>5, <1>6

LEMMA RangeIs ==
  ASSUME NEW word \in Word, NEW low \in Nat, NEW high \in Nat, InRange(word, low, high),
         word.key # "nan"
  PROVE  Tenths(word) \in low .. high
<1>1. Tenths(word) \in Int
  BY NumbersType
<1>2. /\ 10 * FloatOf(Tenths(word)) >= low * Fraction
      /\ 10 * FloatOf(Tenths(word)) <= high * Fraction
  BY DEF InRange
<1>3. Tenths(word) >= low /\ Tenths(word) <= high
  BY <1>1, <1>2, FloatLimits, Zenon
<1> DEFINE t == Tenths(word)
<1> HIDE DEF t
<1>4. t \in low .. high
  BY <1>1, <1>3 DEF t
<1> QED BY <1>4 DEF t

\* A voltage as it is sent: three digits, or what a conversion of nan leaves.
LEMMA TenthsType ==
  ASSUME NEW word \in Word, word.key = "nan" \/ Tenths(word) \in 0 .. 999
  PROVE  PrintedTenths(word) \in Seq(0 .. MinusChar) /\ Len(PrintedTenths(word)) <= 11
<1>1. CASE word.key = "nan"
  <2> DEFINE text == <<MinusChar, 2, 1, 4, 7, 4, 8, 3, 6, 4, 8>>
  <2>1. PrintedTenths(word) = text
    BY <1>1 DEF PrintedTenths
  <2>2. text \in Seq(0 .. MinusChar) /\ Len(text) = 11
    BY DEF MinusChar
  <2> HIDE DEF text
  <2> QED BY <2>1, <2>2
<1>2. CASE word.key # "nan"
  <2> DEFINE t == Tenths(word)  text == Printed(t, 3)
  <2>1. PrintedTenths(word) = text
    BY <1>2 DEF PrintedTenths
  <2>2. t \in Nat /\ t < 1000
    <3>1. t \in 0 .. 999
      BY <1>2
    <3> HIDE DEF t
    <3> QED BY <3>1
  <2> HIDE DEF t
  <2>3. 10^3 = 1000 /\ 3 \in 1 .. 9 /\ 3 \in 0 .. 9
    OBVIOUS
  <2>4. t < 10^3 /\ t < 10^9
    <3> DEFINE p == 10^9
    <3>1. p \in Nat /\ 10^3 <= p
      BY PowersGrow, <2>3
    <3> HIDE DEF p
    <3>2. t < 1000 /\ t < p
      BY <2>2, <2>3, <3>1
    <3> QED BY <2>3, <3>2 DEF p
  <2>5. text \in Seq(Digits) /\ Len(text) = 3
    BY <2>2, <2>3, <2>4, PrintedType
  <2> HIDE DEF text
  <2>6. text \in Seq(0 .. MinusChar)
    BY <2>5 DEF Digits, MinusChar
  <2> QED BY <2>1, <2>5, <2>6
<1> QED BY <1>1, <1>2

\* A word of digits.
LEMMA NumeralIs ==
  ASSUME NEW digits
  PROVE  /\ Numeral(digits).key = "" /\ Numeral(digits).digits = digits
         /\ Numeral(digits).more = <<>> /\ Numeral(digits).tail = 0
         /\ Numeral(digits).lead = NoLead /\ Numeral(digits).behind = NoLead
         /\ Numeral(digits).sep = "" /\ Number(Numeral(digits)) = Atoi(digits)
<1>1. /\ Numeral(digits).key = "" /\ Numeral(digits).digits = digits
      /\ Numeral(digits).more = <<>> /\ Numeral(digits).tail = 0
      /\ Numeral(digits).lead = NoLead /\ Numeral(digits).behind = NoLead
      /\ Numeral(digits).sep = ""
  BY DEF Numeral
<1>2. Number(Numeral(digits)) = Atoi(digits)
  BY <1>1, NoLeadIs DEF Number
<1> QED BY <1>1, <1>2

\* Hours and minutes are words of their own.
LEMMA TimeParts ==
  ASSUME NEW word
  PROVE  /\ HoursOf(word).key = "" /\ HoursOf(word).digits = word.digits
         /\ HoursOf(word).lead = word.lead
         /\ MinutesOf(word).key = "" /\ MinutesOf(word).digits = word.more
         /\ MinutesOf(word).lead = word.behind
<1>1. /\ HoursOf(word).key = "" /\ HoursOf(word).digits = word.digits
      /\ HoursOf(word).lead = word.lead
  BY DEF HoursOf, Numeral
<1>2. /\ MinutesOf(word).key = "" /\ MinutesOf(word).digits = word.more
      /\ MinutesOf(word).lead = word.behind
  BY DEF MinutesOf, Numeral
<1> QED BY <1>1, <1>2

\* Their numbers are below 10^9 if those of the word are.
LEMMA TimeNumbers ==
  ASSUME NEW word \in Word
  PROVE  /\ Number(HoursOf(word)) \in Int
         /\ Number(HoursOf(word)) \in {0, Atoi(word.digits), -Atoi(word.digits)}
         /\ Number(MinutesOf(word)) \in Int
         /\ Number(MinutesOf(word)) \in {0, Atoi(word.more), -Atoi(word.more)}
<1>1. /\ HoursOf(word).digits = word.digits /\ word.digits \in Seq(Digits)
      /\ MinutesOf(word).digits = word.more /\ word.more \in Seq(Digits)
  BY TimeParts, NumbersType
<1> DEFINE h == HoursOf(word)  m == MinutesOf(word)
<1> HIDE DEF h, m
<1>2. Number(h) \in Int /\ Number(h) \in {0, Atoi(h.digits), -Atoi(h.digits)}
  <2>1. h.digits \in Seq(Digits)
    BY <1>1 DEF h
  <2> QED BY <2>1, NumberType
<1>3. Number(m) \in Int /\ Number(m) \in {0, Atoi(m.digits), -Atoi(m.digits)}
  <2>1. m.digits \in Seq(Digits)
    BY <1>1 DEF m
  <2> QED BY <2>1, NumberType
<1> QED BY <1>1, <1>2, <1>3 DEF h, m

BelowBillion(number) == number \in Int /\ -(10^9) < number /\ number < 10^9

LEMMA TimeBelow ==
  ASSUME NEW word \in Word, Atoi(word.digits) < 10^9, Atoi(word.more) < 10^9
  PROVE  BelowBillion(Number(HoursOf(word))) /\ BelowBillion(Number(MinutesOf(word)))
<1> DEFINE h == Number(HoursOf(word))  m == Number(MinutesOf(word))
           x == Atoi(word.digits)  y == Atoi(word.more)  p == 10^9
<1>1. /\ x \in Nat /\ y \in Nat /\ p \in Nat /\ x < p /\ y < p
      /\ h \in Int /\ h \in {0, x, -x} /\ m \in Int /\ m \in {0, y, -y}
  BY NumbersType, TimeNumbers
<1> HIDE DEF h, m, x, y, p
<1>2. -p < h /\ h < p /\ -p < m /\ m < p
  BY <1>1
<1> QED BY <1>1, <1>2 DEF BelowBillion, h, m, p

\* Hours and minutes of a bucket that do not wrap.
LEMMA TimeIs ==
  ASSUME NEW word \in Word, ValidTime(word), ~Misread("time", word)
  PROVE  Number(HoursOf(word)) \in 0 .. 23 /\ Number(MinutesOf(word)) \in 0 .. 59
<1> DEFINE h == Number(HoursOf(word))  m == Number(MinutesOf(word))
<1>1. h \in Int /\ m \in Int
  BY TimeNumbers
<1>2. Short(h) <= 23 /\ Short(m) <= 59
  BY DEF ValidTime
<1>3. Short(h) = h /\ Short(m) = m
  BY DEF Misread
<1> HIDE DEF h, m
<1>4. \A n \in Int : n % 65536 \in Nat
  OBVIOUS
<1>5. h \in Nat /\ m \in Nat
  BY <1>1, <1>3, <1>4 DEF Short
<1>6. h \in 0 .. 23 /\ m \in 0 .. 59
  BY <1>2, <1>3, <1>5
<1> QED BY <1>6 DEF h, m

\* The codes of p18.h are the places of the keywords in the lists of main.
LEMMA KeywordPlaces ==
  \A cmd \in DOMAIN KeywordLists : \A k \in DOMAIN KeywordLists[cmd] :
    /\ k \in 1 .. 5 /\ KeywordLists[cmd][k] \in DOMAIN KeywordValues
    /\ KeywordValues[KeywordLists[cmd][k]] = k - 1
<1> DEFINE Right(list) ==
      \A k \in DOMAIN list :
        k \in 1 .. 5 /\ list[k] \in DOMAIN KeywordValues /\ KeywordValues[list[k]] = k - 1
<1>1. Right(<<"SUB", "SBU">>) /\ Right(<<"SF", "SU", "S">>) /\ Right(<<"BLU", "LBU">>)
  BY DEF KeywordValues
<1>2. Right(<<"APPLIANCE", "UPS">>) /\ Right(<<"AGM", "FLOODED", "USER">>)
      /\ Right(<<"SM", "P", "P1", "P2", "P3">>)
  BY DEF KeywordValues
<1> HIDE DEF Right
<1>3. \A cmd \in DOMAIN KeywordLists : Right(KeywordLists[cmd])
  BY <1>1, <1>2 DEF KeywordLists
<1> QED BY <1>3 DEF Right

\* No two keywords are the same word.
LEMMA KeywordsDiffer ==
  ASSUME NEW m \in DOMAIN KeywordValues, NEW n \in DOMAIN KeywordValues, KeyOf(m) = KeyOf(n)
  PROVE  m = n
<1>1. /\ KeyOf("P1") = [Keyword("P") EXCEPT !.digits = <<1>>]
      /\ KeyOf("P2") = [Keyword("P") EXCEPT !.digits = <<2>>]
      /\ KeyOf("P3") = [Keyword("P") EXCEPT !.digits = <<3>>]
      /\ \A name : name \notin {"P1", "P2", "P3"} => KeyOf(name) = Keyword(name)
  BY DEF KeyOf
<1>2. \A name : Keyword(name).key = name /\ Keyword(name).digits = <<>>
  BY DEF Keyword, Numeral
<1>3. /\ KeyOf("P1").digits = <<1>> /\ KeyOf("P2").digits = <<2>> /\ KeyOf("P3").digits = <<3>>
  BY <1>1 DEF Keyword, Numeral
<1>4. <<1>> # <<2>> /\ <<1>> # <<3>> /\ <<2>> # <<3>> /\ <<>> # <<1>> /\ <<>> # <<2>> /\ <<>> # <<3>>
  OBVIOUS
<1>5. CASE m \in {"P1", "P2", "P3"}
  BY <1>1, <1>2, <1>3, <1>4, <1>5
<1>6. CASE m \notin {"P1", "P2", "P3"}
  BY <1>1, <1>2, <1>3, <1>4, <1>6
<1> QED BY <1>5, <1>6

\* What main sends for a keyword is its code.
LEMMA KeywordIs ==
  ASSUME NEW cmd \in DOMAIN KeywordLists, NEW word, IndexOf(word, KeywordLists[cmd]) # -1
  PROVE  /\ IndexOf(word, KeywordLists[cmd]) \in 0 .. 4
         /\ ValueOf("keyword", word) = IndexOf(word, KeywordLists[cmd])
         /\ \E name \in DOMAIN KeywordValues : word = KeyOf(name)
<1> DEFINE list == KeywordLists[cmd]
           place == CHOOSE k \in DOMAIN list : KeyOf(list[k]) = word
<1>1. \E k \in DOMAIN list : KeyOf(list[k]) = word
  BY DEF IndexOf
<1>2. place \in DOMAIN list /\ KeyOf(list[place]) = word
  BY <1>1
<1>3. IndexOf(word, list) = place - 1
  BY <1>1 DEF IndexOf
<1>4. ValueOf("keyword", word) = KeywordValues[KeywordOf(word)]
  BY DEF ValueOf, Volt
<1>5. /\ place \in 1 .. 5 /\ list[place] \in DOMAIN KeywordValues
      /\ KeywordValues[list[place]] = place - 1
  BY <1>2, KeywordPlaces
<1>6. KeywordOf(word) \in DOMAIN KeywordValues /\ KeyOf(KeywordOf(word)) = word
  BY <1>2, <1>5 DEF KeywordOf
<1>7. KeywordOf(word) = list[place]
  BY <1>2, <1>5, <1>6, KeywordsDiffer
<1> HIDE DEF place, list
<1>8. IndexOf(word, list) \in 0 .. 4 /\ ValueOf("keyword", word) = IndexOf(word, list)
  BY <1>3, <1>4, <1>5, <1>7
<1> QED BY <1>6, <1>8 DEF list

\* What a word says, kind by kind.
LEMMA ValueTables ==
  ASSUME NEW word
  PROVE  /\ ValueOf("flag", word) = FlagChars[FlagLetters[word.key]]
         /\ \A kind \in Volt : ValueOf(kind, word) = Tenths(word)
         /\ ValueOf("rated", word) = 10 * Number(word)
         /\ ValueOf("time", word) = 100 * Number(HoursOf(word)) + Number(MinutesOf(word))
         /\ \A kind \in {"year", "month", "day", "hour", "minute", "id", "bit", "amps",
                         "frequency"} : ValueOf(kind, word) = Number(word)
<1>1. ValueOf("flag", word) = FlagChars[FlagLetters[word.key]]
  BY DEF ValueOf, Volt
<1>2. \A kind \in Volt : ValueOf(kind, word) = Tenths(word)
  BY DEF ValueOf, Volt
<1>3. ValueOf("rated", word) = 10 * Number(word)
  BY DEF ValueOf, Volt
<1>4. ValueOf("time", word) = 100 * Number(HoursOf(word)) + Number(MinutesOf(word))
  BY DEF ValueOf, Volt
<1>5. \A kind \in {"year", "month", "day", "hour", "minute", "id", "bit", "amps", "frequency"} :
        ValueOf(kind, word) = Number(word)
  BY DEF ValueOf, Volt
<1> QED BY <1>1, <1>2, <1>3, <1>4, <1>5

\* What may be said, kind by kind.
LEMMA AllowedTables ==
  /\ Allowed("year") = 2000 .. 2099 /\ Allowed("month") = 1 .. 12 /\ Allowed("day") = 1 .. 31
  /\ Allowed("hour") = 0 .. 23 /\ Allowed("minute") = 0 .. 59
  /\ Allowed("id") = 0 .. 9 /\ Allowed("bit") = {0, 1} /\ Allowed("amps") = 0 .. 999
  /\ Allowed("frequency") = {50, 60} /\ Allowed("charging") = 480 .. 584
  /\ Allowed("cutoff") = 400 .. 480 /\ Allowed("rated") = {2020, 2080, 2200, 2300, 2400}
  /\ Allowed("recharging") = UNION {ToSet(Recharging[unit]) : unit \in 1 .. 3}
  /\ Allowed("redischarging") = UNION {ToSet(Redischarging[unit]) : unit \in 1 .. 3}
  /\ Allowed("time") = {100 * h + m : h \in 0 .. 23, m \in 0 .. 59}
  BY SMT DEF Allowed

\* The places of a value, kind by kind.
LEMMA PlaceTables ==
  ASSUME NEW cmd
  PROVE  /\ Places(cmd, "year") = IF cmd = "SET_DATE_TIME" THEN 2 ELSE 4
         /\ \A kind \in {"rated", "time"} : Places(cmd, kind) = 4
         /\ \A kind \in Volt \cup {"amps"} : Places(cmd, kind) = 3
         /\ \A kind \in {"month", "day", "hour", "minute", "frequency"} : Places(cmd, kind) = 2
         /\ \A kind \in {"id", "bit", "keyword"} : Places(cmd, kind) = 1
  BY SMT DEF Places, Volt

\* A copy of no less than a text is the text.
LEMMA WholeCopy ==
  ASSUME NEW S, NEW text \in Seq(S), NEW len \in Nat, Len(text) <= len
  PROVE  SubstrCopy(text, len) = text
<1>1. SubstrCopy(text, len) = SubSeq(text, 1, Len(text))
  BY DEF SubstrCopy
<1> QED BY <1>1, SubSeqFull

\* A voltage of a list says what it is.
LEMMA VoltsSay ==
  ASSUME NEW t \in 0 .. 999
  PROVE  Volts(t).key = "" /\ Tenths(Volts(t)) = t
<1> DEFINE d == t \div 10  r == t % 10
<1>1. d \in 0 .. 99 /\ r \in 0 .. 9 /\ t = 10 * d + r
  OBVIOUS
<1>2. Volts(t) = [Numeral(Printed(d, 1)) EXCEPT !.sep = IF r = 0 THEN "" ELSE ".",
                                                !.more = IF r = 0 THEN <<>> ELSE <<r>>]
  BY Zenon DEF Volts
<1> HIDE DEF d, r
<1>6. Volts(t).key = "" /\ Volts(t).digits = Printed(d, 1) /\ Volts(t).lead = NoLead
  BY <1>2 DEF Numeral
<1>7. /\ Volts(t).more = IF r = 0 THEN <<>> ELSE <<r>>
      /\ Volts(t).sep = IF r = 0 THEN "" ELSE "."
  BY <1>2 DEF Numeral
<1>3. Atoi(Volts(t).digits) = d
  <2>1. Atoi(Printed(d, 1)) = d
    BY <1>1, AtoiPrinted
  <2> QED BY <1>6, <2>1
<1>4. Decimals(Volts(t)) = r
  <2>1. CASE r = 0
    BY <1>7, <2>1 DEF Decimals
  <2>2. CASE r # 0
    <3>1. <<r>> \in Seq(Digits) /\ Len(<<r>>) <= 1 /\ 1 \in Nat
      BY <1>1 DEF Digits
    <3>2. SubstrCopy(<<r>>, 1) = <<r>>
      BY <3>1, WholeCopy
    <3>3. r \in Digits
      BY <1>1 DEF Digits
    <3>4. Atoi(<<r>>) = r
      BY <3>3, AtoiFew
    <3>5. Volts(t).more = <<r>> /\ Volts(t).sep = "."
      BY <1>7, <2>2
    <3> QED BY <3>2, <3>4, <3>5 DEF Decimals
  <2> QED BY <2>1, <2>2
<1>5. Tenths(Volts(t)) = t
  <2>1. Tenths(Volts(t)) = 10 * d + r
    BY <1>3, <1>4, <1>6, NoLeadIs, Zenon DEF Tenths
  <2> QED BY <1>1, <2>1
<1> QED BY <1>5, <1>6

\* What the tables hold.
LEMMA TablesHold ==
  /\ Len(Recharging[1]) = 8
  /\ \A unit \in 1 .. 3 : DOMAIN Recharging[unit] = 1 .. 8 /\ DOMAIN Redischarging[unit] = 1 .. 12
  BY DEF Recharging, Redischarging

\* Three digits, in tenths.
ThreeDigits == 0 .. 999

LEMMA TableValues ==
  /\ \A unit \in 1 .. 3 : \A k \in 1 .. 8 : Recharging[unit][k] \in ThreeDigits
  /\ \A unit \in 1 .. 3 : \A k \in 1 .. 12 : Redischarging[unit][k] \in ThreeDigits
<1>1. \A unit \in 1 .. 3 : \A k \in 1 .. 8 : Recharging[unit][k] \in ThreeDigits
  BY DEF Recharging, ThreeDigits
<1>2. \A unit \in 1 .. 3 : \A k \in 1 .. 12 : Redischarging[unit][k] \in ThreeDigits
  BY SMTT(40) DEF Redischarging, ThreeDigits
<1> QED BY <1>1, <1>2

LEMMA TablesAllowed ==
  /\ Allowed("recharging") = UNION {ToSet(Recharging[unit]) : unit \in 1 .. 3}
  /\ Allowed("redischarging") = UNION {ToSet(Redischarging[unit]) : unit \in 1 .. 3}
  BY SMT DEF Allowed

LEMMA TableIs ==
  ASSUME NEW word
  PROVE  /\ InTable(word, Recharging) =>
              word.key = "" /\ Tenths(word) \in ThreeDigits /\ Tenths(word) \in Allowed("recharging")
         /\ InTable(word, Redischarging) =>
              word.key = "" /\ Tenths(word) \in ThreeDigits /\ Tenths(word) \in Allowed("redischarging")
<1>1. ASSUME InTable(word, Recharging)
      PROVE  word.key = "" /\ Tenths(word) \in ThreeDigits /\ Tenths(word) \in Allowed("recharging")
  <2>1. PICK unit \in 1 .. 3, k \in 1 .. 8 : word = Volts(Recharging[unit][k])
    BY <1>1, TablesHold DEF InTable
  <2>2. Recharging[unit][k] \in ThreeDigits /\ k \in DOMAIN Recharging[unit]
    <3>1. unit \in 1 .. 3 /\ k \in 1 .. 8 /\ k \in 1 .. 12
      OBVIOUS
    <3>2. Recharging[unit][k] \in ThreeDigits
      BY <3>1, TableValues
    <3>3. k \in DOMAIN Recharging[unit]
      BY <3>1, TablesHold
    <3> QED BY <3>2, <3>3
  <2>3. Recharging[unit][k] \in ToSet(Recharging[unit])
    BY <2>2 DEF ToSet
  <2>4. Recharging[unit][k] \in Allowed("recharging")
    BY <2>3, TablesAllowed
  <2> DEFINE t == Recharging[unit][k]
  <2>5. word = Volts(t) /\ t \in ThreeDigits /\ t \in Allowed("recharging")
    BY <2>1, <2>2, <2>4
  <2> HIDE DEF t
  <2>6. word.key = "" /\ Tenths(word) = t
    BY <2>5, VoltsSay, ZenonT(40) DEF ThreeDigits
  <2> QED BY <2>5, <2>6
<1>2. ASSUME InTable(word, Redischarging)
      PROVE  word.key = "" /\ Tenths(word) \in ThreeDigits /\ Tenths(word) \in Allowed("redischarging")
  <2>1. PICK unit \in 1 .. 3, k \in 1 .. 8 : word = Volts(Redischarging[unit][k])
    BY <1>2, TablesHold DEF InTable
  <2>2. Redischarging[unit][k] \in ThreeDigits /\ k \in DOMAIN Redischarging[unit]
    <3>1. unit \in 1 .. 3 /\ k \in 1 .. 8 /\ k \in 1 .. 12
      OBVIOUS
    <3>2. Redischarging[unit][k] \in ThreeDigits
      BY <3>1, TableValues
    <3>3. k \in DOMAIN Redischarging[unit]
      BY <3>1, TablesHold
    <3> QED BY <3>2, <3>3
  <2>3. Redischarging[unit][k] \in ToSet(Redischarging[unit])
    BY <2>2 DEF ToSet
  <2>4. Redischarging[unit][k] \in Allowed("redischarging")
    BY <2>3, TablesAllowed
  <2> DEFINE t == Redischarging[unit][k]
  <2>5. word = Volts(t) /\ t \in ThreeDigits /\ t \in Allowed("redischarging")
    BY <2>1, <2>2, <2>4
  <2> HIDE DEF t
  <2>6. word.key = "" /\ Tenths(word) = t
    BY <2>5, VoltsSay, ZenonT(40) DEF ThreeDigits
  <2> QED BY <2>5, <2>6
<1> QED BY <1>1, <1>2

\* A number of up to four digits in enough places.
LEMMA PrintedPlaces ==
  ASSUME NEW n \in 1 .. 4, NEW number \in Nat, number < 10^n
  PROVE  Printed(number, n) \in Seq(Digits) /\ Len(Printed(number, n)) = n
<1> DEFINE p == 10^n  q == 10^9
<1>1. 9 \in 0 .. 9 /\ n \in 0 .. 9 /\ n \in 1 .. 9
  OBVIOUS
<1>2. p \in Nat /\ q \in Nat /\ p <= q
  BY <1>1, PowersGrow
<1>3. number < p
  OBVIOUS
<1> HIDE DEF p, q
<1>4. number < q
  BY <1>2, <1>3
<1>5. number < 10^9
  BY <1>4 DEF q
<1> QED BY <1>1, <1>5, PrintedType

\* The same for numbers between limits.
LEMMA PrintedBelow ==
  ASSUME NEW number \in Nat
  PROVE  /\ number < 10 => Printed(number, 1) \in Seq(Digits) /\ Len(Printed(number, 1)) = 1
         /\ number < 100 => Printed(number, 2) \in Seq(Digits) /\ Len(Printed(number, 2)) = 2
         /\ number < 1000 => Printed(number, 3) \in Seq(Digits) /\ Len(Printed(number, 3)) = 3
         /\ number < 10000 => Printed(number, 4) \in Seq(Digits) /\ Len(Printed(number, 4)) = 4
<1>1. 10^1 = 10 /\ 10^2 = 100 /\ 10^3 = 1000 /\ 10^4 = 10000
  OBVIOUS
<1>2. 1 \in 1 .. 4 /\ 2 \in 1 .. 4 /\ 3 \in 1 .. 4 /\ 4 \in 1 .. 4
  OBVIOUS
<1>3. /\ number < 10 => number < 10^1
      /\ number < 100 => number < 10^2
      /\ number < 1000 => number < 10^3
      /\ number < 10000 => number < 10^4
  BY <1>1
<1>4. number < 10 => Printed(number, 1) \in Seq(Digits) /\ Len(Printed(number, 1)) = 1
  BY <1>2, <1>3, PrintedPlaces
<1>5. number < 100 => Printed(number, 2) \in Seq(Digits) /\ Len(Printed(number, 2)) = 2
  BY <1>2, <1>3, PrintedPlaces
<1>6. number < 1000 => Printed(number, 3) \in Seq(Digits) /\ Len(Printed(number, 3)) = 3
  BY <1>2, <1>3, PrintedPlaces
<1>7. number < 10000 => Printed(number, 4) \in Seq(Digits) /\ Len(Printed(number, 4)) = 4
  BY <1>2, <1>3, PrintedPlaces
<1> QED BY <1>4, <1>5, <1>6, <1>7

\* Two parts of known lengths.
LEMMA TwoParts ==
  ASSUME NEW S, NEW m \in Nat, NEW n \in Nat,
         NEW first \in Seq(S), NEW rest \in Seq(S), Len(first) = m, Len(rest) = n
  PROVE  first \o rest \in Seq(S) /\ Len(first \o rest) = m + n
  BY ConcatProperties

\* The id of a solar configuration has its length in front and 20 digits.
LEMMA SolarType ==
  ASSUME NEW digits \in Seq(Digits), Len(digits) <= 20
  PROVE  SolarId(digits) \in Seq(Digits) /\ Len(SolarId(digits)) = 22
<1> DEFINE n == Len(digits)  first == Printed(n, 2)  rest == [k \in 1 .. 20 - n |-> 0]
<1>1. n \in 0 .. 20
  <2>1. n \in Nat /\ n <= 20
    OBVIOUS
  <2> HIDE DEF n
  <2> QED BY <2>1
<1>2. rest \in Seq(Digits) /\ Len(rest) = 20 - n
  BY <1>1 DEF Digits
<1>3. first \in Seq(Digits) /\ Len(first) = 2
  <2> HIDE DEF n
  <2>1. n \in Nat /\ n < 100
    BY <1>1
  <2> QED BY <2>1, PrintedBelow
<1> DEFINE id == digits
<1>4. SolarId(digits) = (first \o id) \o rest
  BY DEF SolarId
<1>5. id \in Seq(Digits) /\ Len(id) = n
  OBVIOUS
<1> HIDE DEF n, first, rest, id
<1>6. n \in Nat /\ 2 \in Nat /\ 2 + n \in Nat /\ 20 - n \in Nat /\ (2 + n) + (20 - n) = 22
  BY <1>1
<1>7. first \o id \in Seq(Digits) /\ Len(first \o id) = 2 + n
  <2>1. first \o id \in Seq(Digits) /\ Len(first \o id) = Len(first) + Len(id)
    BY <1>3, <1>5, ConcatProperties
  <2> QED BY <1>3, <1>5, <2>1
<1> DEFINE front == first \o id
<1>8. front \in Seq(Digits) /\ Len(front) = 2 + n
  BY <1>7
<1> HIDE DEF front
<1>9. front \o rest \in Seq(Digits) /\ Len(front \o rest) = (2 + n) + (20 - n)
  BY <1>2, <1>6, <1>8, TwoParts
<1> QED BY <1>4, <1>6, <1>9 DEF front

-----------------------------------------------------------------------------
(* What is sent for words that passed, command by command. *)

Passed(cmd) ==
  /\ cmd \in AllCommands /\ words \in Seq(Word) /\ Len(words) = WordsTaken(cmd)
  /\ \A k \in DOMAIN words : IsReadable(cmd, words[k])
  /\ Checked(cmd, words)

\* The text that is sent.
Text(cmd) == AppendArguments(cmd, Rewritten(cmd, words))

\* It is made of what there is, and is short.
Fits(cmd) ==
  /\ Len(Rewritten(cmd, words)) >= ArgumentsRead(cmd)
  /\ Text(cmd) \in Seq(0 .. MinusChar) /\ Len(Text(cmd)) <= 60

\* It is what the words say.
AllowedWord(cmd, k) ==
  Kinds(cmd)[k] \in {"keyword", "flag", "serial"}
    \/ ValueOf(Kinds(cmd)[k], words[k]) \in Allowed(Kinds(cmd)[k])
Says(cmd) ==
  /\ \A k \in DOMAIN words : AllowedWord(cmd, k)
  /\ DayExists(cmd)
  /\ Text(cmd) = TextOf(cmd)
Meant(cmd) == (\A k \in DOMAIN words : ~Misread(Kinds(cmd)[k], words[k])) => Says(cmd)

LEMMA WordsAre ==
  ASSUME NEW cmd, Passed(cmd), NEW k \in Nat, k > 0, k <= WordsTaken(cmd)
  PROVE  /\ words[k] \in Word /\ IsPlain(words[k]) /\ k \in DOMAIN words
         /\ cmd # "SET_SOLAR_CONFIG" =>
              Atoi(words[k].digits) < 10^9 /\ Atoi(words[k].more) < 10^9
<1>1. words \in Seq(Word) /\ k \in 1 .. Len(words) /\ k \in DOMAIN words
  <2>1. words \in Seq(Word) /\ Len(words) = WordsTaken(cmd)
    BY DEF Passed
  <2> QED BY <2>1
<1>2. IsReadable(cmd, words[k])
  BY <1>1 DEF Passed
<1>3. words[k] \in Word
  BY <1>1
<1> QED BY <1>1, <1>2, <1>3 DEF IsReadable, IsPlain

LEMMA DigitsFit ==
  ASSUME NEW text \in Seq(Digits), NEW n \in 0 .. 60, Len(text) <= n
  PROVE  text \in Seq(0 .. MinusChar) /\ Len(text) <= 60
<1>1. text \in Seq(0 .. MinusChar)
  BY DEF Digits, MinusChar
<1>2. Len(text) \in Nat /\ Len(text) <= n
  OBVIOUS
<1> DEFINE l == Len(text)
<1> HIDE DEF l
<1>3. l <= 60
  BY <1>2 DEF l
<1> QED BY <1>1, <1>3 DEF l

\* The part of a text for one word.
PartOf(cmd, k) ==
  Printed(ValueOf(Kinds(cmd)[k], words[k])
            - (IF cmd = "SET_DATE_TIME" /\ k = 1 THEN 2000 ELSE 0),
          Places(cmd, Kinds(cmd)[k]))

LEMMA TextOfParts ==
  ASSUME NEW cmd, cmd \notin {"SET_SOLAR_CONFIG", "SET_FLAG"}
  PROVE  TextOf(cmd) =
           FlattenSeq([k \in DOMAIN words |->
             (IF (cmd \in SetCommands \ {"SET_DATE_TIME"} /\ Len(words) > 1) /\ k > 1
                THEN <<Comma>> ELSE <<>>) \o PartOf(cmd, k)])
  BY Zenon DEF TextOf, PartOf

LEMMA EmptyFirst ==
  ASSUME NEW S, NEW text \in Seq(S)
  PROVE  <<>> \o text = text
  OBVIOUS

\* The text of one word, and the text of two words.
LEMMA TextOfOne ==
  ASSUME NEW cmd, cmd \notin {"SET_SOLAR_CONFIG", "SET_FLAG"}, words \in Seq(Word),
         Len(words) = 1, PartOf(cmd, 1) \in Seq(Digits)
  PROVE  TextOf(cmd) = PartOf(cmd, 1)
<1> DEFINE commas == cmd \in SetCommands \ {"SET_DATE_TIME"} /\ Len(words) > 1
           parts == [k \in DOMAIN words |->
                       (IF commas /\ k > 1 THEN <<Comma>> ELSE <<>>) \o PartOf(cmd, k)]
<1>1. TextOf(cmd) = FlattenSeq(parts)
  BY TextOfParts
<1>2. DOMAIN words = 1 .. 1
  OBVIOUS
<1> HIDE DEF commas
<1>3. Len(parts) = 1 /\ parts[1] = <<>> \o PartOf(cmd, 1)
  BY <1>2
<1> HIDE DEF parts
<1>4. FlattenSeq(parts) = parts[1]
  BY <1>3, FlattenFew
<1> QED BY <1>1, <1>3, <1>4, EmptyFirst

LEMMA TextOfTwo ==
  ASSUME NEW cmd, cmd \notin {"SET_SOLAR_CONFIG", "SET_FLAG", "SET_DATE_TIME"},
         words \in Seq(Word), Len(words) = 2, PartOf(cmd, 1) \in Seq(Digits)
  PROVE  /\ cmd \in SetCommands =>
              TextOf(cmd) = PartOf(cmd, 1) \o (<<Comma>> \o PartOf(cmd, 2))
         /\ cmd \notin SetCommands /\ PartOf(cmd, 2) \in Seq(Digits) =>
              TextOf(cmd) = PartOf(cmd, 1) \o PartOf(cmd, 2)
<1> DEFINE commas == cmd \in SetCommands \ {"SET_DATE_TIME"} /\ Len(words) > 1
           parts == [k \in DOMAIN words |->
                       (IF commas /\ k > 1 THEN <<Comma>> ELSE <<>>) \o PartOf(cmd, k)]
<1>1. TextOf(cmd) = FlattenSeq(parts)
  BY TextOfParts
<1>2. DOMAIN words = 1 .. 2 /\ (commas <=> cmd \in SetCommands) /\ commas \in BOOLEAN
  OBVIOUS
<1> HIDE DEF commas
<1>3. /\ Len(parts) = 2 /\ parts[1] = <<>> \o PartOf(cmd, 1)
      /\ commas => parts[2] = <<Comma>> \o PartOf(cmd, 2)
      /\ ~commas => parts[2] = <<>> \o PartOf(cmd, 2)
  <2>1. Len(parts) = 2 /\ 1 \in DOMAIN words /\ 2 \in DOMAIN words
    BY <1>2
  <2>2. parts[1] = <<>> \o PartOf(cmd, 1)
    BY <2>1
  <2>3. commas => parts[2] = <<Comma>> \o PartOf(cmd, 2)
    BY <2>1
  <2>4. ~commas => parts[2] = <<>> \o PartOf(cmd, 2)
    BY <2>1
  <2> QED BY <2>1, <2>2, <2>3, <2>4
<1> HIDE DEF parts
<1>4. FlattenSeq(parts) = parts[1] \o parts[2]
  BY <1>3, FlattenFew
<1>5. parts[1] = PartOf(cmd, 1)
  BY <1>3, EmptyFirst
<1>6. ~commas /\ PartOf(cmd, 2) \in Seq(Digits) => parts[2] = PartOf(cmd, 2)
  BY <1>3, EmptyFirst
<1> QED BY <1>1, <1>2, <1>3, <1>4, <1>5, <1>6

LEMMA NoDay ==
  ASSUME NEW cmd, cmd \notin {"DAY_GENERATED", "SET_DATE_TIME"}
  PROVE  DayExists(cmd)
  BY DEF DayExists

LEMMA PartIs ==
  ASSUME NEW cmd, NEW k, NEW v \in Int, cmd # "SET_DATE_TIME",
         ValueOf(Kinds(cmd)[k], words[k]) = v
  PROVE  PartOf(cmd, k) = Printed(v, Places(cmd, Kinds(cmd)[k]))
<1>1. v - 0 = v
  OBVIOUS
<1> QED BY <1>1 DEF PartOf

\* A command of one word says what the word says.
LEMMA OneWordSays ==
  ASSUME NEW cmd, cmd \notin {"SET_SOLAR_CONFIG", "SET_FLAG", "DAY_GENERATED", "SET_DATE_TIME"},
         words \in Seq(Word), Len(words) = 1,
         NEW kind, NEW places, NEW v \in Int,
         Kinds(cmd) = <<kind>>, Places(cmd, kind) = places,
         ValueOf(kind, words[1]) = v, kind = "keyword" \/ v \in Allowed(kind),
         Printed(v, places) \in Seq(Digits), Text(cmd) = Printed(v, places)
  PROVE  Says(cmd)
<1>1. Kinds(cmd)[1] = kind
  OBVIOUS
<1>2. PartOf(cmd, 1) = Printed(v, places)
  BY <1>1, PartIs
<1>3. Text(cmd) = TextOf(cmd)
  BY <1>2, TextOfOne
<1>4. \A k \in DOMAIN words : k = 1
  OBVIOUS
<1>5. AllowedWord(cmd, 1)
  BY <1>1 DEF AllowedWord
<1> QED BY <1>3, <1>4, <1>5, NoDay DEF Says

\* A command of two words says what the words say.
LEMMA TwoWordsSay ==
  ASSUME NEW cmd, cmd \notin {"SET_SOLAR_CONFIG", "SET_FLAG", "DAY_GENERATED", "SET_DATE_TIME"},
         words \in Seq(Word), Len(words) = 2,
         NEW kind, NEW places, NEW v \in Int,
         NEW second, NEW room, NEW u \in Int,
         Kinds(cmd) = <<kind, second>>, Places(cmd, kind) = places, Places(cmd, second) = room,
         ValueOf(kind, words[1]) = v, kind = "keyword" \/ v \in Allowed(kind),
         ValueOf(second, words[2]) = u, second = "keyword" \/ u \in Allowed(second),
         Printed(v, places) \in Seq(Digits), Printed(u, room) \in Seq(Digits),
         \/ cmd \in SetCommands
              /\ Text(cmd) = Printed(v, places) \o (<<Comma>> \o Printed(u, room))
         \/ cmd \notin SetCommands /\ Text(cmd) = Printed(v, places) \o Printed(u, room)
  PROVE  Says(cmd)
<1>1. Kinds(cmd)[1] = kind /\ Kinds(cmd)[2] = second
  OBVIOUS
<1>2. PartOf(cmd, 1) = Printed(v, places)
  BY <1>1, PartIs
<1>3. PartOf(cmd, 2) = Printed(u, room)
  BY <1>1, PartIs
<1>4. Text(cmd) = TextOf(cmd)
  <2>1. CASE cmd \in SetCommands
    BY <1>2, <1>3, <2>1, TextOfTwo
  <2>2. CASE cmd \notin SetCommands
    BY <1>2, <1>3, <2>2, TextOfTwo
  <2> QED BY <2>1, <2>2
<1>5. \A k \in DOMAIN words : k = 1 \/ k = 2
  OBVIOUS
<1>6. AllowedWord(cmd, 1) /\ AllowedWord(cmd, 2)
  BY <1>1 DEF AllowedWord
<1> QED BY <1>4, <1>5, <1>6, NoDay DEF Says

\* The words of most commands are left as they are.
LEMMA LeftAlone ==
  ASSUME NEW cmd, cmd \notin Buckets \cup OneKeyword \cup IdAndKeyword \cup {"SET_FLAG"}
  PROVE  Rewritten(cmd, words) = words /\ Text(cmd) = AppendArguments(cmd, words)
  BY RewrittenTables DEF Text

\* Digits that are sent for words left alone fit.
LEMMA DigitsAreFit ==
  ASSUME NEW cmd, Passed(cmd), Rewritten(cmd, words) = words, ArgumentsRead(cmd) <= WordsTaken(cmd),
         Text(cmd) \in Seq(Digits), NEW n \in 0 .. 60, Len(Text(cmd)) <= n
  PROVE  Fits(cmd)
<1>1. Text(cmd) \in Seq(0 .. MinusChar) /\ Len(Text(cmd)) <= 60
  BY DigitsFit
<1>2. Len(words) = WordsTaken(cmd)
  BY DEF Passed
<1>3. Len(Rewritten(cmd, words)) >= ArgumentsRead(cmd)
  BY <1>2, TakenType
<1> QED BY <1>1, <1>3 DEF Fits

LEMMA YearIsSent ==
  ASSUME Passed("YEAR_GENERATED")
  PROVE  Fits("YEAR_GENERATED") /\ Meant("YEAR_GENERATED")
<1> DEFINE cmd == "YEAR_GENERATED"  v == Number(words[1])  text == words[1].digits
<1>1. WordsTaken(cmd) = 1 /\ ArgumentsRead(cmd) = 1 /\ Kinds(cmd) = <<"year">>
  BY WordsTables, KindTables
<1>2. words[1] \in Word /\ IsPlain(words[1]) /\ words \in Seq(Word) /\ Len(words) = 1
  BY <1>1, WordsAre DEF Passed
<1>3. ValidYear(words[1])
  BY ChecksTables DEF Passed
<1>4. v \in Years
  BY <1>2, <1>3, YearIs
<1>5. text \in Seq(Digits) /\ Len(text) = 4 /\ Printed(v, 4) = text
  BY <1>2, <1>3, YearIs
<1>6. Rewritten(cmd, words) = words /\ Text(cmd) = text
  BY LeftAlone, AppendTables DEF Buckets, OneKeyword, IdAndKeyword
<1>7. Places(cmd, "year") = 4 /\ ValueOf("year", words[1]) = v
  BY PlaceTables, ValueTables
<1> HIDE DEF v, text
<1>8. Fits(cmd)
  <2>1. 4 \in 0 .. 60 /\ Len(text) <= 4 /\ ArgumentsRead(cmd) <= WordsTaken(cmd)
    BY <1>1, <1>5
  <2> QED BY <1>5, <1>6, <2>1, DigitsAreFit
<1>9. v \in Allowed("year") /\ v \in Int
  BY <1>4, AllowedTables DEF Years
<1>10. Says(cmd)
  BY <1>1, <1>2, <1>5, <1>6, <1>7, <1>9, OneWordSays
<1> QED BY <1>8, <1>10 DEF Meant

LEMMA MonthIsSent ==
  ASSUME Passed("MONTH_GENERATED")
  PROVE  Fits("MONTH_GENERATED") /\ Meant("MONTH_GENERATED")
<1> DEFINE cmd == "MONTH_GENERATED"
           v == Number(words[1])  first == words[1].digits
           u == Number(words[2])  rest == Printed(u, 2)
<1>1. WordsTaken(cmd) = 2 /\ ArgumentsRead(cmd) = 2 /\ Kinds(cmd) = <<"year", "month">>
  BY WordsTables, KindTables
<1>2. words \in Seq(Word) /\ Len(words) = 2
  BY <1>1 DEF Passed
<1>3. words[1] \in Word /\ IsPlain(words[1])
  BY <1>1, WordsAre
<1>4. ValidYear(words[1])
  BY ChecksTables DEF Passed
<1>17. ValidMonth(words[2])
  BY ChecksTables DEF Passed
<1>5. v \in Years
  BY <1>3, <1>4, YearIs
<1>6. first \in Seq(Digits) /\ Len(first) = 4 /\ Printed(v, 4) = first
  BY <1>3, <1>4, YearIs
<1>7. u \in 1 .. 12
  BY <1>17 DEF ValidMonth
<1>8. Rewritten(cmd, words) = words /\ Text(cmd) = first \o rest
  BY LeftAlone, AppendTables DEF Buckets, OneKeyword, IdAndKeyword
<1>9. Places(cmd, "year") = 4 /\ ValueOf("year", words[1]) = v
  BY PlaceTables, ValueTables
<1>10. Places(cmd, "month") = 2 /\ ValueOf("month", words[2]) = u
  BY PlaceTables, ValueTables
<1> HIDE DEF v, first, u
<1>11. rest \in Seq(Digits) /\ Len(rest) = 2
  BY <1>7, PrintedBelow
<1> HIDE DEF rest
<1>12. Fits(cmd)
  <2>1. 6 \in 0 .. 60 /\ ArgumentsRead(cmd) <= WordsTaken(cmd)
    BY <1>1
  <2>2. first \o rest \in Seq(Digits) /\ Len(first \o rest) = Len(first) + Len(rest)
    BY <1>6, <1>11, ConcatProperties
  <2>3. Len(first \o rest) <= 6
    BY <1>6, <1>11, <2>2
  <2> QED BY <1>8, <2>1, <2>2, <2>3, DigitsAreFit
<1>13. v \in Allowed("year") /\ v \in Int
  BY <1>5, AllowedTables DEF Years
<1>14. u \in Allowed("month") /\ u \in Int
  BY <1>7, AllowedTables
<1>15. cmd \notin SetCommands
  BY DEF SetCommands
<1>16. Says(cmd)
  <2>1. Printed(u, 2) = rest
    BY DEF rest
  <2> QED
    BY <1>1, <1>2, <1>6, <1>8, <1>9, <1>10, <1>11, <1>13, <1>14, <1>15, <2>1, TwoWordsSay
<1> QED BY <1>12, <1>16 DEF Meant

LEMMA ParallelIsSent ==
  ASSUME NEW cmd \in Parallels, Passed(cmd)
  PROVE  Fits(cmd) /\ Meant(cmd)
<1> DEFINE v == Number(words[1])  text == Printed(v, 1)
<1>1. WordsTaken(cmd) = 1 /\ ArgumentsRead(cmd) = 1 /\ Kinds(cmd) = <<"id">>
  BY WordsTables, KindTables
<1>2. words \in Seq(Word) /\ Len(words) = 1
  BY <1>1 DEF Passed
<1>3. words[1] \in Word /\ IsPlain(words[1])
  BY <1>1, WordsAre
<1>4. IsNumeric(words[1]) /\ Strlen(words[1]) <= 1
  BY ChecksTables DEF Passed
<1>5. v \in 0 .. 9
  BY <1>3, <1>4, OneDigit
<1>6. Rewritten(cmd, words) = words /\ Text(cmd) = text
  BY LeftAlone, AppendTables DEF Parallels, Buckets, OneKeyword, IdAndKeyword
<1>7. Places(cmd, "id") = 1 /\ ValueOf("id", words[1]) = v
  BY PlaceTables, ValueTables
<1> HIDE DEF v
<1>8. text \in Seq(Digits) /\ Len(text) = 1
  BY <1>5, PrintedBelow
<1>9. v \in Allowed("id") /\ v \in Int
  BY <1>5, AllowedTables
<1>10. cmd \notin {"SET_SOLAR_CONFIG", "SET_FLAG", "DAY_GENERATED", "SET_DATE_TIME"}
  BY DEF Parallels
<1>11. Says(cmd)
  BY <1>1, <1>2, <1>6, <1>7, <1>8, <1>9, <1>10, OneWordSays
<1> HIDE DEF text
<1>12. Fits(cmd)
  <2>1. 1 \in 0 .. 60 /\ Len(text) <= 1 /\ ArgumentsRead(cmd) <= WordsTaken(cmd)
    BY <1>1, <1>8
  <2> QED BY <1>6, <1>8, <2>1, DigitsAreFit
<1> QED BY <1>11, <1>12 DEF Meant

\* A bit is one digit.
IsBit(word) == IsText(word, <<0>>) \/ IsText(word, <<1>>)

LEMMA BitIs ==
  ASSUME NEW word, IsBit(word)
  PROVE  /\ Number(word) \in {0, 1} /\ word.digits = <<Number(word)>>
         /\ Printed(Number(word), 1) = <<Number(word)>> /\ <<Number(word)>> \in Seq(Digits)
<1>1. PICK b \in {0, 1} : word = Numeral(<<b>>)
  BY DEF IsBit, IsText
<1>2. b \in Digits
  BY DEF Digits
<1>3. word.digits = <<b>>
  BY <1>1, NumeralIs
<1>4. Atoi(<<b>>) = b
  BY <1>2, AtoiFew
<1>5. Number(word) = b
  BY <1>1, <1>4, NumeralIs
<1>6. Printed(b, 1) = <<b>>
  BY <1>2, PrintedDigit
<1>7. <<b>> \in Seq(Digits)
  BY <1>2
<1> QED BY <1>3, <1>5, <1>6, <1>7

LEMMA LoadsAreSent ==
  ASSUME Passed("SET_LOADS")
  PROVE  Fits("SET_LOADS") /\ Meant("SET_LOADS")
<1> DEFINE cmd == "SET_LOADS"  v == Number(words[1])  text == words[1].digits
<1>1. WordsTaken(cmd) = 1 /\ ArgumentsRead(cmd) = 1 /\ Kinds(cmd) = <<"bit">>
  BY WordsTables, KindTables
<1>2. words \in Seq(Word) /\ Len(words) = 1
  BY <1>1 DEF Passed
<1>3. IsText(words[1], <<0>>) \/ IsText(words[1], <<1>>)
  BY ChecksTables DEF Passed
<1>4. v \in {0, 1} /\ text = <<v>> /\ Printed(v, 1) = <<v>> /\ <<v>> \in Seq(Digits)
  BY <1>3, BitIs DEF IsBit
<1>5. Rewritten(cmd, words) = words /\ Text(cmd) = text
  BY LeftAlone, AppendTables DEF Buckets, OneKeyword, IdAndKeyword
<1>6. Places(cmd, "bit") = 1 /\ ValueOf("bit", words[1]) = v
  BY PlaceTables, ValueTables
<1> HIDE DEF v, text
<1>7. Fits(cmd)
  <2>1. 1 \in 0 .. 60 /\ Len(<<v>>) <= 1 /\ ArgumentsRead(cmd) <= WordsTaken(cmd)
    BY <1>1
  <2>2. Text(cmd) \in Seq(Digits) /\ Len(Text(cmd)) <= 1
    BY <1>4, <1>5, <2>1
  <2> QED BY <1>5, <2>1, <2>2, DigitsAreFit
<1>8. v \in Allowed("bit") /\ v \in Int
  BY <1>4, AllowedTables
<1>9. Says(cmd)
  <2>1. Printed(v, 1) \in Seq(Digits) /\ Text(cmd) = Printed(v, 1)
    BY <1>4, <1>5
  <2> QED BY <1>1, <1>2, <1>6, <1>8, <2>1, OneWordSays
<1> QED BY <1>7, <1>9 DEF Meant

LEMMA FrequencyIsSent ==
  ASSUME Passed("SET_AC_OUTPUT_FREQ")
  PROVE  Fits("SET_AC_OUTPUT_FREQ") /\ Meant("SET_AC_OUTPUT_FREQ")
<1> DEFINE cmd == "SET_AC_OUTPUT_FREQ"  v == Number(words[1])  text == Printed(v, 2)
<1>1. WordsTaken(cmd) = 1 /\ ArgumentsRead(cmd) = 1 /\ Kinds(cmd) = <<"frequency">>
  BY WordsTables, KindTables
<1>2. words \in Seq(Word) /\ Len(words) = 1
  BY <1>1 DEF Passed
<1>3. v \in {50, 60}
  <2>1. PICK d \in {5, 6} : words[1] = Numeral(<<d, 0>>)
    BY ChecksTables DEF Passed, IsText
  <2>2. d \in Digits /\ 0 \in Digits
    BY DEF Digits
  <2>3. Atoi(<<d, 0>>) = 10 * d + 0
    BY <2>2, AtoiFew
  <2>5. v = Atoi(<<d, 0>>)
    BY <2>1, NumeralIs
  <2> HIDE DEF v
  <2> QED BY <2>3, <2>5
<1>4. Rewritten(cmd, words) = words /\ Text(cmd) = text
  BY LeftAlone, AppendTables DEF Buckets, OneKeyword, IdAndKeyword
<1>5. Places(cmd, "frequency") = 2 /\ ValueOf("frequency", words[1]) = v
  BY PlaceTables, ValueTables
<1> HIDE DEF v
<1>6. text \in Seq(Digits) /\ Len(text) = 2
  <2>1. v \in Nat /\ v < 100
    BY <1>3
  <2> QED BY <2>1, PrintedBelow
<1>7. v \in Allowed("frequency") /\ v \in Int
  BY <1>3, AllowedTables
<1>8. Says(cmd)
  BY <1>1, <1>2, <1>4, <1>5, <1>6, <1>7, OneWordSays
<1> HIDE DEF text
<1>9. Fits(cmd)
  <2>1. 2 \in 0 .. 60 /\ Len(text) <= 2 /\ ArgumentsRead(cmd) <= WordsTaken(cmd)
    BY <1>1, <1>6
  <2> QED BY <1>4, <1>6, <2>1, DigitsAreFit
<1> QED BY <1>8, <1>9 DEF Meant

LEMMA RatedIsSent ==
  ASSUME Passed("SET_AC_OUTPUT_RATED_VOLTAGE")
  PROVE  Fits("SET_AC_OUTPUT_RATED_VOLTAGE") /\ Meant("SET_AC_OUTPUT_RATED_VOLTAGE")
<1> DEFINE cmd == "SET_AC_OUTPUT_RATED_VOLTAGE"  v == 10 * Number(words[1])  text == Printed(v, 4)
<1>1. WordsTaken(cmd) = 1 /\ ArgumentsRead(cmd) = 1 /\ Kinds(cmd) = <<"rated">>
  BY WordsTables, KindTables
<1>2. words \in Seq(Word) /\ Len(words) = 1
  BY <1>1 DEF Passed
<1>3. v \in {2020, 2080, 2200, 2300, 2400}
  <2> DEFINE number == Number(words[1])
  <2>1. number \in {202, 208, 220, 230, 240}
    BY ChecksTables DEF Passed, RatedVoltages
  <2> HIDE DEF number
  <2>2. 10 * number \in {2020, 2080, 2200, 2300, 2400}
    BY <2>1
  <2> QED BY <2>2 DEF number
<1>4. Rewritten(cmd, words) = words /\ Text(cmd) = text
  BY LeftAlone, AppendTables DEF Buckets, OneKeyword, IdAndKeyword
<1>5. Places(cmd, "rated") = 4 /\ ValueOf("rated", words[1]) = v
  BY PlaceTables, ValueTables
<1> HIDE DEF v
<1>6. text \in Seq(Digits) /\ Len(text) = 4
  <2>1. v \in Nat /\ v < 10000
    BY <1>3
  <2> QED BY <2>1, PrintedBelow
<1>7. v \in Allowed("rated") /\ v \in Int
  BY <1>3, AllowedTables
<1>8. Says(cmd)
  BY <1>1, <1>2, <1>4, <1>5, <1>6, <1>7, OneWordSays
<1> HIDE DEF text
<1>9. Fits(cmd)
  <2>1. 4 \in 0 .. 60 /\ Len(text) <= 4 /\ ArgumentsRead(cmd) <= WordsTaken(cmd)
    BY <1>1, <1>6
  <2> QED BY <1>4, <1>6, <2>1, DigitsAreFit
<1> QED BY <1>8, <1>9 DEF Meant

\* A comma between two texts.
LEMMA WithComma ==
  ASSUME NEW front \in Seq(0 .. MinusChar), NEW rest \in Seq(0 .. MinusChar)
  PROVE  /\ (front \o <<Comma>>) \o rest \in Seq(0 .. MinusChar)
         /\ Len((front \o <<Comma>>) \o rest) = Len(front) + 1 + Len(rest)
         /\ (front \o <<Comma>>) \o rest = front \o (<<Comma>> \o rest)
<1> DEFINE S == 0 .. MinusChar  comma == <<Comma>>
<1>1. comma \in Seq(S) /\ Len(comma) = 1
  BY DEF Comma, MinusChar
<1>2. front \in Seq(S) /\ rest \in Seq(S)
  OBVIOUS
<1> HIDE DEF S, comma
<1>3. (front \o comma) \o rest = front \o (comma \o rest)
  BY <1>1, <1>2, ConcatAssociative
<1>4. front \o comma \in Seq(S) /\ Len(front \o comma) = Len(front) + Len(comma)
  BY <1>1, <1>2, ConcatProperties
<1> DEFINE head == front \o comma
<1>5. head \in Seq(S) /\ Len(head) = Len(front) + 1
  BY <1>1, <1>4
<1> HIDE DEF head
<1>6. head \o rest \in Seq(S) /\ Len(head \o rest) = Len(head) + Len(rest)
  BY <1>2, <1>5, ConcatProperties
<1> QED BY <1>3, <1>5, <1>6 DEF S, comma, head

\* Voltages as they are sent.
LEMMA VoltsAreSent ==
  ASSUME NEW word \in Word, NEW low \in Nat, NEW high \in Nat, high < 1000,
         word.key = "nan" \/ Tenths(word) \in low .. high
  PROVE  /\ PrintedTenths(word) \in Seq(0 .. MinusChar) /\ Len(PrintedTenths(word)) <= 11
         /\ word.key # "nan" =>
              /\ Tenths(word) \in low .. high /\ Tenths(word) \in Nat
              /\ PrintedTenths(word) = Printed(Tenths(word), 3)
              /\ Printed(Tenths(word), 3) \in Seq(Digits)
              /\ Printed(Tenths(word), 3) \in Seq(0 .. MinusChar)
<1>1. word.key = "nan" \/ Tenths(word) \in 0 .. 999
  <2> DEFINE t == Tenths(word)
  <2>1. word.key = "nan" \/ t \in low .. high
    OBVIOUS
  <2> HIDE DEF t
  <2>2. word.key = "nan" \/ t \in 0 .. 999
    <3>1. t \in low .. high => t \in 0 .. 999
      OBVIOUS
    <3> QED BY <2>1, <3>1
  <2> QED BY <2>2 DEF t
<1>2. PrintedTenths(word) \in Seq(0 .. MinusChar) /\ Len(PrintedTenths(word)) <= 11
  BY <1>1, TenthsType
<1>3. ASSUME word.key # "nan"
      PROVE  /\ Tenths(word) \in low .. high /\ Tenths(word) \in Nat
             /\ PrintedTenths(word) = Printed(Tenths(word), 3)
             /\ Printed(Tenths(word), 3) \in Seq(Digits)
             /\ Printed(Tenths(word), 3) \in Seq(0 .. MinusChar)
  <2>1. Tenths(word) \in low .. high
    BY <1>3
  <2> DEFINE t == Tenths(word)
  <2>2. t \in Nat /\ t < 1000
    <3>1. t \in 0 .. 999
      BY <1>1, <1>3
    <3> HIDE DEF t
    <3> QED BY <3>1
  <2>3. PrintedTenths(word) = Printed(Tenths(word), 3)
    BY <1>3 DEF PrintedTenths
  <2>4. Printed(Tenths(word), 3) \in Seq(Digits)
    BY <2>2, PrintedBelow
  <2> QED BY <1>2, <2>1, <2>2, <2>3, <2>4
<1> QED BY <1>2, <1>3

\* The word of a voltage between limits.
LEMMA RangeWord ==
  ASSUME NEW word \in Word, NEW low \in Nat, NEW high \in Nat, InRange(word, low, high)
  PROVE  word.key = "nan" \/ Tenths(word) \in low .. high
  BY RangeIs

LEMMA CutoffIsSent ==
  ASSUME Passed("SET_BAT_CUTOFF_VOLTAGE")
  PROVE  Fits("SET_BAT_CUTOFF_VOLTAGE") /\ Meant("SET_BAT_CUTOFF_VOLTAGE")
<1> DEFINE cmd == "SET_BAT_CUTOFF_VOLTAGE"  v == Tenths(words[1])  text == PrintedTenths(words[1])
           low == 400  high == 480
<1>1. WordsTaken(cmd) = 1 /\ ArgumentsRead(cmd) = 1 /\ Kinds(cmd) = <<"cutoff">>
  BY WordsTables, KindTables
<1>2. words \in Seq(Word) /\ Len(words) = 1
  BY <1>1 DEF Passed
<1>3. words[1] \in Word /\ 1 \in DOMAIN words
  BY <1>1, WordsAre
<1>4. InRange(words[1], low, high)
  BY ChecksTables DEF Passed
<1>5. low \in Nat /\ high \in Nat /\ high < 1000
  OBVIOUS
<1>6. Rewritten(cmd, words) = words /\ Text(cmd) = text
  BY LeftAlone, AppendTables DEF Buckets, OneKeyword, IdAndKeyword
<1>7. Places(cmd, "cutoff") = 3
  BY PlaceTables DEF Volt
<1>8. ValueOf("cutoff", words[1]) = v
  BY ValueTables DEF Volt
<1>9. Allowed("cutoff") = low .. high
  BY AllowedTables
<1> HIDE DEF low, high
<1>10. words[1].key = "nan" \/ v \in low .. high
  BY <1>3, <1>4, <1>5, RangeWord
<1>11. /\ text \in Seq(0 .. MinusChar) /\ Len(text) <= 11
       /\ words[1].key # "nan" =>
            v \in low .. high /\ v \in Nat /\ text = Printed(v, 3) /\ Printed(v, 3) \in Seq(Digits)
  BY <1>3, <1>5, <1>10, VoltsAreSent
<1> HIDE DEF v, text
<1>12. Fits(cmd)
  <2>1. Len(Rewritten(cmd, words)) >= ArgumentsRead(cmd)
    BY <1>1, <1>2, <1>6
  <2>2. Text(cmd) \in Seq(0 .. MinusChar) /\ Len(Text(cmd)) <= 60
    BY <1>6, <1>11
  <2> QED BY <2>1, <2>2 DEF Fits
<1>13. ASSUME ~Misread("cutoff", words[1])
       PROVE  Says(cmd)
  <2>1. words[1].key # "nan"
    BY <1>13 DEF Misread, Volt
  <2>2. v \in Allowed("cutoff") /\ v \in Int
    <3>1. v \in low .. high /\ v \in Nat
      BY <1>11, <2>1
    <3>2. v \in Allowed("cutoff")
      BY <1>9, <3>1
    <3>3. v \in Int
      BY <3>1
    <3> QED BY <3>2, <3>3
  <2>3. Text(cmd) = Printed(v, 3) /\ Printed(v, 3) \in Seq(Digits)
    BY <1>6, <1>11, <2>1
  <2> QED BY <1>1, <1>2, <1>7, <1>8, <2>2, <2>3, OneWordSays
<1> QED BY <1>1, <1>3, <1>12, <1>13 DEF Meant

\* Two voltages, each from its limits or its table.
LEMMA TwoVoltsAreSent ==
  ASSUME NEW cmd \in {"SET_BAT_MAX_CHARGE_VOLTAGE", "SET_BAT_CHARGING_THRESHOLDS"}, Passed(cmd),
         NEW kind \in Volt, NEW second \in Volt, Kinds(cmd) = <<kind, second>>,
         words[1].key = "nan" \/ (Tenths(words[1]) \in ThreeDigits /\ Tenths(words[1]) \in Allowed(kind)),
         words[2].key = "nan" \/ (Tenths(words[2]) \in ThreeDigits /\ Tenths(words[2]) \in Allowed(second))
  PROVE  Fits(cmd) /\ Meant(cmd)
<1> DEFINE v == Tenths(words[1])  first == PrintedTenths(words[1])
           u == Tenths(words[2])  rest == PrintedTenths(words[2])
<1>1. WordsTaken(cmd) = 2 /\ ArgumentsRead(cmd) = 2
  BY WordsTables
<1>2. words \in Seq(Word) /\ Len(words) = 2
  BY <1>1 DEF Passed
<1>3. words[1] \in Word /\ 1 \in DOMAIN words /\ words[2] \in Word /\ 2 \in DOMAIN words
  BY <1>1, WordsAre
<1>4. Rewritten(cmd, words) = words /\ Text(cmd) = (first \o <<Comma>>) \o rest
  BY LeftAlone, AppendTables DEF Buckets, OneKeyword, IdAndKeyword
<1>5. /\ cmd \in SetCommands
      /\ cmd \notin {"SET_SOLAR_CONFIG", "SET_FLAG", "DAY_GENERATED", "SET_DATE_TIME"}
  BY DEF SetCommands
<1>6. Places(cmd, kind) = 3 /\ Places(cmd, second) = 3
  BY PlaceTables
<1>7. ValueOf(kind, words[1]) = v /\ ValueOf(second, words[2]) = u
  BY ValueTables
<1> DEFINE low == 0  high == 999
<1>8. low \in Nat /\ high \in Nat /\ high < 1000
  OBVIOUS
<1>15. /\ words[1].key = "nan" \/ Tenths(words[1]) \in low .. high
       /\ words[2].key = "nan" \/ Tenths(words[2]) \in low .. high
  BY DEF ThreeDigits
<1> HIDE DEF low, high
<1>9. /\ first \in Seq(0 .. MinusChar) /\ Len(first) <= 11
      /\ words[1].key # "nan" =>
           v \in Nat /\ first = Printed(v, 3) /\ Printed(v, 3) \in Seq(Digits)
  BY <1>3, <1>8, <1>15, VoltsAreSent
<1>10. /\ rest \in Seq(0 .. MinusChar) /\ Len(rest) <= 11
       /\ words[2].key # "nan" =>
            u \in Nat /\ rest = Printed(u, 3) /\ Printed(u, 3) \in Seq(Digits)
  BY <1>3, <1>8, <1>15, VoltsAreSent
<1>11. /\ words[1].key # "nan" => v \in Allowed(kind)
       /\ words[2].key # "nan" => u \in Allowed(second)
  OBVIOUS
<1> HIDE DEF v, u, first, rest
<1>12. /\ (first \o <<Comma>>) \o rest \in Seq(0 .. MinusChar)
       /\ Len((first \o <<Comma>>) \o rest) = Len(first) + 1 + Len(rest)
       /\ (first \o <<Comma>>) \o rest = first \o (<<Comma>> \o rest)
  BY <1>9, <1>10, WithComma
<1>13. Fits(cmd)
  <2>1. Len(Rewritten(cmd, words)) >= ArgumentsRead(cmd)
    <3>1. Rewritten(cmd, words) = words
      BY <1>4
    <3>2. Len(words) >= ArgumentsRead(cmd)
      BY <1>1, <1>2
    <3> QED BY <3>1, <3>2
  <2>2. Text(cmd) \in Seq(0 .. MinusChar)
    BY <1>4, <1>12
  <2>3. Len(first) \in Nat /\ Len(rest) \in Nat /\ Len(first) <= 11 /\ Len(rest) <= 11
    BY <1>9, <1>10
  <2>4. Len(Text(cmd)) <= 60
    BY <1>4, <1>12, <2>3
  <2> QED BY <2>1, <2>2, <2>4 DEF Fits
<1>14. ASSUME ~Misread(kind, words[1]), ~Misread(second, words[2])
       PROVE  Says(cmd)
  <2>1. words[1].key # "nan" /\ words[2].key # "nan"
    BY <1>14 DEF Misread
  <2>2. Text(cmd) = Printed(v, 3) \o (<<Comma>> \o Printed(u, 3))
    BY <1>4, <1>9, <1>10, <1>12, <2>1
  <2>3. /\ v \in Int /\ u \in Int /\ v \in Allowed(kind) /\ u \in Allowed(second)
        /\ Printed(v, 3) \in Seq(Digits) /\ Printed(u, 3) \in Seq(Digits)
    BY <1>9, <1>10, <1>11, <2>1
  <2> QED BY <1>2, <1>5, <1>6, <1>7, <2>2, <2>3, TwoWordsSay
<1>16. Kinds(cmd)[1] = kind /\ Kinds(cmd)[2] = second
  OBVIOUS
<1> QED BY <1>3, <1>13, <1>14, <1>16 DEF Meant

LEMMA ChargingIsSent ==
  ASSUME Passed("SET_BAT_MAX_CHARGE_VOLTAGE")
  PROVE  Fits("SET_BAT_MAX_CHARGE_VOLTAGE") /\ Meant("SET_BAT_MAX_CHARGE_VOLTAGE")
<1> DEFINE cmd == "SET_BAT_MAX_CHARGE_VOLTAGE"  low == 480  high == 584
<1>1. WordsTaken(cmd) = 2 /\ Kinds(cmd) = <<"charging", "charging">>
  BY WordsTables, KindTables
<1>2. words[1] \in Word /\ words[2] \in Word
  BY <1>1, WordsAre
<1>3. InRange(words[1], low, high) /\ InRange(words[2], low, high)
  BY ChecksTables DEF Passed
<1>4. low \in Nat /\ high \in Nat
  OBVIOUS
<1>5. Allowed("charging") = low .. high
  BY AllowedTables
<1>6. \A v : v \in low .. high => v \in ThreeDigits
  BY DEF ThreeDigits
<1> HIDE DEF low, high
<1>7. /\ words[1].key = "nan" \/ Tenths(words[1]) \in low .. high
      /\ words[2].key = "nan" \/ Tenths(words[2]) \in low .. high
  BY <1>2, <1>3, <1>4, RangeWord
<1>8. /\ words[1].key = "nan"
           \/ (Tenths(words[1]) \in ThreeDigits /\ Tenths(words[1]) \in Allowed("charging"))
      /\ words[2].key = "nan"
           \/ (Tenths(words[2]) \in ThreeDigits /\ Tenths(words[2]) \in Allowed("charging"))
  BY <1>5, <1>6, <1>7
<1>9. "charging" \in Volt
  BY DEF Volt
<1> QED BY <1>1, <1>8, <1>9, TwoVoltsAreSent

LEMMA ThresholdsAreSent ==
  ASSUME Passed("SET_BAT_CHARGING_THRESHOLDS")
  PROVE  Fits("SET_BAT_CHARGING_THRESHOLDS") /\ Meant("SET_BAT_CHARGING_THRESHOLDS")
<1> DEFINE cmd == "SET_BAT_CHARGING_THRESHOLDS"
<1>1. Kinds(cmd) = <<"recharging", "redischarging">>
  BY KindTables
<1>2. InTable(words[1], Recharging) /\ InTable(words[2], Redischarging)
  BY ChecksTables DEF Passed
<1>3. /\ Tenths(words[1]) \in ThreeDigits /\ Tenths(words[1]) \in Allowed("recharging")
      /\ Tenths(words[2]) \in ThreeDigits /\ Tenths(words[2]) \in Allowed("redischarging")
  BY <1>2, TableIs
<1>4. "recharging" \in Volt /\ "redischarging" \in Volt
  BY DEF Volt
<1> QED BY <1>1, <1>3, <1>4, TwoVoltsAreSent

\* A digit, a comma and more.
LEMMA DigitComma ==
  ASSUME NEW d \in Digits, NEW rest \in Seq(0 .. MinusChar)
  PROVE  /\ <<d, Comma>> \o rest = <<d>> \o (<<Comma>> \o rest)
         /\ <<d, Comma>> \o rest \in Seq(0 .. MinusChar)
         /\ Len(<<d, Comma>> \o rest) = 2 + Len(rest)
<1>1. <<d>> \in Seq(0 .. MinusChar) /\ Len(<<d>>) = 1
  BY DEF Digits, MinusChar
<1>2. <<d>> \o <<Comma>> = <<d, Comma>>
  <2> DEFINE x == <<d>>  y == <<Comma>>  z == <<d, Comma>>
  <2>1. /\ x \in Seq(0 .. MinusChar) /\ Len(x) = 1 /\ x[1] = d
        /\ y \in Seq(0 .. MinusChar) /\ Len(y) = 1 /\ y[1] = Comma
    BY <1>1 DEF Comma, MinusChar
  <2>2. z \in Seq(0 .. MinusChar) /\ Len(z) = 2 /\ z[1] = d /\ z[2] = Comma
    BY DEF Digits, Comma, MinusChar
  <2> HIDE DEF x, y, z
  <2>3. x \o y \in Seq(0 .. MinusChar) /\ Len(x \o y) = 2
    <3> DEFINE T == 0 .. MinusChar
    <3>1. x \in Seq(T) /\ y \in Seq(T) /\ Len(x) = 1 /\ Len(y) = 1
      BY <2>1
    <3> HIDE DEF T
    <3>2. x \o y \in Seq(T) /\ Len(x \o y) = Len(x) + Len(y)
      BY ONLY <3>1, ConcatProperties
    <3> QED BY <3>1, <3>2 DEF T
  <2>4. (x \o y)[1] = d /\ (x \o y)[2] = Comma
    BY <2>1, ConcatProperties, SMTT(40)
  <2>5. \A k \in 1 .. 2 : (x \o y)[k] = z[k]
    <3>1. \A k \in 1 .. 2 : k = 1 \/ k = 2
      OBVIOUS
    <3>2. (x \o y)[1] = z[1] /\ (x \o y)[2] = z[2]
      BY <2>2, <2>4
    <3> QED BY <3>1, <3>2
  <2>6. x \o y = z
    BY <2>2, <2>3, <2>5, SeqEqual
  <2> QED BY <2>6 DEF x, y, z
<1>3. /\ (<<d>> \o <<Comma>>) \o rest \in Seq(0 .. MinusChar)
      /\ Len((<<d>> \o <<Comma>>) \o rest) = Len(<<d>>) + 1 + Len(rest)
      /\ (<<d>> \o <<Comma>>) \o rest = <<d>> \o (<<Comma>> \o rest)
  BY <1>1, WithComma
<1>4. Len(<<d, Comma>> \o rest) = 1 + 1 + Len(rest) /\ Len(rest) \in Nat
  BY <1>1, <1>2, <1>3
<1>5. Len(<<d, Comma>> \o rest) = 2 + Len(rest)
  BY <1>4
<1> QED BY <1>2, <1>3, <1>5

LEMMA CurrentIsSent ==
  ASSUME NEW cmd \in Currents, Passed(cmd)
  PROVE  Fits(cmd) /\ Meant(cmd)
<1> DEFINE v == Number(words[1])  d == words[1].digits[1]
           u == Number(words[2])  rest == Printed(u, 3)
<1>1. WordsTaken(cmd) = 2 /\ ArgumentsRead(cmd) = 2 /\ Kinds(cmd) = <<"id", "amps">>
  BY WordsTables, KindTables
<1>2. words \in Seq(Word) /\ Len(words) = 2
  BY <1>1 DEF Passed
<1>3. words[1] \in Word /\ IsPlain(words[1]) /\ words[2] \in Word
  BY <1>1, WordsAre
<1>4. IsValidParallelId(words[1]) /\ GetUint(words[2]) /\ Strlen(words[2]) <= 3
  BY ChecksTables DEF Passed
<1>5. v \in 0 .. 9 /\ d \in Digits /\ Printed(v, 1) = <<d>>
  BY <1>3, <1>4, IdIs
<1>6. u \in -999 .. 999
  BY <1>3, <1>4, AmpsIs
<1>7. Rewritten(cmd, words) = words /\ Text(cmd) = <<d, Comma>> \o rest
  BY LeftAlone, AppendTables DEF Currents, Buckets, OneKeyword, IdAndKeyword
<1>8. /\ cmd \in SetCommands
      /\ cmd \notin {"SET_SOLAR_CONFIG", "SET_FLAG", "DAY_GENERATED", "SET_DATE_TIME"}
  BY DEF SetCommands, Currents
<1>9. /\ Places(cmd, "id") = 1 /\ ValueOf("id", words[1]) = v
      /\ Places(cmd, "amps") = 3 /\ ValueOf("amps", words[2]) = u
      /\ ~Misread("amps", words[2]) => ~(u < 0)
  BY PlaceTables, ValueTables DEF Misread
<1> HIDE DEF v, d, u
<1>10. rest \in Seq(0 .. MinusChar) /\ Len(rest) \in 1 .. 10
  <2> DEFINE p == 10^9
  <2>1. 3 \in 1 .. 9 /\ 3 \in 0 .. 9 /\ 9 \in 0 .. 9 /\ 10^3 = 1000 /\ 3 \in 0 .. 9
    OBVIOUS
  <2>2. p \in Nat /\ 10^3 <= p
    BY <2>1, PowersGrow
  <2> HIDE DEF p
  <2>3. u \in Int /\ -p < u /\ u < p
    BY <1>6, <2>1, <2>2
  <2> QED BY <2>1, <2>3, PrintedSigned DEF p
<1>11. v \in Allowed("id") /\ v \in Int
  BY <1>5, AllowedTables
<1>12. ~(u < 0) => u \in Allowed("amps") /\ u \in Int /\ Printed(u, 3) \in Seq(Digits)
  <2> SUFFICES ASSUME ~(u < 0)
               PROVE  u \in Allowed("amps") /\ u \in Int /\ Printed(u, 3) \in Seq(Digits)
    OBVIOUS
  <2>1. u \in 0 .. 999 /\ u \in Nat /\ u \in Int /\ u < 1000
    BY <1>6
  <2>2. u \in Allowed("amps")
    BY <2>1, AllowedTables
  <2>3. Printed(u, 3) \in Seq(Digits)
    BY <2>1, PrintedBelow
  <2> QED BY <2>1, <2>2, <2>3
<1>13. Printed(u, 3) = rest
  OBVIOUS
<1> HIDE DEF rest
<1>14. /\ <<d, Comma>> \o rest = <<d>> \o (<<Comma>> \o rest)
       /\ <<d, Comma>> \o rest \in Seq(0 .. MinusChar)
       /\ Len(<<d, Comma>> \o rest) = 2 + Len(rest)
  BY <1>5, <1>10, DigitComma
<1>15. Fits(cmd)
  <2>1. Len(words) >= ArgumentsRead(cmd)
    BY <1>1, <1>2
  <2>2. Text(cmd) \in Seq(0 .. MinusChar)
    BY <1>7, <1>14
  <2>3. Len(Text(cmd)) <= 60
    <3> DEFINE l == Len(rest)  k == Len(Text(cmd))
    <3>1. l \in 1 .. 10 /\ k = 2 + l
      BY <1>7, <1>10, <1>14
    <3> HIDE DEF l, k
    <3>2. k <= 60
      BY <3>1
    <3> QED BY <3>2 DEF k
  <2> QED BY <1>7, <2>1, <2>2, <2>3 DEF Fits
<1>16. ASSUME ~Misread("amps", words[2])
       PROVE  Says(cmd)
  <2>1. Text(cmd) = Printed(v, 1) \o (<<Comma>> \o Printed(u, 3))
    BY <1>5, <1>7, <1>13, <1>14
  <2>2. u \in Allowed("amps") /\ u \in Int /\ Printed(u, 3) \in Seq(Digits)
    BY <1>9, <1>12, <1>16
  <2>3. Printed(v, 1) \in Seq(Digits)
    <3>1. <<d>> \in Seq(Digits)
      BY <1>5
    <3> QED BY <1>5, <3>1
  <2> QED BY <1>1, <1>2, <1>8, <1>9, <1>11, <2>1, <2>2, <2>3, TwoWordsSay
<1>17. 2 \in DOMAIN words /\ Kinds(cmd)[2] = "amps"
  BY <1>1, <1>2
<1> QED BY <1>15, <1>16, <1>17 DEF Meant

LEMMA KeywordIsSent ==
  ASSUME NEW cmd \in OneKeyword, Passed(cmd)
  PROVE  Fits(cmd) /\ Meant(cmd)
<1> DEFINE i == IndexOf(words[1], KeywordLists[cmd])
<1>1. WordsTaken(cmd) = 1 /\ ArgumentsRead(cmd) = 1 /\ Kinds(cmd) = <<"keyword">>
  BY WordsTables, KindTables
<1>2. words \in Seq(Word) /\ Len(words) = 1
  BY <1>1 DEF Passed
<1>3. cmd \in DOMAIN KeywordLists
  BY KeywordCommands
<1>4. i # -1
  BY KeywordChecks DEF Passed
<1>5. i \in 0 .. 4 /\ ValueOf("keyword", words[1]) = i
  BY <1>3, <1>4, KeywordIs
<1>6. Rewritten(cmd, words) = [words EXCEPT ![1] = Numeral(<<i>>)]
  BY RewrittenTables
<1>7. Text(cmd) = <<Rewritten(cmd, words)[1].digits[1]>>
  BY AppendTables DEF Text
<1>8. Places(cmd, "keyword") = 1
  BY PlaceTables
<1>9. cmd \notin {"SET_SOLAR_CONFIG", "SET_FLAG", "DAY_GENERATED", "SET_DATE_TIME"}
  BY DEF OneKeyword
<1> HIDE DEF i
<1>10. /\ Len(Rewritten(cmd, words)) = 1
       /\ Rewritten(cmd, words)[1] = Numeral(<<i>>)
  BY <1>2, <1>6
<1>11. Numeral(<<i>>).digits = <<i>>
  BY NumeralIs
<1>12. Text(cmd) = <<i>>
  BY <1>7, <1>10, <1>11
<1>13. i \in Digits /\ i \in Int
  BY <1>5 DEF Digits
<1>14. Printed(i, 1) = <<i>> /\ <<i>> \in Seq(Digits) /\ Len(<<i>>) = 1
  BY <1>13, PrintedDigit
<1>15. Fits(cmd)
  <2>1. Text(cmd) \in Seq(Digits) /\ Len(Text(cmd)) <= 1 /\ 1 \in 0 .. 60
    BY <1>12, <1>14
  <2>2. Text(cmd) \in Seq(0 .. MinusChar) /\ Len(Text(cmd)) <= 60
    BY <2>1, DigitsFit
  <2>3. Len(Rewritten(cmd, words)) >= ArgumentsRead(cmd)
    BY <1>1, <1>10
  <2> QED BY <2>2, <2>3 DEF Fits
<1>16. Says(cmd)
  BY <1>1, <1>2, <1>5, <1>8, <1>9, <1>12, <1>13, <1>14, OneWordSays
<1> QED BY <1>15, <1>16 DEF Meant

LEMMA IdAndKeywordAreSent ==
  ASSUME NEW cmd \in IdAndKeyword, Passed(cmd)
  PROVE  Fits(cmd) /\ Meant(cmd)
<1> DEFINE v == Number(words[1])  d == words[1].digits[1]
           i == IndexOf(words[2], KeywordLists[cmd])
<1>1. WordsTaken(cmd) = 2 /\ ArgumentsRead(cmd) = 2 /\ Kinds(cmd) = <<"id", "keyword">>
  BY WordsTables, KindTables
<1>2. words \in Seq(Word) /\ Len(words) = 2
  BY <1>1 DEF Passed
<1>3. words[1] \in Word /\ IsPlain(words[1])
  BY <1>1, WordsAre
<1>4. IsValidParallelId(words[1]) /\ i # -1
  BY KeywordChecks DEF Passed
<1>5. v \in 0 .. 9 /\ d \in Digits /\ Printed(v, 1) = <<d>>
  BY <1>3, <1>4, IdIs
<1>6. cmd \in DOMAIN KeywordLists
  BY KeywordCommands
<1>7. i \in 0 .. 4 /\ ValueOf("keyword", words[2]) = i
  BY <1>4, <1>6, KeywordIs
<1>8. Rewritten(cmd, words) = [words EXCEPT ![2] = Numeral(<<i>>)]
  BY RewrittenTables
<1>9. Text(cmd) = <<Rewritten(cmd, words)[1].digits[1], Comma, Rewritten(cmd, words)[2].digits[1]>>
  BY AppendTables DEF Text
<1>10. Places(cmd, "id") = 1 /\ ValueOf("id", words[1]) = v /\ Places(cmd, "keyword") = 1
  BY PlaceTables, ValueTables
<1>11. /\ cmd \in SetCommands
       /\ cmd \notin {"SET_SOLAR_CONFIG", "SET_FLAG", "DAY_GENERATED", "SET_DATE_TIME"}
  BY DEF SetCommands, IdAndKeyword
<1>12. Numeral(<<i>>).digits = <<i>>
  BY NumeralIs
<1> HIDE DEF v, i
<1>13. /\ Len(Rewritten(cmd, words)) = 2
       /\ Rewritten(cmd, words)[1] = words[1] /\ Rewritten(cmd, words)[2] = Numeral(<<i>>)
  BY <1>2, <1>8
<1>14. Text(cmd) = <<d, Comma, i>>
  BY <1>9, <1>12, <1>13
<1> HIDE DEF d
<1>15. i \in Digits /\ i \in Int
  BY <1>7 DEF Digits
<1>16. Printed(i, 1) = <<i>> /\ <<i>> \in Seq(Digits) /\ Len(<<i>>) = 1
  BY <1>15, PrintedDigit
<1>17. <<d>> \in Seq(Digits)
  BY <1>5
<1>18. /\ <<d, Comma>> \o <<i>> = <<d>> \o (<<Comma>> \o <<i>>)
       /\ <<d, Comma>> \o <<i>> \in Seq(0 .. MinusChar)
       /\ Len(<<d, Comma>> \o <<i>>) = 2 + Len(<<i>>)
  <2>1. <<i>> \in Seq(0 .. MinusChar)
    BY <1>15 DEF Digits, MinusChar
  <2> QED BY <1>5, <2>1, DigitComma
<1>19. <<d, Comma>> \o <<i>> = <<d, Comma, i>>
  <2> DEFINE x == <<d, Comma>>  y == <<i>>  z == <<d, Comma, i>>
  <2>1. x \in Seq(0 .. MinusChar) /\ Len(x) = 2 /\ x[1] = d /\ x[2] = Comma
    BY <1>5 DEF Digits, Comma, MinusChar
  <2>2. y \in Seq(0 .. MinusChar) /\ Len(y) = 1 /\ y[1] = i
    BY <1>15 DEF Digits, MinusChar
  <2>3. z \in Seq(0 .. MinusChar) /\ Len(z) = 3 /\ z[1] = d /\ z[2] = Comma /\ z[3] = i
    BY <1>5, <1>15 DEF Digits, Comma, MinusChar
  <2> HIDE DEF x, y, z
  <2>8. /\ x \o y \in Seq(0 .. MinusChar) /\ Len(x \o y) = Len(x) + Len(y)
        /\ \A k \in 1 .. Len(x) + Len(y) :
             (x \o y)[k] = IF k <= Len(x) THEN x[k] ELSE y[k - Len(x)]
    BY <2>1, <2>2, ConcatProperties
  <2>4. x \o y \in Seq(0 .. MinusChar) /\ Len(x \o y) = 3
    BY <2>1, <2>2, <2>8
  <2>5. (x \o y)[1] = d /\ (x \o y)[2] = Comma /\ (x \o y)[3] = i
    <3>1. 1 \in 1 .. Len(x) + Len(y) /\ 2 \in 1 .. Len(x) + Len(y) /\ 3 \in 1 .. Len(x) + Len(y)
      BY <2>1, <2>2
    <3>2. 1 <= Len(x) /\ 2 <= Len(x) /\ ~(3 <= Len(x)) /\ 3 - Len(x) = 1
      BY <2>1
    <3>3. (x \o y)[1] = x[1] /\ (x \o y)[2] = x[2] /\ (x \o y)[3] = y[3 - Len(x)]
      BY <2>8, <3>1, <3>2
    <3> QED BY <2>1, <2>2, <3>2, <3>3
  <2>6. \A k \in 1 .. 3 : (x \o y)[k] = z[k]
    <3>1. \A k \in 1 .. 3 : k = 1 \/ k = 2 \/ k = 3
      OBVIOUS
    <3>2. (x \o y)[1] = z[1] /\ (x \o y)[2] = z[2] /\ (x \o y)[3] = z[3]
      BY <2>3, <2>5
    <3> QED BY <3>1, <3>2
  <2>7. x \o y = z
    BY <2>3, <2>4, <2>6, SeqEqual
  <2> QED BY <2>7 DEF x, y, z
<1>20. Fits(cmd)
  <2> DEFINE text == <<d, Comma>> \o <<i>>
  <2>1. text \in Seq(0 .. MinusChar) /\ Len(text) = 3
    BY <1>16, <1>18
  <2>2. Text(cmd) = text
    BY <1>14, <1>19
  <2> HIDE DEF text
  <2>3. Len(Rewritten(cmd, words)) >= ArgumentsRead(cmd)
    BY <1>1, <1>13
  <2>4. text \in Seq(0 .. MinusChar) /\ Len(text) <= 60
    BY <2>1
  <2> QED BY <2>2, <2>3, <2>4 DEF Fits
<1>21. Says(cmd)
  <2>1. Text(cmd) = Printed(v, 1) \o (<<Comma>> \o Printed(i, 1))
    BY <1>5, <1>14, <1>16, <1>18, <1>19
  <2>2. Printed(v, 1) \in Seq(Digits) /\ Printed(i, 1) \in Seq(Digits)
    BY <1>5, <1>16, <1>17
  <2>3. v \in Allowed("id") /\ v \in Int
    BY <1>5, AllowedTables
  <2> QED BY <1>1, <1>2, <1>7, <1>10, <1>11, <1>15, <2>1, <2>2, <2>3, TwoWordsSay
<1> QED BY <1>20, <1>21 DEF Meant

LEMMA SolarIsSent ==
  ASSUME Passed("SET_SOLAR_CONFIG")
  PROVE  Fits("SET_SOLAR_CONFIG") /\ Meant("SET_SOLAR_CONFIG")
<1> DEFINE cmd == "SET_SOLAR_CONFIG"  id == words[1].digits
<1>1. WordsTaken(cmd) = 1 /\ ArgumentsRead(cmd) = 1 /\ Kinds(cmd) = <<"serial">>
  BY WordsTables, KindTables
<1>2. words \in Seq(Word) /\ Len(words) = 1
  BY <1>1 DEF Passed
<1>3. words[1] \in Word /\ IsPlain(words[1])
  BY <1>1, WordsAre
<1>4. IsNumeric(words[1]) /\ Strlen(words[1]) <= 20
  BY ChecksTables DEF Passed
<1>5. id \in Seq(Digits) /\ Len(id) <= 20
  BY <1>3, <1>4, PlainIs, NumbersType
<1>6. Rewritten(cmd, words) = words /\ Text(cmd) = SolarId(id)
  BY LeftAlone, AppendTables DEF Buckets, OneKeyword, IdAndKeyword
<1>7. TextOf(cmd) = SolarId(id)
  BY DEF TextOf
<1> HIDE DEF id
<1>8. SolarId(id) \in Seq(Digits) /\ Len(SolarId(id)) = 22
  BY <1>5, SolarType
<1>9. Fits(cmd)
  <2>1. 22 \in 0 .. 60 /\ Len(SolarId(id)) <= 22 /\ ArgumentsRead(cmd) <= WordsTaken(cmd)
    BY <1>1, <1>8
  <2> QED BY <1>6, <1>8, <2>1, DigitsAreFit
<1>10. Says(cmd)
  <2>1. \A k \in DOMAIN words : k = 1
    BY <1>2
  <2>2. AllowedWord(cmd, 1)
    BY <1>1 DEF AllowedWord
  <2> QED BY <1>6, <1>7, <2>1, <2>2, NoDay DEF Says
<1> QED BY <1>9, <1>10 DEF Meant

LEMMA KeywordWord ==
  ASSUME NEW name
  PROVE  Keyword(name).key = name
  BY DEF Keyword, Numeral

LEMMA FlagIsSent ==
  ASSUME Passed("SET_FLAG")
  PROVE  Fits("SET_FLAG") /\ Meant("SET_FLAG")
<1> DEFINE cmd == "SET_FLAG"  b == Number(words[2])  letter == FlagLetters[words[1].key]
           char == FlagChars[letter]  first == IF b = 1 THEN EnableChar ELSE DisableChar
<1>1. WordsTaken(cmd) = 2 /\ ArgumentsRead(cmd) = 2 /\ Kinds(cmd) = <<"flag", "bit">>
  BY WordsTables, KindTables
<1>2. words \in Seq(Word) /\ Len(words) = 2
  BY <1>1 DEF Passed
<1>3. PICK flag \in DOMAIN FlagLetters : words[1] = Keyword(flag)
  BY ChecksTables DEF Passed
<1>4. IsText(words[2], <<0>>) \/ IsText(words[2], <<1>>)
  BY ChecksTables DEF Passed
<1>5. b \in {0, 1} /\ words[2].digits = <<b>>
  BY <1>4, BitIs DEF IsBit
<1>6. words[1].key = flag
  BY <1>3, KeywordWord
<1>7. char \in 13 .. 21
  BY <1>6 DEF FlagLetters, FlagChars
<1>8. Rewritten(cmd, words) = [words EXCEPT ![1] = Keyword(letter)]
  BY RewrittenTables
<1>9. Text(cmd) = <<IF Rewritten(cmd, words)[2].digits[1] = 1 THEN EnableChar ELSE DisableChar,
                    FlagChars[Rewritten(cmd, words)[1].key]>>
  BY AppendTables DEF Text
<1>10. Keyword(letter).key = letter
  BY KeywordWord
<1>11. ValueOf("flag", words[1]) = char /\ ValueOf("bit", words[2]) = b
  BY ValueTables
<1>12. TextOf(cmd) = <<IF ValueOf(Kinds(cmd)[2], words[2]) - 0 = 1 THEN EnableChar ELSE DisableChar,
                       ValueOf(Kinds(cmd)[1], words[1]) - 0>>
  BY DEF TextOf
<1> HIDE DEF b, letter
<1>13. /\ Len(Rewritten(cmd, words)) = 2
       /\ Rewritten(cmd, words)[1] = Keyword(letter) /\ Rewritten(cmd, words)[2] = words[2]
  BY <1>2, <1>8
<1>14. Text(cmd) = <<first, char>>
  <2>1. Rewritten(cmd, words)[2].digits[1] = b
    BY <1>5, <1>13
  <2>2. FlagChars[Rewritten(cmd, words)[1].key] = char
    BY <1>10, <1>13
  <2> QED BY <1>9, <2>1, <2>2
<1> HIDE DEF char
<1>15. TextOf(cmd) = <<first, char>>
  <2>1. Kinds(cmd)[1] = "flag" /\ Kinds(cmd)[2] = "bit"
    BY <1>1
  <2>2. b - 0 = b /\ char - 0 = char
    BY <1>5, <1>7
  <2> QED BY <1>11, <1>12, <2>1, <2>2
<1>16. first \in 0 .. MinusChar /\ char \in 0 .. MinusChar
  BY <1>7 DEF EnableChar, DisableChar, MinusChar
<1> HIDE DEF first
<1>17. Fits(cmd)
  <2>1. <<first, char>> \in Seq(0 .. MinusChar) /\ Len(<<first, char>>) <= 60
    BY <1>16
  <2>2. Len(Rewritten(cmd, words)) >= ArgumentsRead(cmd)
    BY <1>1, <1>13
  <2> QED BY <1>14, <2>1, <2>2 DEF Fits
<1>18. Says(cmd)
  <2>1. \A k \in DOMAIN words : k = 1 \/ k = 2
    BY <1>2
  <2>2. Kinds(cmd)[1] = "flag" /\ Kinds(cmd)[2] = "bit"
    BY <1>1
  <2>3. b \in Allowed("bit")
    BY <1>5, AllowedTables
  <2>4. AllowedWord(cmd, 1) /\ AllowedWord(cmd, 2)
    BY <1>11, <2>2, <2>3 DEF AllowedWord
  <2> QED BY <1>14, <1>15, <2>1, <2>4, NoDay DEF Says
<1> QED BY <1>17, <1>18 DEF Meant

\* The words of a bucket, apart.
LEMMA BucketWords ==
  ASSUME NEW cmd \in Buckets
  PROVE  /\ Len(Rewritten(cmd, words)) = 4
         /\ Number(Rewritten(cmd, words)[1]) = Number(HoursOf(words[1]))
         /\ Number(Rewritten(cmd, words)[2]) = Number(MinutesOf(words[1]))
         /\ Number(Rewritten(cmd, words)[3]) = Number(HoursOf(words[2]))
         /\ Number(Rewritten(cmd, words)[4]) = Number(MinutesOf(words[2]))
<1>1. Rewritten(cmd, words) =
        <<HoursOf(words[1]), MinutesOf(words[1]), HoursOf(words[2]), MinutesOf(words[2])>>
  BY RewrittenTables
<1> QED BY <1>1

\* A time in four digits.
LEMMA TimeSays ==
  ASSUME NEW h \in 0 .. 23, NEW m \in 0 .. 59
  PROVE  /\ Printed(100 * h + m, 4) = Printed(h, 2) \o Printed(m, 2)
         /\ Printed(100 * h + m, 4) \in Seq(Digits)
         /\ 100 * h + m \in Allowed("time") /\ 100 * h + m \in Int
<1>1. h \in 0 .. 99 /\ m \in 0 .. 99
  OBVIOUS
<1>2. Printed(100 * h + m, 4) = Printed(h, 2) \o Printed(m, 2)
  BY <1>1, FourPlaces
<1>3. 100 * h + m \in Nat /\ 100 * h + m < 10000
  OBVIOUS
<1>4. Printed(100 * h + m, 4) \in Seq(Digits)
  BY <1>3, PrintedBelow
<1>5. 100 * h + m \in {100 * i + j : i \in 0 .. 23, j \in 0 .. 59}
  OBVIOUS
<1>6. 100 * h + m \in Allowed("time")
  BY <1>5, AllowedTables, SMTT(40)
<1> QED BY <1>2, <1>3, <1>4, <1>6

LEMMA BucketIsSent ==
  ASSUME NEW cmd \in Buckets, Passed(cmd)
  PROVE  Fits(cmd) /\ Meant(cmd)
<1> DEFINE h == Number(HoursOf(words[1]))  m == Number(MinutesOf(words[1]))
           i == Number(HoursOf(words[2]))  j == Number(MinutesOf(words[2]))
           one == Printed(h, 2)  two == Printed(m, 2)  three == Printed(i, 2)  four == Printed(j, 2)
           S == 0 .. MinusChar  comma == <<Comma>>
           front == one \o two  rest == three \o four
<1>1. WordsTaken(cmd) = 2 /\ ArgumentsRead(cmd) = 4 /\ Kinds(cmd) = <<"time", "time">>
  BY WordsTables, KindTables
<1>2. words \in Seq(Word) /\ Len(words) = 2
  BY <1>1 DEF Passed
<1>3. words[1] \in Word /\ words[2] \in Word /\ 1 \in DOMAIN words /\ 2 \in DOMAIN words
  BY <1>1, WordsAre
<1>4. ValidTime(words[1]) /\ ValidTime(words[2])
  BY ChecksTables DEF Passed
<1>5. cmd # "SET_SOLAR_CONFIG" /\ cmd \in SetCommands
      /\ cmd \notin {"SET_SOLAR_CONFIG", "SET_FLAG", "DAY_GENERATED", "SET_DATE_TIME"}
  BY DEF Buckets, SetCommands
<1>6. BelowBillion(h) /\ BelowBillion(m)
  <2>1. Atoi(words[1].digits) < 10^9 /\ Atoi(words[1].more) < 10^9
    BY <1>1, <1>5, WordsAre
  <2> QED BY <1>3, <2>1, TimeBelow
<1>7. BelowBillion(i) /\ BelowBillion(j)
  <2>1. Atoi(words[2].digits) < 10^9 /\ Atoi(words[2].more) < 10^9
    BY <1>1, <1>5, WordsAre
  <2> QED BY <1>3, <2>1, TimeBelow
<1>8. /\ Len(Rewritten(cmd, words)) = 4
      /\ Number(Rewritten(cmd, words)[1]) = h /\ Number(Rewritten(cmd, words)[2]) = m
      /\ Number(Rewritten(cmd, words)[3]) = i /\ Number(Rewritten(cmd, words)[4]) = j
  BY BucketWords
<1>9. Text(cmd) = ((front \o comma) \o three) \o four
  BY <1>8, AppendTables DEF Text
<1>10. ValueOf("time", words[1]) = 100 * h + m /\ ValueOf("time", words[2]) = 100 * i + j
  BY ValueTables
<1>11. Places(cmd, "time") = 4
  BY PlaceTables
<1>12. ~Misread("time", words[1]) => h \in 0 .. 23 /\ m \in 0 .. 59
  BY <1>3, <1>4, TimeIs
<1>13. ~Misread("time", words[2]) => i \in 0 .. 23 /\ j \in 0 .. 59
  BY <1>3, <1>4, TimeIs
<1> HIDE DEF h, m, i, j
<1>a. 2 \in 1 .. 9
  OBVIOUS
<1>14. /\ one \in Seq(S) /\ Len(one) \in 1 .. 10 /\ two \in Seq(S) /\ Len(two) \in 1 .. 10
  BY <1>6, <1>a, PrintedSigned DEF BelowBillion
<1>15. /\ three \in Seq(S) /\ Len(three) \in 1 .. 10 /\ four \in Seq(S) /\ Len(four) \in 1 .. 10
  BY <1>7, <1>a, PrintedSigned DEF BelowBillion
<1>16. comma \in Seq(S)
  BY DEF Comma, MinusChar
<1>17. ASSUME ~Misread("time", words[1]), ~Misread("time", words[2])
       PROVE  /\ Printed(100 * h + m, 4) = front /\ Printed(100 * h + m, 4) \in Seq(Digits)
              /\ 100 * h + m \in Allowed("time") /\ 100 * h + m \in Int
              /\ Printed(100 * i + j, 4) = rest /\ Printed(100 * i + j, 4) \in Seq(Digits)
              /\ 100 * i + j \in Allowed("time") /\ 100 * i + j \in Int
  BY <1>12, <1>13, <1>17, TimeSays, ZenonT(40)
<1> HIDE DEF one, two, three, four
<1>18. front \in Seq(S) /\ Len(front) = Len(one) + Len(two)
  BY <1>14, ConcatProperties
<1>19. rest \in Seq(S) /\ Len(rest) = Len(three) + Len(four)
  BY <1>15, ConcatProperties
<1> DEFINE head == front \o comma
<1> HIDE DEF front
<1>20. head \in Seq(S)
  BY <1>16, <1>18
<1> HIDE DEF head
<1>21. (head \o three) \o four = head \o rest
  BY <1>15, <1>20, ConcatAssociative
<1> HIDE DEF rest
<1>22. /\ head \o rest \in Seq(S) /\ Len(head \o rest) = Len(front) + 1 + Len(rest)
       /\ head \o rest = front \o (comma \o rest)
  BY <1>18, <1>19, WithComma DEF head
<1>23. Text(cmd) = head \o rest
  BY <1>9, <1>21 DEF head
<1>24. Fits(cmd)
  <2>1. Len(head \o rest) <= 60
    <3> DEFINE a1 == Len(one)  a2 == Len(two)  a3 == Len(three)  a4 == Len(four)
               l == Len(head \o rest)
    <3>1. a1 \in 1 .. 10 /\ a2 \in 1 .. 10 /\ a3 \in 1 .. 10 /\ a4 \in 1 .. 10
      BY <1>14, <1>15
    <3>2. l = (a1 + a2) + 1 + (a3 + a4)
      BY <1>18, <1>19, <1>22
    <3> HIDE DEF a1, a2, a3, a4, l
    <3>3. l <= 60
      BY <3>1, <3>2
    <3> QED BY <3>3 DEF l
  <2>2. Len(Rewritten(cmd, words)) >= ArgumentsRead(cmd)
    BY <1>1, <1>8
  <2> QED BY <1>22, <1>23, <2>1, <2>2 DEF Fits
<1>25. ASSUME ~Misread("time", words[1]), ~Misread("time", words[2])
       PROVE  Says(cmd)
  <2> DEFINE v == 100 * h + m  u == 100 * i + j
  <2>1. /\ Printed(v, 4) = front /\ Printed(v, 4) \in Seq(Digits) /\ v \in Allowed("time") /\ v \in Int
        /\ Printed(u, 4) = rest /\ Printed(u, 4) \in Seq(Digits) /\ u \in Allowed("time") /\ u \in Int
    BY <1>17, <1>25
  <2>2. ValueOf("time", words[1]) = v /\ ValueOf("time", words[2]) = u
    BY <1>10
  <2> HIDE DEF v, u
  <2>3. Text(cmd) = Printed(v, 4) \o (<<Comma>> \o Printed(u, 4))
    BY <1>22, <1>23, <2>1
  <2> QED BY <1>1, <1>2, <1>5, <1>11, <2>1, <2>2, <2>3, TwoWordsSay
<1>26. Kinds(cmd)[1] = "time" /\ Kinds(cmd)[2] = "time"
  BY <1>1
<1> QED BY <1>3, <1>24, <1>25, <1>26 DEF Meant

\* isdatevalid asks whether the day exists.
LEMMA DateIs ==
  ASSUME NEW y \in Nat, NEW m \in 1 .. 12, NEW d \in 1 .. 31
  PROVE  IsDateValid(y, m, d) <=> d <= DaysOf(y, m)
  BY DEF IsDateValid, DaysOf

\* The words of a date.
LEMMA DateWords ==
  ASSUME ValidDate(words[1], words[2], words[3]), words[1] \in Word, IsPlain(words[1])
  PROVE  /\ Number(words[1]) \in Years
         /\ words[1].digits \in Seq(Digits) /\ Len(words[1].digits) = 4
         /\ Printed(Number(words[1]), 4) = words[1].digits
         /\ Number(words[2]) \in 1 .. 12 /\ Number(words[3]) \in 1 .. 31
         /\ Number(words[3]) <= DaysOf(Number(words[1]), Number(words[2]))
<1> DEFINE y == Number(words[1])  m == Number(words[2])  d == Number(words[3])
<1>1. ValidYear(words[1])
  BY DEF ValidDate
<1>2. ValidMonth(words[2]) /\ ValidDay(words[3]) /\ IsDateValid(y, m, d)
  BY DEF ValidDate
<1>3. m \in 1 .. 12 /\ d \in 1 .. 31
  BY <1>2 DEF ValidMonth, ValidDay
<1>4. y \in Years
  BY <1>1, YearIs
<1>5. /\ words[1].digits \in Seq(Digits) /\ Len(words[1].digits) = 4
      /\ Printed(Number(words[1]), 4) = words[1].digits
  BY <1>1, YearIs
<1> HIDE DEF y, m, d
<1>6. d <= DaysOf(y, m)
  <2>1. y \in Nat
    BY <1>4 DEF Years
  <2> QED BY <1>2, <1>3, <2>1, DateIs
<1> QED BY <1>3, <1>4, <1>5, <1>6 DEF y, m, d

LEMMA TextOfThree ==
  ASSUME NEW cmd, cmd \notin SetCommands, cmd \notin {"SET_SOLAR_CONFIG", "SET_FLAG"},
         words \in Seq(Word), Len(words) = 3,
         PartOf(cmd, 1) \in Seq(Digits), PartOf(cmd, 2) \in Seq(Digits), PartOf(cmd, 3) \in Seq(Digits)
  PROVE  TextOf(cmd) = (PartOf(cmd, 1) \o PartOf(cmd, 2)) \o PartOf(cmd, 3)
<1> DEFINE commas == cmd \in SetCommands \ {"SET_DATE_TIME"} /\ Len(words) > 1
           parts == [k \in DOMAIN words |->
                       (IF commas /\ k > 1 THEN <<Comma>> ELSE <<>>) \o PartOf(cmd, k)]
<1>1. TextOf(cmd) = FlattenSeq(parts)
  BY TextOfParts
<1>2. DOMAIN words = 1 .. 3 /\ ~commas
  OBVIOUS
<1> HIDE DEF commas
<1>3. Len(parts) = 3 /\ \A k \in 1 .. 3 : parts[k] = <<>> \o PartOf(cmd, k)
  BY <1>2
<1> HIDE DEF parts
<1>4. FlattenSeq(parts) = (parts[1] \o parts[2]) \o parts[3]
  BY <1>3, FlattenFew
<1>5. 1 \in 1 .. 3 /\ 2 \in 1 .. 3 /\ 3 \in 1 .. 3
  OBVIOUS
<1>6. parts[1] = PartOf(cmd, 1) /\ parts[2] = PartOf(cmd, 2) /\ parts[3] = PartOf(cmd, 3)
  BY <1>3, <1>5, EmptyFirst
<1> QED BY <1>1, <1>4, <1>6

LEMMA DayIsSent ==
  ASSUME Passed("DAY_GENERATED")
  PROVE  Fits("DAY_GENERATED") /\ Meant("DAY_GENERATED")
<1> DEFINE cmd == "DAY_GENERATED"
           v == Number(words[1])  first == words[1].digits
           u == Number(words[2])  second == Printed(u, 2)
           t == Number(words[3])  third == Printed(t, 2)
<1>1. WordsTaken(cmd) = 3 /\ ArgumentsRead(cmd) = 3 /\ Kinds(cmd) = <<"year", "month", "day">>
  BY WordsTables, KindTables
<1>2. words \in Seq(Word) /\ Len(words) = 3
  BY <1>1 DEF Passed
<1>3. words[1] \in Word /\ IsPlain(words[1])
  BY <1>1, WordsAre
<1>4. ValidDate(words[1], words[2], words[3])
  BY ChecksTables DEF Passed
<1>5. v \in Years /\ t <= DaysOf(v, u)
  BY <1>3, <1>4, DateWords
<1>6. first \in Seq(Digits) /\ Len(first) = 4 /\ Printed(v, 4) = first
  BY <1>3, <1>4, DateWords
<1>7. u \in 1 .. 12 /\ t \in 1 .. 31
  BY <1>3, <1>4, DateWords
<1>8. Rewritten(cmd, words) = words /\ Text(cmd) = (first \o second) \o third
  BY LeftAlone, AppendTables DEF Buckets, OneKeyword, IdAndKeyword
<1>9. /\ ValueOf("year", words[1]) = v /\ ValueOf("month", words[2]) = u
      /\ ValueOf("day", words[3]) = t
  BY ValueTables
<1>10. Places(cmd, "year") = 4 /\ Places(cmd, "month") = 2 /\ Places(cmd, "day") = 2
  BY PlaceTables
<1>11. DayExists(cmd)
  BY <1>5 DEF DayExists
<1> HIDE DEF v, u, t, first
<1>12. u \in Nat /\ u < 100 /\ t \in Nat /\ t < 100 /\ u \in Int /\ t \in Int /\ v \in Int
  BY <1>5, <1>7 DEF Years
<1>13. /\ second \in Seq(Digits) /\ Len(second) = 2 /\ third \in Seq(Digits) /\ Len(third) = 2
  BY <1>12, PrintedBelow
<1>14. Kinds(cmd)[1] = "year" /\ Kinds(cmd)[2] = "month" /\ Kinds(cmd)[3] = "day"
  BY <1>1
<1>15. PartOf(cmd, 1) = first /\ PartOf(cmd, 2) = second /\ PartOf(cmd, 3) = third
  BY <1>6, <1>9, <1>10, <1>12, <1>14, PartIs
<1> HIDE DEF second, third
<1>16. TextOf(cmd) = Text(cmd)
  <2>1. cmd \notin SetCommands
    BY DEF SetCommands
  <2> QED BY <1>2, <1>6, <1>8, <1>13, <1>15, <2>1, TextOfThree
<1>17. Says(cmd)
  <2>1. v \in Allowed("year")
    BY <1>5, AllowedTables DEF Years
  <2>2. u \in Allowed("month")
    BY <1>7, AllowedTables
  <2>3. t \in Allowed("day")
    BY <1>7, AllowedTables
  <2>4. AllowedWord(cmd, 1) /\ AllowedWord(cmd, 2) /\ AllowedWord(cmd, 3)
    BY <1>9, <1>14, <2>1, <2>2, <2>3 DEF AllowedWord
  <2>5. \A k \in DOMAIN words : k = 1 \/ k = 2 \/ k = 3
    BY <1>2
  <2> QED BY <1>11, <1>16, <2>4, <2>5 DEF Says
<1>18. Fits(cmd)
  <2> DEFINE head == first \o second
  <2>1. head \in Seq(Digits) /\ Len(head) = Len(first) + Len(second)
    BY <1>6, <1>13, ConcatProperties
  <2> HIDE DEF head
  <2>2. head \o third \in Seq(Digits) /\ Len(head \o third) = Len(head) + Len(third)
    BY <1>13, <2>1, ConcatProperties
  <2>3. Len(head \o third) <= 8
    BY <1>6, <1>13, <2>1, <2>2
  <2>4. 8 \in 0 .. 60 /\ ArgumentsRead(cmd) <= WordsTaken(cmd)
    BY <1>1
  <2>5. Text(cmd) = head \o third
    BY <1>8 DEF head
  <2> QED BY <1>8, <2>2, <2>3, <2>4, <2>5, DigitsAreFit
<1> QED BY <1>17, <1>18 DEF Meant

\* The words of a date and a time.
LEMMA DateTimeWords ==
  ASSUME Passed("SET_DATE_TIME")
  PROVE  /\ words \in Seq(Word) /\ Len(words) = 6 /\ DOMAIN words = 1 .. 6
         /\ Number(words[1]) \in Years /\ Number(words[2]) \in 1 .. 12
         /\ Number(words[3]) \in 1 .. 31 /\ Number(words[4]) \in 0 .. 23
         /\ Number(words[5]) \in 0 .. 59 /\ Number(words[6]) \in 0 .. 59
         /\ DayExists("SET_DATE_TIME")
<1> DEFINE cmd == "SET_DATE_TIME"
<1>1. WordsTaken(cmd) = 6
  BY WordsTables
<1>2. words \in Seq(Word) /\ Len(words) = 6 /\ DOMAIN words = 1 .. 6
  BY <1>1 DEF Passed
<1>3. words[1] \in Word /\ IsPlain(words[1])
  BY <1>1, WordsAre
<1>4. ValidDate(words[1], words[2], words[3])
  BY ChecksTables, SMTT(40) DEF Passed
<1>5. ValidTimePart(words[4], 23) /\ ValidTimePart(words[5], 59) /\ ValidTimePart(words[6], 59)
  BY ChecksTables, SMTT(40) DEF Passed
<1>6. /\ Number(words[1]) \in Years /\ Number(words[2]) \in 1 .. 12
      /\ Number(words[3]) \in 1 .. 31
      /\ Number(words[3]) <= DaysOf(Number(words[1]), Number(words[2]))
  BY <1>3, <1>4, DateWords
<1>7. \A k \in {4, 5, 6} : words[k] \in Word /\ IsPlain(words[k]) /\ IsNumeric(words[k])
  <2>1. IsNumeric(words[4]) /\ IsNumeric(words[5]) /\ IsNumeric(words[6])
    BY <1>5 DEF ValidTimePart
  <2>2. \A k \in {4, 5, 6} : words[k] \in Word /\ IsPlain(words[k])
    <3> TAKE k \in {4, 5, 6}
    <3>1. k \in Nat /\ k > 0 /\ k <= WordsTaken(cmd)
      BY <1>1
    <3> QED BY <3>1, WordsAre
  <2> QED BY <2>1, <2>2
<1>8. Number(words[4]) \in Nat /\ Number(words[5]) \in Nat /\ Number(words[6]) \in Nat
  <2>1. \A k \in {4, 5, 6} : Number(words[k]) \in Nat
    BY <1>7, PlainIs, NumbersType
  <2> QED BY <2>1
<1>9. Number(words[4]) <= 23 /\ Number(words[5]) <= 59 /\ Number(words[6]) <= 59
  BY <1>5 DEF ValidTimePart
<1>10. /\ Number(words[4]) \in 0 .. 23 /\ Number(words[5]) \in 0 .. 59
       /\ Number(words[6]) \in 0 .. 59
  BY <1>8, <1>9
<1>11. DayExists(cmd)
  BY <1>6 DEF DayExists
<1> QED BY <1>2, <1>6, <1>10, <1>11

LEMMA DateTimeIsSent ==
  ASSUME Passed("SET_DATE_TIME")
  PROVE  Fits("SET_DATE_TIME") /\ Meant("SET_DATE_TIME")
<1> DEFINE cmd == "SET_DATE_TIME"
           sent(k) == IF k = 1 THEN Number(words[1]) - 2000 ELSE Number(words[k])
           parts == [k \in 1 .. 6 |-> Printed(sent(k), 2)]
<1>1. ArgumentsRead(cmd) = 6
  BY WordsTables
<1>2. Kinds(cmd) = <<"year", "month", "day", "hour", "minute", "minute">>
  BY KindTables
<1>3. words \in Seq(Word) /\ Len(words) = 6 /\ DOMAIN words = 1 .. 6 /\ DayExists(cmd)
  BY DateTimeWords
<1>4. /\ Number(words[1]) \in Years /\ Number(words[2]) \in 1 .. 12
      /\ Number(words[3]) \in 1 .. 31 /\ Number(words[4]) \in 0 .. 23
      /\ Number(words[5]) \in 0 .. 59 /\ Number(words[6]) \in 0 .. 59
  BY DateTimeWords
<1>5. \A k \in 1 .. 6 : k = 1 \/ k = 2 \/ k = 3 \/ k = 4 \/ k = 5 \/ k = 6
  OBVIOUS
<1>6. /\ Kinds(cmd)[1] = "year" /\ Kinds(cmd)[2] = "month" /\ Kinds(cmd)[3] = "day"
      /\ Kinds(cmd)[4] = "hour" /\ Kinds(cmd)[5] = "minute" /\ Kinds(cmd)[6] = "minute"
  BY <1>2
<1>7. \A k \in 1 .. 6 :
        Kinds(cmd)[k] \in {"year", "month", "day", "hour", "minute"}
  BY <1>5, <1>6
<1>8. \A k \in 1 .. 6 :
        ValueOf(Kinds(cmd)[k], words[k]) = Number(words[k]) /\ Places(cmd, Kinds(cmd)[k]) = 2
  <2> TAKE k \in 1 .. 6
  <2> DEFINE kind == Kinds(cmd)[k]
  <2>1. kind \in {"year", "month", "day", "hour", "minute"}
    BY <1>7
  <2> HIDE DEF kind
  <2>2. ValueOf(kind, words[k]) = Number(words[k])
    BY <2>1, ValueTables
  <2>3. Places(cmd, kind) = 2
    BY <2>1, PlaceTables
  <2> QED BY <2>2, <2>3 DEF kind
<1>9. \A k \in 1 .. 6 : sent(k) \in 0 .. 99
  <2> DEFINE n(k) == Number(words[k])
  <2>1. n(1) \in 2000 .. 2099
    BY <1>4 DEF Years
  <2>2. n(2) \in 0 .. 99 /\ n(3) \in 0 .. 99 /\ n(4) \in 0 .. 99 /\ n(5) \in 0 .. 99 /\ n(6) \in 0 .. 99
    BY <1>4
  <2> HIDE DEF n
  <2>3. n(1) - 2000 \in 0 .. 99
    BY <2>1
  <2>4. sent(1) = n(1) - 2000 /\ \A k \in 2 .. 6 : sent(k) = n(k)
    BY DEF n
  <2>5. sent(1) \in 0 .. 99 /\ sent(2) \in 0 .. 99 /\ sent(3) \in 0 .. 99
        /\ sent(4) \in 0 .. 99 /\ sent(5) \in 0 .. 99 /\ sent(6) \in 0 .. 99
    BY <2>2, <2>3 DEF n
  <2> HIDE DEF sent
  <2> QED BY <1>5, <2>5
<1>10. \A k \in 1 .. 6 : PartOf(cmd, k) = Printed(sent(k), 2)
  <2> TAKE k \in 1 .. 6
  <2>1. PartOf(cmd, k) = Printed(Number(words[k]) - (IF k = 1 THEN 2000 ELSE 0), 2)
    BY <1>8 DEF PartOf
  <2>2. CASE k = 1
    BY <2>1, <2>2
  <2>3. CASE k # 1
    <3>1. sent(k) = Number(words[k])
      BY <2>3
    <3>2. sent(k) - 0 = sent(k)
      <4>1. sent(k) \in 0 .. 99
        BY <1>9
      <4> HIDE DEF sent
      <4> QED BY <4>1
    <3> QED BY <2>1, <2>3, <3>1, <3>2
  <2> QED BY <2>2, <2>3
<1>11. Rewritten(cmd, words) = words
  BY LeftAlone DEF Buckets, OneKeyword, IdAndKeyword
<1>12. Text(cmd) = FlattenSeq(parts)
  <2>1. Text(cmd) = DateTime(words)
    BY <1>11, AppendTables DEF Text
  <2>2. DateTime(words) = FlattenSeq(parts)
    BY Zenon DEF DateTime
  <2> QED BY <2>1, <2>2
<1> HIDE DEF sent
<1>13. \A k \in 1 .. 6 : parts[k] \in Seq(Digits) /\ Len(parts[k]) <= 2
  <2> TAKE k \in 1 .. 6
  <2>1. sent(k) \in Nat /\ sent(k) < 100
    BY <1>9
  <2>2. Printed(sent(k), 2) \in Seq(Digits) /\ Len(Printed(sent(k), 2)) = 2
    BY <2>1, PrintedBelow
  <2>3. parts[k] = Printed(sent(k), 2)
    OBVIOUS
  <2> DEFINE part == parts[k]
  <2>4. part \in Seq(Digits) /\ Len(part) = 2
    BY <2>2, <2>3
  <2> HIDE DEF part
  <2>5. Len(part) <= 2
    BY <2>4
  <2> QED BY <2>4, <2>5 DEF part
<1>14. Fits(cmd)
  <2>1. Len(parts) = 6 /\ 6 \in Nat \ {0} /\ 2 \in Nat
    OBVIOUS
  <2> HIDE DEF parts
  <2>2. FlattenSeq(parts) \in Seq(Digits) /\ Len(FlattenSeq(parts)) <= 6 * 2
    BY <1>13, <2>1, FlattenType
  <2>3. Len(Rewritten(cmd, words)) >= ArgumentsRead(cmd)
    <3>1. Len(words) >= ArgumentsRead(cmd)
      BY <1>1, <1>3
    <3> QED BY <1>11, <3>1
  <2> DEFINE text == FlattenSeq(parts)
  <2>4. text \in Seq(Digits) /\ Len(text) <= 12 /\ 12 \in 0 .. 60
    BY <2>2
  <2> HIDE DEF text
  <2>5. text \in Seq(0 .. MinusChar) /\ Len(text) <= 60
    BY <2>4, DigitsFit
  <2> QED BY <1>12, <2>3, <2>5 DEF Fits, text
<1>15. TextOf(cmd) = FlattenSeq(parts)
  <2> DEFINE commas == cmd \in SetCommands \ {"SET_DATE_TIME"} /\ Len(words) > 1
             all == [k \in DOMAIN words |->
                      (IF commas /\ k > 1 THEN <<Comma>> ELSE <<>>) \o PartOf(cmd, k)]
  <2>1. TextOf(cmd) = FlattenSeq(all)
    BY TextOfParts
  <2>2. ~commas
    OBVIOUS
  <2> HIDE DEF commas
  <2>3. all = [k \in 1 .. 6 |-> <<>> \o PartOf(cmd, k)]
    BY <1>3, <2>2
  <2>4. \A k \in 1 .. 6 : <<>> \o PartOf(cmd, k) = parts[k]
    <3> TAKE k \in 1 .. 6
    <3>1. parts[k] = Printed(sent(k), 2)
      OBVIOUS
    <3>2. PartOf(cmd, k) = parts[k] /\ parts[k] \in Seq(Digits)
      BY <1>10, <1>13, <3>1
    <3> HIDE DEF parts
    <3> QED BY <3>2, EmptyFirst
  <2>5. parts = [k \in 1 .. 6 |-> parts[k]]
    OBVIOUS
  <2> HIDE DEF all, parts
  <2>6. all = parts
    BY <2>3, <2>4, <2>5
  <2> QED BY <2>1, <2>6
<1>16. Says(cmd)
  <2>1. Number(words[1]) \in Allowed("year")
    BY <1>4, AllowedTables DEF Years
  <2>2. Number(words[2]) \in Allowed("month") /\ Number(words[3]) \in Allowed("day")
    BY <1>4, AllowedTables
  <2>3. Number(words[4]) \in Allowed("hour") /\ Number(words[5]) \in Allowed("minute")
        /\ Number(words[6]) \in Allowed("minute")
    BY <1>4, AllowedTables
  <2>4. \A k \in 1 .. 6 : Number(words[k]) \in Allowed(Kinds(cmd)[k])
    BY <1>5, <1>6, <2>1, <2>2, <2>3
  <2>5. \A k \in DOMAIN words : AllowedWord(cmd, k)
    BY <1>3, <1>8, <2>4 DEF AllowedWord
  <2> QED BY <1>3, <1>12, <1>15, <2>5 DEF Says
<1> QED BY <1>14, <1>16 DEF Meant

\* A command without words sends nothing behind its name.
LEMMA NothingIsSent ==
  ASSUME NEW cmd \in AllCommands \ WithWords, Passed(cmd)
  PROVE  Fits(cmd) /\ Meant(cmd)
<1>1. /\ WordsTaken(cmd) = 0 /\ ArgumentsRead(cmd) = 0 /\ Kinds(cmd) = <<>>
      /\ Rewritten(cmd, words) = words /\ AppendArguments(cmd, words) = <<>>
  BY WithoutWords
<1>2. words \in Seq(Word) /\ Len(words) = 0
  BY <1>1 DEF Passed
<1>3. Text(cmd) = <<>>
  BY <1>1 DEF Text
<1>4. Fits(cmd)
  <2>1. Text(cmd) \in Seq(0 .. MinusChar) /\ Len(Text(cmd)) <= 60
    BY <1>3
  <2>2. Len(words) >= ArgumentsRead(cmd)
    BY <1>1, <1>2
  <2> QED BY <1>1, <2>1, <2>2 DEF Fits
<1>5. words = <<>> /\ DOMAIN words = {}
  BY <1>2
<1>6. cmd \notin {"SET_SOLAR_CONFIG", "SET_FLAG", "DAY_GENERATED", "SET_DATE_TIME"}
  BY DEF WithWords, Dates
<1>7. TextOf(cmd) = <<>>
  <2> DEFINE parts(k) ==
        (IF (cmd \in SetCommands \ {"SET_DATE_TIME"} /\ Len(words) > 1) /\ k > 1
           THEN <<Comma>> ELSE <<>>) \o PartOf(cmd, k)
             all == [k \in DOMAIN words |-> parts(k)]
  <2>1. TextOf(cmd) = FlattenSeq(all)
    BY <1>6, TextOfParts
  <2> HIDE DEF parts
  <2>2. all = <<>>
    BY <1>5
  <2> HIDE DEF all
  <2>3. FlattenSeq(<<>>) = <<>>
    BY DEF FlattenSeq
  <2> QED BY <2>1, <2>2, <2>3
<1>8. Says(cmd)
  BY <1>3, <1>5, <1>6, <1>7, NoDay DEF Says
<1> QED BY <1>4, <1>8 DEF Meant

LEMMA AllAreSent ==
  ASSUME NEW cmd, Passed(cmd)
  PROVE  Fits(cmd) /\ Meant(cmd)
<1>1. cmd \in AllCommands
  BY DEF Passed
<1>2. CASE cmd \notin WithWords
  BY <1>1, <1>2, NothingIsSent
<1>3. CASE cmd \in Dates
  BY <1>3, YearIsSent, MonthIsSent, DayIsSent DEF Dates
<1>4. CASE cmd \in Parallels \cup Currents \cup Buckets \cup OneKeyword \cup IdAndKeyword
  BY <1>4, ParallelIsSent, CurrentIsSent, BucketIsSent, KeywordIsSent, IdAndKeywordAreSent
<1>5. CASE cmd \in {"SET_LOADS", "SET_FLAG", "SET_AC_OUTPUT_FREQ", "SET_BAT_MAX_CHARGE_VOLTAGE"}
  BY <1>5, LoadsAreSent, FlagIsSent, FrequencyIsSent, ChargingIsSent
<1>6. CASE cmd \in {"SET_AC_OUTPUT_RATED_VOLTAGE", "SET_BAT_CHARGING_THRESHOLDS",
                    "SET_BAT_CUTOFF_VOLTAGE", "SET_SOLAR_CONFIG", "SET_DATE_TIME"}
  BY <1>6, RatedIsSent, ThresholdsAreSent, CutoffIsSent, SolarIsSent, DateTimeIsSent
<1> QED BY <1>2, <1>3, <1>4, <1>5, <1>6 DEF WithWords

\* a[] is as long as p18_append_arguments reads.
LEMMA ArgumentsAreThere ==
  ASSUME NEW cmd \in AllCommands, NEW w \in Seq(Word), Len(w) = WordsTaken(cmd)
  PROVE  Len(Rewritten(cmd, w)) >= ArgumentsRead(cmd)
<1>1. CASE cmd \notin WithWords
  <2>1. WordsTaken(cmd) = 0 /\ ArgumentsRead(cmd) = 0 /\ Rewritten(cmd, w) = w
    BY <1>1, WithoutWords
  <2> QED BY <2>1
<1>2. CASE cmd \in Buckets
  <2>1. Len(Rewritten(cmd, w)) = 4
    BY <1>2, RewrittenTables
  <2>2. ArgumentsRead(cmd) = 4
    BY <1>2, WordsTables
  <2> QED BY <2>1, <2>2
<1>3. CASE cmd \in WithWords \ Buckets
  <2>1. WordsTaken(cmd) = ArgumentsRead(cmd) /\ ArgumentsRead(cmd) \in Nat
    BY <1>3, WordsTables DEF WithWords, Dates
  <2>2. Len(Rewritten(cmd, w)) = Len(w)
    <3>1. CASE cmd \in OneKeyword
      <4> DEFINE code == Numeral(<<IndexOf(w[1], KeywordLists[cmd])>>)
      <4>1. Rewritten(cmd, w) = [w EXCEPT ![1] = code]
        BY <3>1, RewrittenTables
      <4> HIDE DEF code
      <4> QED BY <4>1
    <3>2. CASE cmd \in IdAndKeyword
      <4> DEFINE code == Numeral(<<IndexOf(w[2], KeywordLists[cmd])>>)
      <4>1. Rewritten(cmd, w) = [w EXCEPT ![2] = code]
        BY <3>2, RewrittenTables
      <4> HIDE DEF code
      <4> QED BY <4>1
    <3>3. CASE cmd = "SET_FLAG"
      <4>1. \E v : Rewritten(cmd, w) = [w EXCEPT ![1] = v]
        BY <3>3, RewrittenTables
      <4> QED BY <4>1
    <3>4. CASE cmd \notin Buckets \cup OneKeyword \cup IdAndKeyword \cup {"SET_FLAG"}
      BY <3>4, RewrittenTables
    <3> QED BY <1>3, <3>1, <3>2, <3>3, <3>4
  <2> QED BY <2>1, <2>2
<1> QED BY <1>1, <1>2, <1>3

\* A name is seven letters at most.
LEMMA NamesAreShort == \A cmd \in AllCommands : NameLength(cmd) \in 1 .. 7
  BY DEF AllCommands, QueryCommands, SetCommands, NameLength

-----------------------------------------------------------------------------
(* The theorems. *)

\* What was sent comes from words that passed.
LEMMA SentPassed ==
  ASSUME IInv, pc = "sent"
  PROVE  /\ Passed(command) /\ request = BuildCommand(command, a) /\ request.text = Text(command)
         /\ request.name = command
         /\ request.length = LengthDigits + NameLength(command) + Len(Text(command))
<1>1. TypeInv /\ WordsInv
  BY DEF IInv
<1>2. /\ Len(words) = WordsTaken(command) /\ Checked(command, words)
      /\ a = Rewritten(command, words) /\ request = BuildCommand(command, a)
  BY <1>1 DEF WordsInv
<1>3. Passed(command)
  BY <1>1, <1>2 DEF Passed, TypeInv
<1>4. AppendArguments(command, a) = Text(command)
  BY <1>2 DEF Text
<1>5. /\ request.text = Text(command) /\ request.name = command
      /\ request.length = LengthDigits + NameLength(command) + Len(Text(command))
  BY <1>2, <1>4 DEF BuildCommand
<1> QED BY <1>2, <1>3, <1>5

\* main and p18_append_arguments: whatever the words are, a[] holds what is
\* read of it, and what is sent is text of the protocol.
THEOREM ArgsTypeCorrect == Spec => []TypeOK
<1>1. IInv => TypeOK
  <2> SUFFICES ASSUME IInv PROVE TypeOK
    OBVIOUS
  <2>1. TypeInv /\ WordsInv
    BY DEF IInv
  <2>2. pc \in {"build", "sent"} => Len(a) >= ArgumentsRead(command)
    <3>1. CASE pc = "build"
      <4>1. a = Rewritten(command, Taken) /\ Len(words) >= WordsTaken(command)
        BY <2>1, <3>1 DEF WordsInv
      <4>2. Taken \in Seq(Word) /\ Len(Taken) = WordsTaken(command)
        <5>1. words \in Seq(Word) /\ WordsTaken(command) \in 0 .. 6
          BY <2>1, TakenType DEF TypeInv
        <5> DEFINE n == WordsTaken(command)
        <5>2. n \in Nat /\ Len(words) \in Nat /\ n <= Len(words) /\ words \in Seq(Word)
          BY <4>1, <5>1
        <5> HIDE DEF n
        <5>3. SubSeq(words, 1, n) \in Seq(Word) /\ Len(SubSeq(words, 1, n)) = n
          BY <5>2
        <5> QED BY <5>3 DEF n, Taken
      <4> QED BY <2>1, <4>1, <4>2, ArgumentsAreThere DEF TypeInv
    <3>2. CASE pc = "sent"
      <4>1. /\ a = Rewritten(command, words) /\ Len(words) = WordsTaken(command)
        BY <2>1, <3>2 DEF WordsInv
      <4> QED BY <2>1, <4>1, ArgumentsAreThere DEF TypeInv
    <3> QED BY <3>1, <3>2
  <2>3. pc = "sent" => request.text \in Seq(0 .. MinusChar)
    BY SentPassed, AllAreSent DEF Fits
  <2> QED BY <2>1, <2>2, <2>3 DEF TypeOK, TypeInv
<1> QED BY <1>1, Invariance, PTL

\* p18_build_command: for all words, the length a request declares is the
\* number of bytes behind it, and the request fits the buffer of query.
THEOREM LengthsAreTrue == Spec => []LengthIsDeclared
<1>1. IInv => LengthIsDeclared
  <2> SUFFICES ASSUME IInv, pc = "sent"
               PROVE  /\ request.length = RequestSize(request) + 3 - (2 + LengthDigits)
                      /\ RequestSize(request) < 128
    BY DEF LengthIsDeclared
  <2> DEFINE n == NameLength(command)  l == Len(Text(command))  size == RequestSize(request)
  <2>1. /\ Passed(command) /\ request.text = Text(command) /\ request.name = command
        /\ request.length = LengthDigits + n + l
    BY SentPassed
  <2>2. size = 2 + LengthDigits + n + l
    BY <2>1 DEF RequestSize
  <2>3. n \in 1 .. 7
    BY <2>1, NamesAreShort DEF Passed
  <2>4. Text(command) \in Seq(0 .. MinusChar) /\ Len(Text(command)) <= 60
    BY <2>1, AllAreSent DEF Fits
  <2>5. l \in Nat /\ l <= 60
    BY <2>4
  <2> HIDE DEF n, l, size
  <2>6. LengthDigits + n + l = size + 3 - (2 + LengthDigits) /\ size < 128
    BY <2>2, <2>3, <2>5 DEF LengthDigits
  <2> QED BY <2>1, <2>6 DEF size
<1> QED BY <1>1, Invariance, PTL

\* main and p18_append_arguments: whatever words are accepted, with any blanks and
\* signs in front of their numbers, what is sent is what they say and something
\* the documents allow, unless one is of the three kinds that Misread names.
THEOREM WordsAreMeant == Spec => []SentIsMeant
<1>1. IInv => SentIsMeant
  <2> SUFFICES ASSUME IInv, pc = "sent",
                      \A k \in DOMAIN words : ~Misread(Kinds(command)[k], words[k])
               PROVE  /\ \A k \in DOMAIN words : AllowedWord(command, k)
                      /\ DayExists(command)
                      /\ request.text = TextOf(command)
    BY DEF SentIsMeant, AllowedWord
  <2>1. Passed(command) /\ request.text = Text(command)
    BY SentPassed
  <2> QED BY <2>1, AllAreSent DEF Meant, Says
<1> QED BY <1>1, Invariance, PTL

-----------------------------------------------------------------------------
(* Words the documents ask for pass. *)

\* A word of digits only is numeric and as long as they are.
LEMMA NumeralPasses ==
  ASSUME NEW text \in Seq(Digits)
  PROVE  /\ IsNumeric(Numeral(text)) /\ Strlen(Numeral(text)) = Len(text)
         /\ Numeral(text).digits = text /\ Number(Numeral(text)) = Atoi(text)
<1>1. /\ Numeral(text).key = "" /\ Numeral(text).digits = text /\ Numeral(text).sep = ""
      /\ Numeral(text).more = <<>> /\ Numeral(text).tail = 0
      /\ Numeral(text).lead = NoLead /\ Numeral(text).behind = NoLead
      /\ Number(Numeral(text)) = Atoi(text)
  BY NumeralIs
<1> DEFINE word == Numeral(text)  l == Len(text)
<1>2. l \in Nat /\ Len(<<>>) = 0 /\ LeadSize(NoLead) = 0
  BY NoLeadIs
<1>3. Strlen(word) = 0 + l + 0 + 0 + 0 + 0
  BY <1>1, <1>2 DEF Strlen
<1>4. IsNumeric(word) /\ Number(word) = Atoi(text)
  BY <1>1 DEF IsNumeric
<1> HIDE DEF l, word
<1>5. Strlen(word) = l
  BY <1>2, <1>3
<1> QED BY <1>1, <1>4, <1>5 DEF l, word

\* Kinds whose value is the number of the word, and kinds whose word is written
\* from its value.
Plain == {"year", "month", "day", "hour", "minute", "id", "bit", "amps", "frequency"}
Valued == Plain \cup Volt \cup {"rated", "time"}

LEMMA DocumentedTables ==
  ASSUME NEW cmd, NEW word
  PROVE  /\ \A kind \in Valued :
              DocumentedWord(cmd, kind, word) =>
                /\ ValueOf(kind, word) \in Allowed(kind)
                /\ word = Written(kind, ValueOf(kind, word))
         /\ DocumentedWord(cmd, "keyword", word) =>
              \E name \in ToSet(KeywordLists[cmd]) : word = KeyOf(name)
         /\ DocumentedWord(cmd, "flag", word) =>
              \E name \in DOMAIN FlagLetters : word = Keyword(name)
         /\ DocumentedWord(cmd, "serial", word) =>
              IsNumeric(word) /\ Len(word.digits) \in 1 .. 20
<1>1. \A kind \in Valued : kind \notin {"keyword", "flag", "serial"}
  BY DEF Valued, Plain, Volt
<1>2. \A kind \in Valued :
        DocumentedWord(cmd, kind, word) =>
          ValueOf(kind, word) \in Allowed(kind) /\ word = Written(kind, ValueOf(kind, word))
  BY <1>1 DEF DocumentedWord
<1>3. DocumentedWord(cmd, "keyword", word) =>
        \E name \in ToSet(KeywordLists[cmd]) : word = KeyOf(name)
  BY DEF DocumentedWord
<1>4. DocumentedWord(cmd, "flag", word) => \E name \in DOMAIN FlagLetters : word = Keyword(name)
  BY DEF DocumentedWord
<1>5. DocumentedWord(cmd, "serial", word) => IsNumeric(word) /\ Len(word.digits) \in 1 .. 20
  BY DEF DocumentedWord
<1> QED BY <1>2, <1>3, <1>4, <1>5

\* How a word is written, kind by kind.
LEMMA WrittenTables ==
  ASSUME NEW value
  PROVE  /\ Written("year", value) = Numeral(Printed(value, 4))
         /\ \A kind \in {"month", "day", "hour", "minute"} :
              Written(kind, value) = Numeral(Printed(value, 2))
         /\ \A kind \in {"id", "bit", "amps", "frequency"} :
              Written(kind, value) = Numeral(Printed(value, 1))
         /\ Written("rated", value) = Numeral(Printed(value \div 10, 3))
         /\ \A kind \in {"charging", "cutoff"} :
              Written(kind, value) =
                [Numeral(Printed(value \div 10, 2)) EXCEPT !.sep = ".", !.more = <<value % 10>>]
         /\ \A kind \in {"recharging", "redischarging"} : Written(kind, value) = Volts(value)
         /\ Written("time", value) =
              [Numeral(Printed(value \div 100, 2)) EXCEPT
                 !.sep = ":", !.more = Printed(value % 100, 2)]
<1>1. Written("year", value) = Numeral(Printed(value, 4))
  BY DEF Written
<1>2. \A kind \in {"month", "day", "hour", "minute"} :
        Written(kind, value) = Numeral(Printed(value, 2))
  BY DEF Written
<1>3. \A kind \in {"id", "bit", "amps", "frequency"} :
        Written(kind, value) = Numeral(Printed(value, 1))
  BY DEF Written
<1>4. Written("rated", value) = Numeral(Printed(value \div 10, 3))
  BY DEF Written
<1>5. \A kind \in {"charging", "cutoff"} :
        Written(kind, value) =
          [Numeral(Printed(value \div 10, 2)) EXCEPT !.sep = ".", !.more = <<value % 10>>]
  BY DEF Written
<1>6. \A kind \in {"recharging", "redischarging"} : Written(kind, value) = Volts(value)
  BY DEF Written
<1>7. Written("time", value) =
        [Numeral(Printed(value \div 100, 2)) EXCEPT
           !.sep = ":", !.more = Printed(value % 100, 2)]
  BY DEF Written
<1> QED BY <1>1, <1>2, <1>3, <1>4, <1>5, <1>6, <1>7

\* Words that are just their number.
LEMMA PlainSays ==
  ASSUME NEW cmd, NEW word, NEW kind \in Plain, DocumentedWord(cmd, kind, word)
  PROVE  Number(word) \in Allowed(kind) /\ word = Written(kind, Number(word))
<1>1. kind \in Valued
  BY DEF Valued
<1>2. ValueOf(kind, word) = Number(word)
  BY ValueTables DEF Plain
<1>3. ValueOf(kind, word) \in Allowed(kind) /\ word = Written(kind, ValueOf(kind, word))
  BY <1>1, DocumentedTables
<1> QED BY <1>2, <1>3

\* Years, and parts of dates and times.
LEMMA YearPasses ==
  ASSUME NEW cmd, NEW word, DocumentedWord(cmd, "year", word)
  PROVE  ValidYear(word)
<1> DEFINE v == Number(word)
<1>0. "year" \in Plain /\ Allowed("year") = Years
  BY AllowedTables DEF Plain, Years
<1>a. v \in Allowed("year") /\ word = Written("year", v)
  BY <1>0, PlainSays
<1>b. Written("year", v) = Numeral(Printed(v, 4))
  BY WrittenTables
<1>1. v \in Years /\ word = Numeral(Printed(v, 4))
  BY <1>0, <1>a, <1>b
<1> HIDE DEF v
<1>2. v \in Nat /\ v < 10000
  BY <1>1 DEF Years
<1>3. Printed(v, 4) \in Seq(Digits) /\ Len(Printed(v, 4)) = 4
  BY <1>2, PrintedBelow
<1>4. IsNumeric(word) /\ Strlen(word) = 4
  BY <1>1, <1>3, NumeralPasses
<1> QED BY <1>1, <1>4 DEF v, Years, ValidYear

LEMMA PartPasses ==
  ASSUME NEW cmd, NEW word, NEW kind \in {"month", "day", "hour", "minute"},
         DocumentedWord(cmd, kind, word)
  PROVE  IsNumeric(word) /\ Strlen(word) <= 2 /\ Number(word) \in Allowed(kind)
<1> DEFINE v == Number(word)
<1>0. kind \in Plain
  BY DEF Plain
<1>a. v \in Allowed(kind) /\ word = Written(kind, v)
  BY <1>0, PlainSays
<1>b. Written(kind, v) = Numeral(Printed(v, 2))
  BY WrittenTables
<1>1. v \in Allowed(kind) /\ word = Numeral(Printed(v, 2))
  BY <1>a, <1>b
<1> HIDE DEF v
<1>2. v \in Nat /\ v < 100
  BY <1>1, AllowedTables
<1>3. Printed(v, 2) \in Seq(Digits) /\ Len(Printed(v, 2)) = 2
  BY <1>2, PrintedBelow
<1>4. IsNumeric(word) /\ Strlen(word) = 2
  BY <1>1, <1>3, NumeralPasses
<1>5. Strlen(word) <= 2
  BY <1>4
<1> QED BY <1>1, <1>4, <1>5 DEF v

LEMMA DayPasses ==
  ASSUME NEW cmd, NEW word
  PROVE  /\ DocumentedWord(cmd, "month", word) => ValidMonth(word)
         /\ DocumentedWord(cmd, "day", word) => ValidDay(word)
         /\ DocumentedWord(cmd, "hour", word) => ValidTimePart(word, 23)
         /\ DocumentedWord(cmd, "minute", word) => ValidTimePart(word, 59)
<1>1. DocumentedWord(cmd, "month", word) => ValidMonth(word)
  BY PartPasses, AllowedTables DEF ValidMonth
<1>2. DocumentedWord(cmd, "day", word) => ValidDay(word)
  BY PartPasses, AllowedTables DEF ValidDay
<1>3. ASSUME DocumentedWord(cmd, "hour", word) PROVE ValidTimePart(word, 23)
  <2> DEFINE v == Number(word)
  <2>1. IsNumeric(word) /\ Strlen(word) <= 2 /\ v \in 0 .. 23
    BY <1>3, PartPasses, AllowedTables
  <2> HIDE DEF v
  <2>2. v <= 23
    BY <2>1
  <2> QED BY <2>1, <2>2 DEF v, ValidTimePart
<1>4. ASSUME DocumentedWord(cmd, "minute", word) PROVE ValidTimePart(word, 59)
  <2> DEFINE v == Number(word)
  <2>1. IsNumeric(word) /\ Strlen(word) <= 2 /\ v \in 0 .. 59
    BY <1>4, PartPasses, AllowedTables
  <2> HIDE DEF v
  <2>2. v <= 59
    BY <2>1
  <2> QED BY <2>1, <2>2 DEF v, ValidTimePart
<1> QED BY <1>1, <1>2, <1>3, <1>4

\* A machine, a bit, amperes, a frequency.
LEMMA NumberPasses ==
  ASSUME NEW cmd, NEW word, NEW kind \in {"id", "bit", "amps", "frequency"},
         DocumentedWord(cmd, kind, word)
  PROVE  /\ Number(word) \in Allowed(kind) /\ word = Numeral(Printed(Number(word), 1))
         /\ Number(word) \in 0 .. 999
<1>0. kind \in Plain
  BY DEF Plain
<1>a. Number(word) \in Allowed(kind) /\ word = Written(kind, Number(word))
  BY <1>0, PlainSays
<1>b. Written(kind, Number(word)) = Numeral(Printed(Number(word), 1))
  BY WrittenTables
<1>1. Number(word) \in Allowed(kind) /\ word = Numeral(Printed(Number(word), 1))
  BY <1>a, <1>b
<1>2. Allowed("id") \subseteq 0 .. 999 /\ Allowed("bit") \subseteq 0 .. 999
      /\ Allowed("amps") \subseteq 0 .. 999 /\ Allowed("frequency") \subseteq 0 .. 999
  BY AllowedTables
<1> QED BY <1>1, <1>2

LEMMA IdPasses ==
  ASSUME NEW cmd, NEW word, DocumentedWord(cmd, "id", word)
  PROVE  IsValidParallelId(word) /\ IsNumeric(word) /\ Strlen(word) <= 1
<1> DEFINE v == Number(word)
<1>1. v \in 0 .. 9 /\ word = Numeral(Printed(v, 1))
  BY NumberPasses, AllowedTables
<1> HIDE DEF v
<1>2. v \in Nat /\ v < 10
  BY <1>1
<1>3. Printed(v, 1) \in Seq(Digits) /\ Len(Printed(v, 1)) = 1
  BY <1>2, PrintedBelow
<1>4. IsNumeric(word) /\ Strlen(word) = 1
  BY <1>1, <1>3, NumeralPasses
<1>5. Strlen(word) <= 1
  BY <1>4
<1> QED BY <1>4, <1>5 DEF IsValidParallelId

LEMMA BitPasses ==
  ASSUME NEW cmd, NEW word, DocumentedWord(cmd, "bit", word)
  PROVE  IsBit(word)
<1>1. Number(word) \in {0, 1} /\ word = Numeral(Printed(Number(word), 1))
  BY NumberPasses, AllowedTables
<1>2. 0 \in Digits /\ 1 \in Digits
  BY DEF Digits
<1>3. Printed(0, 1) = <<0>> /\ Printed(1, 1) = <<1>>
  BY <1>2, PrintedDigit
<1> QED BY <1>1, <1>3 DEF IsBit, IsText

\* Amperes, a frequency, a voltage of the output.
LEMMA AmpsPass ==
  ASSUME NEW cmd, NEW word, DocumentedWord(cmd, "amps", word)
  PROVE  GetUint(word) /\ Strlen(word) <= 3
<1> DEFINE v == Number(word)
<1>1. v \in 0 .. 999 /\ word = Numeral(Printed(v, 1))
  BY NumberPasses
<1> HIDE DEF v
<1>2. 10^3 = 1000 /\ 3 \in 1 .. 9 /\ 1 \in 1 .. 9 /\ 9 \in 1 .. 9 /\ 10^9 = 1000000000
  BY SMT
<1>3. v \in Nat /\ v < 10^3 /\ v < 10^9
  BY <1>1, <1>2
<1> DEFINE text == Printed(v, 1)
<1>4. text \in Seq(Digits) /\ Len(text) \in 1 .. 3
  <2>1. text \in Seq(Digits)
    BY <1>2, <1>3, PrintedType
  <2>2. Len(text) \in 1 .. 3
    BY <1>2, <1>3, PrintedWidth
  <2> QED BY <2>1, <2>2
<1>5. word = Numeral(text)
  BY <1>1
<1> HIDE DEF text
<1>6. Strlen(word) = Len(text) /\ word.digits = text /\ word.key = ""
  BY <1>4, <1>5, NumeralPasses, NumeralIs
<1>7. Len(text) # 0 /\ Len(text) <= 3
  <2> DEFINE l == Len(text)
  <2> HIDE DEF l
  <2>1. l \in 1 .. 3 => l # 0 /\ l <= 3
    OBVIOUS
  <2> QED BY <1>4, <2>1 DEF l
<1>8. text # <<>>
  <2>1. Len(<<>>) = 0
    OBVIOUS
  <2> QED BY <1>7, <2>1
<1> QED BY <1>6, <1>7, <1>8 DEF GetUint

LEMMA FrequencyPasses ==
  ASSUME NEW cmd, NEW word, DocumentedWord(cmd, "frequency", word)
  PROVE  IsText(word, <<5, 0>>) \/ IsText(word, <<6, 0>>)
<1> DEFINE v == Number(word)
<1>1. v \in {50, 60} /\ word = Numeral(Printed(v, 1))
  BY NumberPasses, AllowedTables
<1> HIDE DEF v
<1>2. 5 \in Digits /\ 6 \in Digits /\ 0 \in Digits
  BY DEF Digits
<1>3. Printed(10 * 5 + 0, 1) = <<5, 0>> /\ Printed(10 * 6 + 0, 1) = <<6, 0>>
  BY <1>2, PrintedTwo
<1>4. 10 * 5 + 0 = 50 /\ 10 * 6 + 0 = 60
  OBVIOUS
<1>5. Printed(v, 1) = <<5, 0>> \/ Printed(v, 1) = <<6, 0>>
  BY <1>1, <1>3, <1>4
<1> QED BY <1>1, <1>5 DEF IsText

LEMMA RatedPasses ==
  ASSUME NEW cmd, NEW word, DocumentedWord(cmd, "rated", word)
  PROVE  GetUint(word) /\ Number(word) \in RatedVoltages
<1> DEFINE n == Number(word)  v == 10 * n
<1>0. "rated" \in Valued /\ ValueOf("rated", word) = v
  BY ValueTables DEF Valued
<1>a. /\ ValueOf("rated", word) \in Allowed("rated")
      /\ word = Written("rated", ValueOf("rated", word))
  BY <1>0, DocumentedTables
<1>1. v \in Allowed("rated") /\ word = Written("rated", v)
  BY <1>0, <1>a
<1>2. word = Numeral(Printed(v \div 10, 3))
  BY <1>1, WrittenTables
<1>3. Allowed("rated") = {2020, 2080, 2200, 2300, 2400}
  BY AllowedTables
<1>4. v \in {2020, 2080, 2200, 2300, 2400}
  BY <1>1, <1>3
<1> DEFINE h == v \div 10
<1>5. h \in RatedVoltages /\ h \in Nat /\ h < 1000
  <2> HIDE DEF v
  <2>1. h \in {202, 208, 220, 230, 240}
    BY <1>4
  <2> HIDE DEF h
  <2>2. h \in Nat /\ h < 1000
    BY <2>1
  <2> QED BY <2>1, <2>2 DEF RatedVoltages
<1> DEFINE text == Printed(h, 3)
<1>6. text \in Seq(Digits) /\ Len(text) = 3
  <2> HIDE DEF h
  <2> QED BY <1>5, PrintedBelow
<1>7. word = Numeral(text)
  BY <1>2
<1> HIDE DEF text
<1>b. text # <<>>
  <2>1. Len(<<>>) = 0
    OBVIOUS
  <2> QED BY <1>6, <2>1
<1>c. n = Atoi(text)
  BY <1>6, <1>7, NumeralPasses
<1>8. word.digits = text /\ word.key = "" /\ text # <<>> /\ n = Atoi(text)
  BY <1>7, <1>b, <1>c, NumeralIs
<1>9. n \in Nat
  <2>1. Atoi(text) \in Nat
    BY <1>6, DigitsAreNumbers, AtoiType
  <2> QED BY <1>8, <2>1
<1>10. n = h
  <2> HIDE DEF n
  <2> QED BY <1>9
<1>11. GetUint(word)
  BY <1>8 DEF GetUint
<1> QED BY <1>5, <1>10, <1>11

\* A voltage of the limits is within them as a float too, but for the highest.
LEMMA FloatInside ==
  ASSUME NEW t \in Nat
  PROVE  /\ t \in 480 .. 583 =>
              10 * FloatOf(t) >= 480 * Fraction /\ 10 * FloatOf(t) <= 584 * Fraction
         /\ t \in 400 .. 480 =>
              10 * FloatOf(t) >= 400 * Fraction /\ 10 * FloatOf(t) <= 480 * Fraction
<1>1. \A x \in Nat : x \div 20 \in Nat /\ 20 * (x \div 20) <= x /\ x < 20 * (x \div 20) + 20
  OBVIOUS
<1> DEFINE x == t * Fraction * 2 + 10  q == x \div 20
<1>2. x \in Nat /\ x = 524288 * t + 10
  BY SMT DEF Fraction
<1>3. FloatOf(t) = q
  BY DEF FloatOf
<1> HIDE DEF x
<1>4. q \in Nat /\ 20 * q <= x /\ x < 20 * q + 20
  BY <1>1, <1>2
<1> HIDE DEF q
<1>5. ASSUME t \in 480 .. 583
      PROVE  10 * q >= 480 * Fraction /\ 10 * q <= 584 * Fraction
  BY <1>2, <1>4, <1>5, SMT DEF Fraction
<1>6. ASSUME t \in 400 .. 480
      PROVE  10 * q >= 400 * Fraction /\ 10 * q <= 480 * Fraction
  BY <1>2, <1>4, <1>6, SMT DEF Fraction
<1> QED BY <1>3, <1>5, <1>6

\* A voltage with its decimal.
LEMMA DecimalPasses ==
  ASSUME NEW cmd, NEW word, NEW kind \in {"charging", "cutoff"}, DocumentedWord(cmd, kind, word)
  PROVE  Tenths(word) \in Allowed(kind) /\ word.key = "" /\ word.digits # <<>>
<1> DEFINE v == Tenths(word)  h == v \div 10  text == Printed(h, 2)
<1>1. kind \in Valued /\ kind \in Volt
  BY DEF Valued, Volt
<1>2. ValueOf(kind, word) = v
  BY <1>1, ValueTables
<1>3. ValueOf(kind, word) \in Allowed(kind) /\ word = Written(kind, ValueOf(kind, word))
  BY <1>1, DocumentedTables
<1>4. v \in Allowed(kind) /\ word = Written(kind, v)
  BY <1>2, <1>3
<1>5. word = [Numeral(text) EXCEPT !.sep = ".", !.more = <<v % 10>>]
  BY <1>4, WrittenTables
<1>6. word.key = "" /\ word.digits = text
  <2> HIDE DEF text, v
  <2> QED BY <1>5 DEF Numeral
<1>7. h \in Nat /\ h < 100
  <2>1. Allowed("charging") = 480 .. 584 /\ Allowed("cutoff") = 400 .. 480
    BY AllowedTables
  <2>2. v \in 480 .. 584 \/ v \in 400 .. 480
    BY <1>4, <2>1
  <2> HIDE DEF v
  <2> QED BY <2>2
<1> HIDE DEF h
<1>8. Len(text) = 2
  BY <1>7, PrintedBelow
<1> HIDE DEF text
<1>9. text # <<>>
  <2>1. Len(<<>>) = 0
    OBVIOUS
  <2> QED BY <1>8, <2>1
<1> QED BY <1>4, <1>6, <1>9

LEMMA RangeHolds ==
  ASSUME NEW word, NEW low, NEW high, word.key = "", word.digits # <<>>,
         10 * FloatOf(Tenths(word)) >= low * Fraction,
         10 * FloatOf(Tenths(word)) <= high * Fraction
  PROVE  InRange(word, low, high)
  BY DEF InRange

LEMMA ChargingPasses ==
  ASSUME NEW cmd, NEW word, DocumentedWord(cmd, "charging", word), Tenths(word) # 584
  PROVE  InRange(word, 480, 584)
<1> DEFINE t == Tenths(word)
<1>1. t \in Allowed("charging") /\ word.key = "" /\ word.digits # <<>>
  BY DecimalPasses
<1>2. Allowed("charging") = 480 .. 584
  BY AllowedTables
<1>3. t \in 480 .. 584 /\ t # 584
  BY <1>1, <1>2, ZenonT(40)
<1> HIDE DEF t
<1>4. t \in Nat /\ t \in 480 .. 583
  BY <1>3
<1>5. 10 * FloatOf(t) >= 480 * Fraction /\ 10 * FloatOf(t) <= 584 * Fraction
  BY <1>4, FloatInside
<1> DEFINE low == 480  high == 584
<1>6. /\ 10 * FloatOf(Tenths(word)) >= low * Fraction
      /\ 10 * FloatOf(Tenths(word)) <= high * Fraction
  BY <1>5 DEF t
<1> HIDE DEF low, high
<1>7. InRange(word, low, high)
  BY <1>1, <1>6, RangeHolds
<1> QED BY <1>7 DEF low, high

LEMMA CutoffPasses ==
  ASSUME NEW cmd, NEW word, DocumentedWord(cmd, "cutoff", word)
  PROVE  InRange(word, 400, 480)
<1> DEFINE t == Tenths(word)
<1>1. t \in Allowed("cutoff") /\ word.key = "" /\ word.digits # <<>>
  BY DecimalPasses
<1>2. Allowed("cutoff") = 400 .. 480
  BY AllowedTables
<1>3. t \in 400 .. 480
  BY <1>1, <1>2
<1> HIDE DEF t
<1>4. t \in Nat
  BY <1>3
<1>5. 10 * FloatOf(t) >= 400 * Fraction /\ 10 * FloatOf(t) <= 480 * Fraction
  BY <1>3, <1>4, FloatInside
<1> DEFINE low == 400  high == 480
<1>6. /\ 10 * FloatOf(Tenths(word)) >= low * Fraction
      /\ 10 * FloatOf(Tenths(word)) <= high * Fraction
  BY <1>5 DEF t
<1> HIDE DEF low, high
<1>7. InRange(word, low, high)
  BY <1>1, <1>6, RangeHolds
<1> QED BY <1>7 DEF low, high

\* A voltage of a list, if it is one of the first eight.
LEMMA VoltPasses ==
  ASSUME NEW cmd, NEW word
  PROVE  /\ DocumentedWord(cmd, "recharging", word) => InTable(word, Recharging)
         /\ DocumentedWord(cmd, "redischarging", word)
            /\ (\A unit \in 1 .. 3 : \A k \in 9 .. 12 : Tenths(word) # Redischarging[unit][k]) =>
              InTable(word, Redischarging)
<1> DEFINE v == Tenths(word)
<1>1. ASSUME NEW kind \in {"recharging", "redischarging"}, DocumentedWord(cmd, kind, word)
      PROVE  v \in Allowed(kind) /\ word = Volts(v)
  <2>1. kind \in Valued /\ kind \in Volt
    BY DEF Valued, Volt
  <2>2. ValueOf(kind, word) = v
    BY <2>1, ValueTables
  <2>3. ValueOf(kind, word) \in Allowed(kind) /\ word = Written(kind, ValueOf(kind, word))
    BY <1>1, <2>1, DocumentedTables
  <2>4. Written(kind, v) = Volts(v)
    BY WrittenTables
  <2> QED BY <2>2, <2>3, <2>4
<1> HIDE DEF v
<1>2. ASSUME DocumentedWord(cmd, "recharging", word)
      PROVE  InTable(word, Recharging)
  <2>1. v \in Allowed("recharging") /\ word = Volts(v)
    BY <1>1, <1>2
  <2>2. PICK unit \in 1 .. 3 : v \in ToSet(Recharging[unit])
    BY <2>1, TablesAllowed
  <2>3. DOMAIN Recharging[unit] = 1 .. 8
    BY TablesHold
  <2>4. PICK k \in 1 .. 8 : v = Recharging[unit][k]
    BY <2>2, <2>3 DEF ToSet
  <2>5. \E u \in 1 .. 3, j \in 1 .. 8 : word = Volts(Recharging[u][j])
    BY <2>1, <2>4
  <2> QED BY <2>5, TablesHold DEF InTable
<1>3. ASSUME DocumentedWord(cmd, "redischarging", word),
             \A unit \in 1 .. 3 : \A k \in 9 .. 12 : v # Redischarging[unit][k]
      PROVE  InTable(word, Redischarging)
  <2>1. v \in Allowed("redischarging") /\ word = Volts(v)
    BY <1>1, <1>3
  <2>2. PICK unit \in 1 .. 3 : v \in ToSet(Redischarging[unit])
    BY <2>1, TablesAllowed
  <2>3. DOMAIN Redischarging[unit] = 1 .. 12
    BY TablesHold
  <2>4. PICK k \in 1 .. 12 : v = Redischarging[unit][k]
    BY <2>2, <2>3 DEF ToSet
  <2>5. k \notin 9 .. 12
    BY <1>3, <2>4
  <2>6. k \in 1 .. 8
    BY <2>5
  <2>7. \E u \in 1 .. 3, j \in 1 .. 8 : word = Volts(Redischarging[u][j])
    BY <2>1, <2>4, <2>6
  <2> QED BY <2>7, TablesHold DEF InTable
<1> QED BY <1>2, <1>3 DEF v

\* A keyword is in its list.
LEMMA KeywordPasses ==
  ASSUME NEW cmd \in DOMAIN KeywordLists, NEW word, DocumentedWord(cmd, "keyword", word)
  PROVE  IndexOf(word, KeywordLists[cmd]) # -1
<1> DEFINE list == KeywordLists[cmd]
           place == CHOOSE k \in DOMAIN list : KeyOf(list[k]) = word
<1>1. PICK name \in ToSet(list) : word = KeyOf(name)
  BY DocumentedTables
<1>2. \E k \in DOMAIN list : KeyOf(list[k]) = word
  BY <1>1 DEF ToSet
<1>3. place \in DOMAIN list
  BY <1>2
<1>4. IndexOf(word, list) = place - 1
  BY <1>2 DEF IndexOf
<1>5. place \in 1 .. 5
  BY <1>3, KeywordPlaces
<1> HIDE DEF place
<1>6. place - 1 # -1
  BY <1>5
<1> QED BY <1>4, <1>6

\* A time of day.
LEMMA TimePasses ==
  ASSUME NEW cmd, NEW word, DocumentedWord(cmd, "time", word)
  PROVE  ValidTime(word)
<1> DEFINE v == 100 * Number(HoursOf(word)) + Number(MinutesOf(word))
<1>1. "time" \in Valued /\ ValueOf("time", word) = v
  BY ValueTables DEF Valued
<1>2. /\ ValueOf("time", word) \in Allowed("time")
      /\ word = Written("time", ValueOf("time", word))
  BY <1>1, DocumentedTables
<1>3. v \in Allowed("time") /\ word = Written("time", v)
  BY <1>1, <1>2
<1> HIDE DEF v
<1>4. PICK h \in 0 .. 23, m \in 0 .. 59 : v = 100 * h + m
  BY <1>3, AllowedTables
<1>5. v \div 100 = h /\ v % 100 = m
  BY <1>4
<1>6. word = [Numeral(Printed(h, 2)) EXCEPT !.sep = ":", !.more = Printed(m, 2)]
  BY <1>3, <1>5, WrittenTables
<1>7. /\ word.key = "" /\ word.digits = Printed(h, 2) /\ word.sep = ":"
      /\ word.more = Printed(m, 2) /\ word.lead = NoLead /\ word.behind = NoLead
  BY <1>6 DEF Numeral
<1>8. h \in Nat /\ h < 100 /\ m \in Nat /\ m < 100 /\ h \in 0 .. 99 /\ m \in 0 .. 99
  OBVIOUS
<1>9. Len(Printed(h, 2)) = 2 /\ Len(Printed(m, 2)) = 2
  BY <1>8, PrintedBelow
<1>10. Printed(h, 2) # <<>> /\ Printed(m, 2) # <<>>
  <2>1. Len(<<>>) = 0
    OBVIOUS
  <2> QED BY <1>9, <2>1
<1>11. Atoi(Printed(h, 2)) = h /\ Atoi(Printed(m, 2)) = m
  BY <1>8, AtoiTwo
<1>12. Short(h) <= 23 /\ Short(m) <= 59
  BY SMT DEF Short
<1>13. Number(HoursOf(word)) = h
  <2>1. /\ HoursOf(word).key = "" /\ HoursOf(word).digits = Printed(h, 2)
        /\ HoursOf(word).lead = NoLead
    BY <1>7, TimeParts
  <2> QED BY <1>11, <2>1, NoLeadIs DEF Number
<1>14. Number(MinutesOf(word)) = m
  <2>1. /\ MinutesOf(word).key = "" /\ MinutesOf(word).digits = Printed(m, 2)
        /\ MinutesOf(word).lead = NoLead
    BY <1>7, TimeParts
  <2> QED BY <1>11, <2>1, NoLeadIs DEF Number
<1> QED BY <1>7, <1>10, <1>12, <1>13, <1>14 DEF ValidTime

\* The id of a machine.
LEMMA SerialPasses ==
  ASSUME NEW cmd, NEW word \in Word, IsPlain(word), DocumentedWord(cmd, "serial", word)
  PROVE  IsNumeric(word) /\ Strlen(word) <= 20
<1>1. IsNumeric(word) /\ Len(word.digits) \in 1 .. 20
  BY DocumentedTables
<1>2. Strlen(word) = Len(word.digits)
  BY <1>1, PlainIs
<1> DEFINE l == Len(word.digits)
<1> HIDE DEF l
<1>3. l \in 1 .. 20 => l <= 20
  OBVIOUS
<1>4. l <= 20
  BY <1>1, <1>3 DEF l
<1> QED BY <1>1, <1>2, <1>4 DEF l

\* The words the documents ask for, one by one.
LEMMA OneDocumented ==
  ASSUME TypeInv, Documented, NEW kind, Kinds(command) = <<kind>>
  PROVE  /\ Len(words) = 1 /\ DocumentedWord(command, kind, words[1])
         /\ words[1] \in Word /\ IsPlain(words[1])
<1>1. Len(words) = 1 /\ words \in Seq(Word)
  <2>1. Len(<<kind>>) = 1
    OBVIOUS
  <2> QED BY <2>1 DEF Documented, TypeInv
<1>2. 1 \in DOMAIN words /\ words[1] \in Word
  BY <1>1
<1>3. Kinds(command)[1] = kind
  OBVIOUS
<1>4. DocumentedWord(command, kind, words[1])
  BY <1>2, <1>3 DEF Documented
<1>5. IsPlain(words[1])
  BY <1>2 DEF TypeInv, IsReadable, IsPlain
<1> QED BY <1>1, <1>2, <1>4, <1>5

LEMMA TwoDocumented ==
  ASSUME TypeInv, Documented, NEW kind1, NEW kind2, Kinds(command) = <<kind1, kind2>>
  PROVE  /\ Len(words) = 2 /\ DocumentedWord(command, kind1, words[1])
         /\ DocumentedWord(command, kind2, words[2])
<1>1. Len(words) = 2 /\ words \in Seq(Word)
  <2>1. Len(<<kind1, kind2>>) = 2
    OBVIOUS
  <2> QED BY <2>1 DEF Documented, TypeInv
<1>2. 1 \in DOMAIN words /\ 2 \in DOMAIN words
  BY <1>1
<1>3. Kinds(command)[1] = kind1 /\ Kinds(command)[2] = kind2
  OBVIOUS
<1>4. DocumentedWord(command, kind1, words[1]) /\ DocumentedWord(command, kind2, words[2])
  BY <1>2, <1>3 DEF Documented
<1> QED BY <1>1, <1>4

\* A date that exists.
LEMMA DatePasses ==
  ASSUME Documented, command \in {"DAY_GENERATED", "SET_DATE_TIME"},
         DocumentedWord(command, "year", words[1]),
         DocumentedWord(command, "month", words[2]),
         DocumentedWord(command, "day", words[3])
  PROVE  ValidDate(words[1], words[2], words[3])
<1> DEFINE y == Number(words[1])  m == Number(words[2])  d == Number(words[3])
<1>1. ValidYear(words[1]) /\ ValidMonth(words[2]) /\ ValidDay(words[3])
  BY YearPasses, DayPasses
<1>2. y \in Years /\ m \in 1 .. 12 /\ d \in 1 .. 31
  BY <1>1 DEF ValidYear, ValidMonth, ValidDay, Years
<1>3. d <= DaysOf(y, m)
  BY DEF Documented, DayExists
<1> HIDE DEF y, m, d
<1>4. y \in Nat
  BY <1>2, SMT DEF Years
<1>5. IsDateValid(y, m, d)
  BY <1>2, <1>3, <1>4, DateIs
<1> QED BY <1>1, <1>5 DEF ValidDate, y, m, d

LEMMA DayDocumented ==
  ASSUME TypeInv, Documented, command = "DAY_GENERATED"
  PROVE  Len(words) = 3 /\ ValidDate(words[1], words[2], words[3])
<1>1. Kinds(command) = <<"year", "month", "day">>
  BY KindTables
<1>2. Len(words) = 3 /\ words \in Seq(Word)
  <2>1. Len(<<"year", "month", "day">>) = 3
    OBVIOUS
  <2> QED BY <1>1, <2>1 DEF Documented, TypeInv
<1>3. 1 \in DOMAIN words /\ 2 \in DOMAIN words /\ 3 \in DOMAIN words
  BY <1>2
<1>4. /\ Kinds(command)[1] = "year" /\ Kinds(command)[2] = "month"
      /\ Kinds(command)[3] = "day"
  BY <1>1
<1>5. /\ DocumentedWord(command, "year", words[1])
      /\ DocumentedWord(command, "month", words[2])
      /\ DocumentedWord(command, "day", words[3])
  BY <1>3, <1>4 DEF Documented
<1> QED BY <1>2, <1>5, DatePasses

LEMMA DateTimeDocumented ==
  ASSUME TypeInv, Documented, command = "SET_DATE_TIME"
  PROVE  /\ Len(words) = 6 /\ ValidDate(words[1], words[2], words[3])
         /\ ValidTimePart(words[4], 23) /\ ValidTimePart(words[5], 59)
         /\ ValidTimePart(words[6], 59)
<1> DEFINE kinds == <<"year", "month", "day", "hour", "minute", "minute">>
<1>1. Kinds(command) = kinds
  BY KindTables
<1>2. Len(words) = 6 /\ words \in Seq(Word)
  <2>1. Len(kinds) = 6
    OBVIOUS
  <2> QED BY <1>1, <2>1 DEF Documented, TypeInv
<1>3. /\ 1 \in DOMAIN words /\ 2 \in DOMAIN words /\ 3 \in DOMAIN words
      /\ 4 \in DOMAIN words /\ 5 \in DOMAIN words /\ 6 \in DOMAIN words
  BY <1>2
<1>4. /\ kinds[1] = "year" /\ kinds[2] = "month" /\ kinds[3] = "day"
      /\ kinds[4] = "hour" /\ kinds[5] = "minute" /\ kinds[6] = "minute"
  OBVIOUS
<1> HIDE DEF kinds
<1>5. /\ DocumentedWord(command, "year", words[1])
      /\ DocumentedWord(command, "month", words[2])
      /\ DocumentedWord(command, "day", words[3])
  BY <1>1, <1>3, <1>4 DEF Documented
<1>6. /\ DocumentedWord(command, "hour", words[4])
      /\ DocumentedWord(command, "minute", words[5])
      /\ DocumentedWord(command, "minute", words[6])
  BY <1>1, <1>3, <1>4 DEF Documented
<1> QED BY <1>2, <1>5, <1>6, DatePasses, DayPasses

\* A word the documents ask for has nothing in front of it.
LEMMA DocumentedLead ==
  ASSUME NEW cmd, NEW kind, NEW word, DocumentedWord(cmd, kind, word)
  PROVE  word.lead = NoLead
<1>1. \A digits : Numeral(digits).lead = NoLead
  BY NumeralIs
<1>2. \A key : Keyword(key).lead = NoLead
  BY DEF Keyword, Numeral
<1>3. \A name : KeyOf(name).lead = NoLead
  BY <1>2 DEF KeyOf, Keyword, Numeral
<1>4. \A value : Volts(value).lead = NoLead
  BY DEF Volts, Numeral
<1>5. \A value : Written(kind, value).lead = NoLead
  BY <1>1, <1>4 DEF Written, Numeral
<1>6. CASE kind = "keyword"
  BY <1>3, <1>6 DEF DocumentedWord
<1>7. CASE kind = "flag"
  BY <1>2, <1>7 DEF DocumentedWord
<1>8. CASE kind = "serial"
  BY <1>8 DEF DocumentedWord, IsNumeric
<1>9. CASE kind \notin {"keyword", "flag", "serial"}
  BY <1>5, <1>9 DEF DocumentedWord
<1> QED BY <1>6, <1>7, <1>8, <1>9

\* So get_args takes it.
LEMMA DocumentedHasWords ==
  ASSUME TypeInv, Documented, Len(words) = WordsTaken(command)
  PROVE  HasWords
<1> DEFINE n == WordsTaken(command)
<1>1. n \in Nat /\ Len(words) = n /\ words \in Seq(Word)
  BY TakenType DEF TypeInv
<1> HIDE DEF n
<1>2. ASSUME NEW k \in 1 .. n
      PROVE  HasWord(k)
  <2>1. k \in DOMAIN words /\ k <= Len(words)
    BY <1>1
  <2>2. words[k].lead = NoLead
    BY <2>1, DocumentedLead DEF Documented
  <2>3. ~BeginsWithMinus(words[k])
    <3>1. NoLead.sign = "" /\ [blanks |-> 0, sign |-> "-"].sign = "-"
      BY DEF NoLead
    <3> QED BY <2>2, <3>1 DEF BeginsWithMinus
  <2> QED BY <2>1, <2>3 DEF HasWord
<1> QED BY <1>2 DEF HasWords, n

\* All words the documents ask for pass, with the exceptions of KnownRefusal.
LEMMA DocumentedPasses ==
  ASSUME TypeInv, Documented, ~KnownRefusal
  PROVE  Len(words) = WordsTaken(command) /\ Checked(command, words)
<1>1. CASE command \in AllCommands \ WithWords
  <2>1. Kinds(command) = <<>> /\ WordsTaken(command) = 0 /\ Checked(command, words) = TRUE
    BY <1>1, WithoutWords
  <2>2. Len(words) = 0
    <3>1. Len(<<>>) = 0
      OBVIOUS
    <3> QED BY <2>1, <3>1 DEF Documented
  <2> QED BY <2>1, <2>2
<1>2. CASE command = "YEAR_GENERATED"
  <2>1. Len(words) = 1 /\ DocumentedWord(command, "year", words[1])
    BY <1>2, KindTables, OneDocumented
  <2> QED BY <1>2, <2>1, WordsTables, ChecksTables, YearPasses
<1>3. CASE command = "MONTH_GENERATED"
  <2>1. /\ Len(words) = 2 /\ DocumentedWord(command, "year", words[1])
        /\ DocumentedWord(command, "month", words[2])
    BY <1>3, KindTables, TwoDocumented
  <2>2. ValidYear(words[1]) /\ ValidMonth(words[2])
    BY <2>1, YearPasses, DayPasses
  <2> QED BY <1>3, <2>1, <2>2, WordsTables, ChecksTables
<1>4. CASE command = "DAY_GENERATED"
  BY <1>4, DayDocumented, WordsTables, ChecksTables
<1>5. CASE command \in Parallels
  <2>1. Len(words) = 1 /\ DocumentedWord(command, "id", words[1])
    BY <1>5, KindTables, OneDocumented
  <2>2. IsNumeric(words[1]) /\ Strlen(words[1]) <= 1
    BY <2>1, IdPasses
  <2> QED BY <1>5, <2>1, <2>2, WordsTables, ChecksTables
<1>6. CASE command = "SET_LOADS"
  <2>1. Len(words) = 1 /\ DocumentedWord(command, "bit", words[1])
    BY <1>6, KindTables, OneDocumented
  <2> QED BY <1>6, <2>1, WordsTables, ChecksTables, BitPasses DEF IsBit
<1>7. CASE command = "SET_FLAG"
  <2>1. /\ Len(words) = 2 /\ DocumentedWord(command, "flag", words[1])
        /\ DocumentedWord(command, "bit", words[2])
    BY <1>7, KindTables, TwoDocumented
  <2>2. \E flag \in DOMAIN FlagLetters : words[1] = Keyword(flag)
    BY <2>1, DocumentedTables
  <2>3. IsBit(words[2])
    BY <2>1, BitPasses
  <2> QED BY <1>7, <2>1, <2>2, <2>3, WordsTables, ChecksTables DEF IsBit
<1>8. CASE command \in Currents
  <2>1. /\ Len(words) = 2 /\ DocumentedWord(command, "id", words[1])
        /\ DocumentedWord(command, "amps", words[2])
    BY <1>8, KindTables, TwoDocumented
  <2>2. IsValidParallelId(words[1]) /\ GetUint(words[2]) /\ Strlen(words[2]) <= 3
    BY <2>1, IdPasses, AmpsPass
  <2> QED BY <1>8, <2>1, <2>2, WordsTables, ChecksTables
<1>9. CASE command = "SET_AC_OUTPUT_FREQ"
  <2>1. Len(words) = 1 /\ DocumentedWord(command, "frequency", words[1])
    BY <1>9, KindTables, OneDocumented
  <2> QED BY <1>9, <2>1, WordsTables, ChecksTables, FrequencyPasses
<1>10. CASE command = "SET_BAT_MAX_CHARGE_VOLTAGE"
  <2>1. /\ Len(words) = 2 /\ DocumentedWord(command, "charging", words[1])
        /\ DocumentedWord(command, "charging", words[2])
    BY <1>10, KindTables, TwoDocumented
  <2>2. Tenths(words[1]) # 584 /\ Tenths(words[2]) # 584
    BY <1>10 DEF KnownRefusal
  <2>3. InRange(words[1], 480, 584) /\ InRange(words[2], 480, 584)
    BY <2>1, <2>2, ChargingPasses
  <2> QED BY <1>10, <2>1, <2>3, WordsTables, ChecksTables
<1>11. CASE command = "SET_AC_OUTPUT_RATED_VOLTAGE"
  <2>1. Len(words) = 1 /\ DocumentedWord(command, "rated", words[1])
    BY <1>11, KindTables, OneDocumented
  <2> QED BY <1>11, <2>1, WordsTables, ChecksTables, RatedPasses
<1>12. CASE command = "SET_BAT_CHARGING_THRESHOLDS"
  <2>1. /\ Len(words) = 2 /\ DocumentedWord(command, "recharging", words[1])
        /\ DocumentedWord(command, "redischarging", words[2])
    BY <1>12, KindTables, TwoDocumented
  <2>2. \A unit \in 1 .. 3 : \A k \in 9 .. 12 : Tenths(words[2]) # Redischarging[unit][k]
    BY <1>12 DEF KnownRefusal
  <2>3. InTable(words[1], Recharging) /\ InTable(words[2], Redischarging)
    BY <2>1, <2>2, VoltPasses
  <2> QED BY <1>12, <2>1, <2>3, WordsTables, ChecksTables
<1>13. CASE command \in IdAndKeyword
  <2>1. /\ Len(words) = 2 /\ DocumentedWord(command, "id", words[1])
        /\ DocumentedWord(command, "keyword", words[2])
    BY <1>13, KindTables, TwoDocumented
  <2>2. command \in DOMAIN KeywordLists
    BY <1>13, KeywordCommands
  <2>3. IsValidParallelId(words[1]) /\ IndexOf(words[2], KeywordLists[command]) # -1
    BY <2>1, <2>2, IdPasses, KeywordPasses
  <2> QED BY <1>13, <2>1, <2>3, WordsTables, KeywordChecks
<1>14. CASE command \in OneKeyword
  <2>1. Len(words) = 1 /\ DocumentedWord(command, "keyword", words[1])
    BY <1>14, KindTables, OneDocumented
  <2>2. command \in DOMAIN KeywordLists
    BY <1>14, KeywordCommands
  <2>3. IndexOf(words[1], KeywordLists[command]) # -1
    BY <2>1, <2>2, KeywordPasses
  <2> QED BY <1>14, <2>1, <2>3, WordsTables, KeywordChecks
<1>15. CASE command = "SET_BAT_CUTOFF_VOLTAGE"
  <2>1. Len(words) = 1 /\ DocumentedWord(command, "cutoff", words[1])
    BY <1>15, KindTables, OneDocumented
  <2> QED BY <1>15, <2>1, WordsTables, ChecksTables, CutoffPasses
<1>16. CASE command = "SET_SOLAR_CONFIG"
  <2>1. /\ Len(words) = 1 /\ DocumentedWord(command, "serial", words[1])
        /\ words[1] \in Word /\ IsPlain(words[1])
    BY <1>16, KindTables, OneDocumented
  <2> QED BY <1>16, <2>1, WordsTables, ChecksTables, SerialPasses
<1>17. CASE command = "SET_DATE_TIME"
  BY <1>17, DateTimeDocumented, WordsTables, ChecksTables
<1>18. CASE command \in Buckets
  <2>1. /\ Len(words) = 2 /\ DocumentedWord(command, "time", words[1])
        /\ DocumentedWord(command, "time", words[2])
    BY <1>18, KindTables, TwoDocumented
  <2> QED BY <1>18, <2>1, WordsTables, ChecksTables, TimePasses
<1>19. command \in AllCommands
  BY DEF TypeInv
<1> QED
  BY <1>1, <1>2, <1>3, <1>4, <1>5, <1>6, <1>7, <1>8, <1>9, <1>10, <1>11, <1>12, <1>13, <1>14,
     <1>15, <1>16, <1>17, <1>18, <1>19 DEF WithWords, Dates

\* main: whatever the words are, what is refused is not what README.md allows,
\* but for two voltages of SET_BAT_MAX_CHARGE_VOLTAGE and the ends of the
\* redischarging tables.
THEOREM DocumentedIsTaken == Spec => []OthersAreAccepted
<1>1. IInv => OthersAreAccepted
  <2> SUFFICES ASSUME IInv, pc = "refused", Documented, ~KnownRefusal PROVE FALSE
    BY DEF OthersAreAccepted
  <2>1. TypeInv /\ WordsInv
    BY DEF IInv
  <2> QED BY <2>1, DocumentedPasses, DocumentedHasWords DEF WordsInv
<1> QED BY <1>1, Invariance, PTL
=============================================================================
