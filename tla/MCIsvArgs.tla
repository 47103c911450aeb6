------------------------------ MODULE MCIsvArgs ------------------------------
(* Command lines for IsvArgs: for every command words of each kind at and     *)
(* around the limits of the checks, words of another kind, and one word too   *)
(* few and too many.                                                          *)
EXTENDS IsvArgs

Num(number) == Numeral(Printed(number, 1))
Two(number) == Numeral(Printed(number, 2))
Empty == Numeral(<<>>)
Letters == Keyword("x")

Point(tenths) ==
  [Numeral(Printed(tenths \div 10, 2)) EXCEPT !.sep = ".", !.more = <<tenths % 10>>]
Time(h, m) == [h EXCEPT !.sep = ":", !.behind = m.lead, !.more = m.digits]
Tailed(word) == [word EXCEPT !.tail = 1]
Plus(word)  == [word EXCEPT !.lead = [blanks |-> 0, sign |-> "+"]]
Minus(word) == [word EXCEPT !.lead = [blanks |-> 0, sign |-> "-"]]
Blank(word) == [word EXCEPT !.lead.blanks = 1]

\* The word with what may stand in front of a number.
Leads(word) == {Plus(word), Minus(word), Blank(word), Blank(Minus(word))}

MCWords(kind) ==
  CASE kind = "year" -> {Num(n) : n \in {200, 1999, 2000, 2023, 2024, 2099, 2100}} \cup {Empty, Letters}
         \cup Leads(Num(2023))
    [] kind = "month" -> {Num(n) : n \in {0, 1, 2, 4, 12, 13}} \cup {Two(2), Two(4), Empty}
    [] kind = "day" -> {Num(n) : n \in {0, 1, 28, 29, 30, 31, 32}} \cup {Two(1), Empty}
    [] kind = "hour" -> {Two(0), Num(0), Num(23), Num(24), Empty, Letters}
    [] kind = "minute" -> {Two(0), Num(7), Num(59), Num(60), Empty}
    [] kind = "id" -> {Num(0), Num(9), Num(10), Empty, Letters} \cup Leads(Num(1))
    [] kind = "bit" -> {Num(0), Num(1), Num(2), Two(1), Empty, Letters}
    [] kind = "flag" -> {Keyword(f) : f \in DOMAIN FlagLetters} \cup {Letters}
    [] kind = "amps" -> {Num(0), Num(5), Tailed(Num(12)), Num(999), Num(1000), Empty, Letters}
         \cup UNION {Leads(Num(n)) : n \in {0, 5, 12, 123}} \cup {Minus(Empty)}
    [] kind = "frequency" -> {Num(50), Num(60), Num(51), Letters}
    [] kind = "charging" ->
         {Point(v) : v \in {479, 480, 481, 583, 584, 585}}
           \cup {Num(50), Time(Num(50), Num(30)), Keyword("nan"), Minus(Keyword("nan")), Empty}
           \cup Leads(Point(500))
    [] kind = "cutoff" ->
         {Point(v) : v \in 398 .. 482} \cup {Num(40), Num(48), Letters} \cup Leads(Point(420))
    [] kind = "rated" ->
         {Num(v) : v \in RatedVoltages \cup {221}} \cup {Tailed(Num(220)), Letters}
           \cup Leads(Num(220))
    [] kind = "recharging" -> {Volts(v) : v \in Allowed("recharging") \cup {111}}
    [] kind = "redischarging" -> {Volts(v) : v \in Allowed("redischarging") \cup {112}}
    [] kind = "keyword" -> {KeyOf(name) : name \in UNION {ToSet(KeywordLists[c]) : c \in DOMAIN KeywordLists}} \cup {Letters}
    [] kind = "serial" -> {Numeral([k \in 1 .. n |-> k % 10]) : n \in {0, 1, 9, 10, 19, 20, 21}} \cup {Letters}
         \cup Leads(Num(7))
    [] kind = "time" ->
         {Time(h, m) : h \in {Two(0), Num(7), Num(23), Num(24), Num(65536)}, m \in {Two(0), Num(5), Num(59), Num(60)}}
           \cup {Tailed(Time(Num(10), Num(5))), Num(10)}
           \cup UNION {Leads(Time(h, Num(5))) : h \in {Num(0), Num(6), Num(65530)}}
           \cup {Time(Num(6), m) : m \in UNION {Leads(n) : n \in {Num(0), Num(7), Num(65530)}}}

\* One good word of a kind.
GoodWord(cmd, kind) ==
  CASE kind = "keyword" -> KeyOf(KeywordLists[cmd][1])
    [] kind = "flag" -> Keyword("BUZZ")
    [] kind = "serial" -> Numeral(<<1, 2, 3>>)
    [] kind = "recharging" -> Volts(110)
    [] kind = "redischarging" -> Volts(120)
    [] kind = "year" -> Num(2023)
    [] kind \in {"month", "day", "hour", "minute"} -> Two(1)
    [] kind = "frequency" -> Num(50)
    [] kind = "charging" -> Point(500)
    [] kind = "cutoff" -> Point(420)
    [] kind = "rated" -> Num(220)
    [] kind = "time" -> Time(Two(1), Two(2))
    [] OTHER -> Num(1)

\* All words in two neighbouring places, in three for a date; good words elsewhere.
Lines(cmd) ==
  LET kinds == Kinds(cmd)
      good == [k \in DOMAIN kinds |-> GoodWord(cmd, kinds[k])]
      date == IF kinds # <<>> /\ kinds[1] = "year" THEN 1 .. 3 ELSE {}
  IN  {<<cmd, good>>, <<cmd, Append(good, Num(1))>>}
        \cup {<<cmd, SubSeq(good, 1, k - 1)>> : k \in DOMAIN kinds}
        \cup UNION {{<<cmd, [good EXCEPT ![k] = w1, ![j] = w2]>> :
                       w1 \in MCWords(kinds[k]), w2 \in MCWords(kinds[j])} :
                    <<k, j>> \in {p \in (DOMAIN kinds) \X (DOMAIN kinds) : p[1] + 1 = p[2] \/ (p[1] = p[2])}}
        \cup IF date \subseteq DOMAIN kinds /\ date # {}
               THEN {<<cmd, [good EXCEPT ![1] = y, ![2] = m, ![3] = d]>> :
                       y \in MCWords("year"), m \in MCWords("month"), d \in MCWords("day")}
               ELSE {}

MCCommandLines == UNION {Lines(cmd) : cmd \in AllCommands}
=============================================================================
