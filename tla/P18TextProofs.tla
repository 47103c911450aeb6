--------------------------- MODULE P18TextProofs ---------------------------
(***************************************************************************)
(* Lemmas about text: what atoi, sprintf and a row of parts put together   *)
(* give for texts and numbers of any size.                                 *)
(***************************************************************************)
EXTENDS P18Text, SequenceTheorems, WellFoundedInduction, TLAPS

\* Induction on natural numbers, as the library has it for a relation: a set of
\* counterexamples would have a least one.
LEMMA LeastOf ==
  ASSUME NEW T \in SUBSET Nat, T # {}
  PROVE  \E least \in T : \A n \in T : least <= n
<1> DEFINE Less == {pair \in Nat \X Nat : pair[1] < pair[2]}
<1>1. IsWellFoundedOn(Less, Nat)
  BY NatLessThanWellFounded DEF OpToRel
<1>2. \A a, b \in Nat : a < b => <<a, b>> \in Less
  OBVIOUS
<1> HIDE DEF Less
<1>3. PICK least \in T : \A n \in T : <<n, least>> \notin Less
  BY <1>1, WFMin
<1>4. ASSUME NEW n \in T PROVE least <= n
  <2>1. least \in Nat /\ n \in Nat /\ ~(n < least)
    BY <1>2, <1>3
  <2> QED BY <2>1
<1> QED BY <1>4

\* What holds of 0, and of each number up to a bound if it holds of the one
\* before, holds of all up to the bound.
LEMMA UpTo ==
  ASSUME NEW bound \in Nat, NEW Good,
         0 \in Good,
         \A n \in Nat : n < bound /\ n \in Good => n + 1 \in Good
  PROVE  \A n \in 0 .. bound : n \in Good
<1> DEFINE Bad == {n \in 0 .. bound : n \notin Good}
<1> SUFFICES ASSUME Bad # {} PROVE FALSE
  OBVIOUS
<1>0. Bad \in SUBSET Nat
  OBVIOUS
<1>1. PICK least \in Bad : \A n \in Bad : least <= n
  <2> HIDE DEF Bad
  <2> QED BY <1>0, LeastOf
<1>2. least \in Nat /\ least # 0 /\ least <= bound /\ least \notin Good
  OBVIOUS
<1>3. least - 1 \in 0 .. bound /\ least - 1 \notin Bad
  BY <1>1, <1>2
<1>4. least - 1 \in Good /\ least - 1 \in Nat /\ least - 1 < bound
  BY <1>2, <1>3
<1>5. (least - 1) + 1 \in Good
  BY <1>4
<1> QED BY <1>2, <1>5

-----------------------------------------------------------------------------
(* atoi. *)

\* What is read of the first k characters, as a function of k.
Reads(text, n, f) ==
  f = [k \in 0 .. n |-> IF k = 0 THEN 0 ELSE 10 * f[k - 1] + text[k]]

LEMMA ReadsExists ==
  ASSUME NEW text, NEW n \in Nat
  PROVE  \E f : Reads(text, n, f)
<1> DEFINE Good == {k \in Nat : \E f : Reads(text, k, f)}
<1>1. 0 \in Good
  <2> DEFINE f == [k \in 0 .. 0 |-> 0]
  <2>1. Reads(text, 0, f)
    BY DEF Reads
  <2> QED BY <2>1
<1>2. ASSUME NEW k \in Nat, k < n, k \in Good PROVE k + 1 \in Good
  <2>1. PICK f : Reads(text, k, f)
    BY <1>2
  <2> DEFINE g == [j \in 0 .. k + 1 |-> IF j = k + 1 THEN 10 * f[k] + text[k + 1] ELSE f[j]]
  <2>2. \A j \in 0 .. k : g[j] = f[j]
    OBVIOUS
  <2>3. \A j \in 0 .. k : f[j] = IF j = 0 THEN 0 ELSE 10 * f[j - 1] + text[j]
    BY <2>1 DEF Reads
  <2>4. ASSUME NEW j \in 0 .. k + 1
        PROVE  g[j] = IF j = 0 THEN 0 ELSE 10 * g[j - 1] + text[j]
    <3>1. CASE j = k + 1
      <4>1. g[j] = 10 * f[k] + text[j] /\ g[j - 1] = f[k] /\ j # 0
        BY <3>1
      <4> QED BY <4>1
    <3>2. CASE j # k + 1
      <4>1. j \in 0 .. k /\ (j # 0 => j - 1 \in 0 .. k)
        BY <3>2
      <4> QED BY <2>2, <2>3, <4>1
    <3> QED BY <3>1, <3>2
  <2>5. g = [j \in 0 .. k + 1 |-> IF j = 0 THEN 0 ELSE 10 * g[j - 1] + text[j]]
    BY <2>4
  <2> HIDE DEF g
  <2>6. Reads(text, k + 1, g)
    BY <2>5 DEF Reads
  <2> QED BY <2>6
<1> HIDE DEF Good
<1>3. n \in Good
  BY <1>1, <1>2, UpTo
<1> QED BY <1>3 DEF Good

\* The function of which atoi takes the last value.
ReadOf(text) == CHOOSE f : Reads(text, Len(text), f)

LEMMA AtoiReads ==
  ASSUME NEW S, NEW text \in Seq(S)
  PROVE  /\ Atoi(text) = ReadOf(text)[Len(text)]
         /\ ReadOf(text)[0] = 0
         /\ \A k \in 1 .. Len(text) : ReadOf(text)[k] = 10 * ReadOf(text)[k - 1] + text[k]
<1>1. Atoi(text) = ReadOf(text)[Len(text)]
  BY DEF Atoi, ReadOf, Reads
<1>2. Len(text) \in Nat
  OBVIOUS
<1>3. Reads(text, Len(text), ReadOf(text))
  BY <1>2, ReadsExists DEF ReadOf
<1> QED BY <1>1, <1>2, <1>3 DEF Reads

\* What is read of the first n characters depends on nothing else.
LEMMA SameReads ==
  ASSUME NEW S, NEW text \in Seq(S), NEW other \in Seq(S), NEW n \in Nat,
         n <= Len(text), n <= Len(other), \A k \in 1 .. n : text[k] = other[k]
  PROVE  ReadOf(text)[n] = ReadOf(other)[n]
<1> DEFINE Good == {k \in Nat : ReadOf(text)[k] = ReadOf(other)[k]}
<1>1. 0 \in Good
  BY AtoiReads
<1>2. ASSUME NEW k \in Nat, k < n, k \in Good PROVE k + 1 \in Good
  <2>1. /\ k + 1 \in 1 .. Len(text) /\ k + 1 \in 1 .. Len(other) /\ k + 1 \in 1 .. n
        /\ (k + 1) - 1 = k
    BY <1>2
  <2>2. /\ ReadOf(text)[k + 1] = 10 * ReadOf(text)[k] + text[k + 1]
        /\ ReadOf(other)[k + 1] = 10 * ReadOf(other)[k] + other[k + 1]
    BY <2>1, AtoiReads
  <2> QED BY <1>2, <2>1, <2>2
<1> HIDE DEF Good
<1>3. \A k \in 0 .. n : k \in Good
  BY ONLY <1>1, <1>2, UpTo, n \in Nat
<1> QED BY <1>3 DEF Good

\* atoi of nothing is 0.
LEMMA AtoiEmpty == Atoi(<<>>) = 0
<1>1. <<>> \in Seq({}) /\ Len(<<>>) = 0
  OBVIOUS
<1> QED BY <1>1, AtoiReads

\* One more digit.
LEMMA AtoiAppend ==
  ASSUME NEW S, NEW text \in Seq(S), NEW digit \in S
  PROVE  Atoi(Append(text, digit)) = 10 * Atoi(text) + digit
<1> DEFINE more == Append(text, digit)
           n == Len(text)
<1>1. /\ more \in Seq(S) /\ Len(more) = n + 1 /\ n \in Nat /\ more[n + 1] = digit
      /\ \A k \in 1 .. n : text[k] = more[k]
  BY AppendProperties
<1> HIDE DEF more, n
<1>2. text \in Seq(S) /\ n = Len(text)
  BY DEF n
<1>3. ReadOf(text)[n] = ReadOf(more)[n]
  BY <1>1, <1>2, SameReads
<1>4. ReadOf(more)[n + 1] = 10 * ReadOf(more)[n] + digit
  <2>1. n + 1 \in 1 .. Len(more) /\ (n + 1) - 1 = n
    BY <1>1
  <2> QED BY <1>1, <2>1, AtoiReads
<1>5. Atoi(text) = ReadOf(text)[n] /\ Atoi(more) = ReadOf(more)[n + 1]
  BY <1>1, <1>2, AtoiReads
<1> QED BY <1>3, <1>4, <1>5 DEF more

\* atoi of digits is a natural number.
LEMMA AtoiType ==
  ASSUME NEW text \in Seq(Nat)
  PROVE  Atoi(text) \in Nat
<1> DEFINE Good == {k \in Nat : ReadOf(text)[k] \in Nat}
<1>1. 0 \in Good
  BY AtoiReads
<1>2. ASSUME NEW k \in Nat, k < Len(text), k \in Good PROVE k + 1 \in Good
  <2>1. k + 1 \in 1 .. Len(text) /\ (k + 1) - 1 = k /\ text[k + 1] \in Nat
    BY <1>2
  <2>2. ReadOf(text)[k + 1] = 10 * ReadOf(text)[k] + text[k + 1]
    BY <2>1, AtoiReads
  <2> QED BY <1>2, <2>1, <2>2
<1> HIDE DEF Good
<1>3. Len(text) \in Nat
  OBVIOUS
<1>4. \A k \in 0 .. Len(text) : k \in Good
  BY ONLY <1>1, <1>2, <1>3, UpTo
<1> QED BY <1>3, <1>4, AtoiReads DEF Good

-----------------------------------------------------------------------------
(* sprintf("%0nd"), for numbers of up to nine digits. *)

\* The powers of ten, one by one.
LEMMA Powers ==
  ASSUME NEW j \in 0 .. 8
  PROVE  10^j \in Nat /\ 10^j > 0 /\ 10^(j + 1) = 10 * 10^j
<1>1. j = 0 \/ j = 1 \/ j = 2 \/ j = 3 \/ j = 4 \/ j = 5 \/ j = 6 \/ j = 7 \/ j = 8
  OBVIOUS
<1>2. CASE j = 0 BY <1>2
<1>3. CASE j = 1 BY <1>3
<1>4. CASE j = 2 BY <1>4
<1>5. CASE j = 3 BY <1>5
<1>6. CASE j = 4 BY <1>6
<1>7. CASE j = 5 BY <1>7
<1>8. CASE j = 6 BY <1>8
<1>9. CASE j = 7 BY <1>9
<1>10. CASE j = 8 BY <1>10
<1> QED
  BY <1>1, <1>2, <1>3, <1>4, <1>5, <1>6, <1>7, <1>8, <1>9, <1>10

LEMMA PowersGrow ==
  ASSUME NEW j \in 0 .. 9, NEW i \in 0 .. j
  PROVE  10^i \in Nat /\ 10^j \in Nat /\ 0 < 10^i /\ 10^i <= 10^j
<1> DEFINE p(k) == 10^k
           Largest(n) == \A k \in 0 .. n : p(k) <= p(n)
           Good == {n \in Nat : n <= 9 /\ p(n) \in Nat /\ 0 < p(n) /\ Largest(n)}
<1>1. 0 \in Good
  <2>1. p(0) = 1
    OBVIOUS
  <2> HIDE DEF p
  <2>2. \A k \in 0 .. 0 : k = 0
    OBVIOUS
  <2>3. Largest(0)
    BY <2>1, <2>2
  <2> HIDE DEF Largest
  <2> QED BY <2>1, <2>3
<1>2. ASSUME NEW n \in Nat, n < 9, n \in Good PROVE n + 1 \in Good
  <2>1. n \in 0 .. 8
    BY <1>2
  <2>2. p(n) \in Nat /\ 0 < p(n) /\ p(n + 1) = 10 * p(n)
    BY <2>1, Powers
  <2>3. \A k \in 0 .. n : p(k) \in Nat
    <3>1. \A k \in 0 .. n : k \in 0 .. 8
      BY <2>1
    <3> QED BY <3>1, Powers
  <2> HIDE DEF p
  <2>4. \A k \in 0 .. n : p(k) <= p(n)
    BY <1>2
  <2>5. \A k \in 0 .. n + 1 : k \in 0 .. n \/ k = n + 1
    OBVIOUS
  <2>6. p(n + 1) \in Nat /\ 0 < p(n + 1) /\ \A k \in 0 .. n + 1 : p(k) <= p(n + 1)
    BY <2>2, <2>3, <2>4, <2>5
  <2> QED BY <1>2, <2>6
<1> HIDE DEF Good
<1>3. 9 \in Nat
  OBVIOUS
<1>4. \A n \in 0 .. 9 : n \in Good
  BY ONLY <1>1, <1>2, <1>3, UpTo
<1>5. i \in 0 .. 9 /\ i \in 0 .. j
  OBVIOUS
<1> QED BY <1>4, <1>5 DEF Good

\* A number below 10^n has at most n digits.
LEMMA WidthFits ==
  ASSUME NEW n \in 1 .. 9, NEW number \in Nat, number < 10^n
  PROVE  Width(number) \in 1 .. n /\ number < 10^Width(number)
<1> DEFINE Fits == {w \in 1 .. 9 : number < 10^w}
           Is(w) == number < 10^w /\ (w = 1 \/ number >= 10^(w - 1))
<1>1. Fits \in SUBSET Nat /\ Fits # {}
  BY SMTT(40)
<1>2. PICK least \in Fits : \A w \in Fits : least <= w
  <2> HIDE DEF Fits
  <2> QED BY <1>1, LeastOf
<1>3. \E w \in 1 .. 9 : Is(w)
  <2>1. least \in 1 .. 9 /\ number < 10^least
    BY <1>2
  <2>2. CASE least = 1
    BY <2>1, <2>2
  <2>3. CASE least # 1
    <3>1. least - 1 \in 1 .. 9 /\ least - 1 \notin Fits /\ least - 1 \in 0 .. least /\ least \in 0 .. 9
      BY <1>2, <2>1, <2>3
    <3>2. 10^(least - 1) \in Nat /\ ~(number < 10^(least - 1))
      BY <3>1, PowersGrow
    <3>3. number >= 10^(least - 1)
      <4> DEFINE power == 10^(least - 1)
      <4>1. power \in Nat /\ ~(number < power)
        BY <3>2
      <4> HIDE DEF power
      <4>2. number >= power
        BY <4>1
      <4> QED BY ONLY <4>2 DEF power
    <3> QED BY <2>1, <3>3
  <2> QED BY <2>2, <2>3
<1> DEFINE width == Width(number)
<1>4. width \in 1 .. 9 /\ Is(width)
  BY <1>3 DEF Width
<1>5. ASSUME width > n PROVE FALSE
  <2> DEFINE power == 10^n  below == 10^(width - 1)
  <2>1. width - 1 \in 0 .. 9 /\ n \in 0 .. (width - 1) /\ width # 1
    BY <1>4, <1>5
  <2>2. power \in Nat /\ below \in Nat /\ power <= below
    BY <2>1, PowersGrow
  <2>3. number >= below /\ number < power
    BY <1>4, <2>1
  <2> HIDE DEF power, below
  <2> QED BY <2>2, <2>3
<1>6. width \in 1 .. n
  BY <1>4, <1>5
<1> QED BY <1>4, <1>6

\* A number that is not negative is printed without a sign.
LEMMA PrintedNumber ==
  ASSUME NEW number \in Nat, NEW width
  PROVE  Printed(number, width) = Decimal(number, width)
<1>1. ~(number < 0)
  OBVIOUS
<1> QED BY <1>1 DEF Printed

\* Printed with room enough, a number has no more digits than it is given room.
LEMMA PrintedIs ==
  ASSUME NEW n \in 1 .. 9, NEW number \in Nat, number < 10^n
  PROVE  Printed(number, n) = [k \in 1 .. n |-> (number \div 10^(n - k)) % 10]
<1>1. Width(number) \in 1 .. n
  BY WidthFits
<1>2. ~(Width(number) > n)
  BY <1>1
<1> QED BY <1>2, PrintedNumber DEF Decimal

\* A number without its last j + 1 digits is the number without j and one more.
LEMMA DropDigit ==
  ASSUME NEW x \in Nat, NEW j \in 0 .. 8
  PROVE  x \div 10^(j + 1) = (x \div 10^j) \div 10
<1>1. j = 0 \/ j = 1 \/ j = 2 \/ j = 3 \/ j = 4 \/ j = 5 \/ j = 6 \/ j = 7 \/ j = 8
  OBVIOUS
<1>2. CASE j = 0 BY <1>2
<1>3. CASE j = 1 BY <1>3
<1>4. CASE j = 2 BY <1>4
<1>5. CASE j = 3 BY <1>5
<1>6. CASE j = 4 BY <1>6
<1>7. CASE j = 5 BY <1>7
<1>8. CASE j = 6 BY <1>8
<1>9. CASE j = 7 BY <1>9
<1>10. CASE j = 8 BY <1>10
<1> QED
  BY <1>1, <1>2, <1>3, <1>4, <1>5, <1>6, <1>7, <1>8, <1>9, <1>10

\* A digit behind a number, and off again.
LEMMA DigitBehind ==
  ASSUME NEW x \in Nat, NEW d \in 0 .. 9
  PROVE  /\ 10 * x + d \in Nat
         /\ (10 * x + d) \div 10 = x
         /\ (10 * x + d) % 10 = d
         /\ \A p \in Nat : x < p => 10 * x + d < 10 * p
  OBVIOUS

\* The next of some digits.
LEMMA DigitRead ==
  ASSUME NEW text \in Seq(Digits), NEW k \in 1 .. Len(text)
  PROVE  /\ ReadOf(text)[k] = 10 * ReadOf(text)[k - 1] + text[k]
         /\ text[k] \in 0 .. 9
<1>1. text[k] \in Digits
  OBVIOUS
<1> QED BY <1>1, AtoiReads DEF Digits

\* What is read of k digits is below 10^k.
LEMMA ReadsBelow ==
  ASSUME NEW text \in Seq(Digits), NEW k \in 0 .. 9, k <= Len(text)
  PROVE  ReadOf(text)[k] \in Nat /\ ReadOf(text)[k] < 10^k
<1> DEFINE p(n) == 10^n
           r == ReadOf(text)
           Good == {n \in Nat : r[n] \in Nat /\ r[n] < p(n)}
<1>1. 0 \in Good
  <2>1. p(0) = 1 /\ r[0] = 0
    BY AtoiReads
  <2> HIDE DEF p, r
  <2> QED BY <2>1
<1>2. ASSUME NEW n \in Nat, n < k, n \in Good PROVE n + 1 \in Good
  <2>1. n \in 0 .. 8
    BY <1>2
  <2>2. p(n) \in Nat /\ p(n + 1) = 10 * p(n)
    BY <2>1, Powers
  <2>3. n + 1 \in 1 .. Len(text) /\ (n + 1) - 1 = n
    BY <1>2
  <2>4. r[n + 1] = 10 * r[n] + text[n + 1] /\ text[n + 1] \in 0 .. 9
    BY <2>3, DigitRead
  <2>a. r[n] \in Nat /\ r[n] < p(n)
    BY <1>2
  <2> HIDE DEF p, r
  <2>5. r[n + 1] \in Nat /\ r[n + 1] < p(n + 1)
    <3> DEFINE x == r[n]  d == text[n + 1]  new == r[n + 1]  q == p(n)  q1 == p(n + 1)
    <3>1. x \in Nat /\ d \in 0 .. 9 /\ q \in Nat /\ x < q /\ q1 = 10 * q /\ new = 10 * x + d
      BY <2>2, <2>4, <2>a
    <3> HIDE DEF x, d, q, q1, new
    <3>2. new \in Nat /\ new < q1
      BY ONLY <3>1, DigitBehind
    <3> QED BY <3>2 DEF new, q1
  <2> QED BY <2>5
<1> HIDE DEF Good
<1>3. k \in Nat /\ k \in 0 .. k
  OBVIOUS
<1>4. \A n \in 0 .. k : n \in Good
  BY ONLY <1>1, <1>2, <1>3, UpTo
<1> QED BY <1>3, <1>4 DEF Good

\* atoi of up to nine digits is a number of as many digits.
LEMMA AtoiBelow ==
  ASSUME NEW text \in Seq(Digits), Len(text) <= 9
  PROVE  Atoi(text) \in Nat /\ Atoi(text) < 10^Len(text)
<1> DEFINE n == Len(text)
<1>1. n \in Nat /\ n <= 9
  OBVIOUS
<1> HIDE DEF n
<1>2. n \in 0 .. 9 /\ n <= n
  BY <1>1
<1> QED BY <1>2, ReadsBelow, AtoiReads DEF n

\* The last j digits dropped is what was read before them.
LEMMA ReadsBefore ==
  ASSUME NEW text \in Seq(Digits), NEW n \in 1 .. 9, n = Len(text), NEW j \in 0 .. n
  PROVE  Atoi(text) \div 10^j = ReadOf(text)[n - j]
<1> DEFINE r == ReadOf(text)
           Good == {i \in Nat : r[n] \div 10^i = r[n - i]}
<1>0. \A k \in 0 .. n : r[k] \in Nat
  <2>1. \A k \in 0 .. n : k \in 0 .. 9 /\ k <= Len(text)
    OBVIOUS
  <2> QED BY <2>1, ReadsBelow
<1>1. 0 \in Good
  <2>1. 10^0 = 1 /\ n - 0 = n /\ r[n] \in Nat
    BY <1>0
  <2> HIDE DEF r
  <2> QED BY <2>1
<1>2. ASSUME NEW i \in Nat, i < n, i \in Good PROVE i + 1 \in Good
  <2> DEFINE k == n - i
  <2>a. /\ i \in 0 .. 8 /\ k \in 1 .. n /\ k \in 0 .. n /\ k - 1 = n - (i + 1)
        /\ k - 1 \in 0 .. n /\ n \in 0 .. n
    <3> HIDE DEF r, Good
    <3> QED BY ONLY <1>2, n \in 1 .. 9 DEF k
  <2>1. /\ i \in 0 .. 8 /\ k \in 1 .. Len(text) /\ k \in 0 .. n /\ k - 1 = n - (i + 1)
        /\ k - 1 \in 0 .. n /\ n \in 0 .. n
    BY <2>a
  <2>2. r[n] \in Nat /\ r[k - 1] \in Nat
    BY <1>0, <2>1
  <2>3. r[k] = 10 * r[k - 1] + text[k] /\ text[k] \in 0 .. 9
    BY <2>1, DigitRead
  <2>4. r[n] \div 10^i = r[k]
    BY <1>2
  <2> HIDE DEF r, k
  <2>5. r[n] \div 10^(i + 1) = (r[n] \div 10^i) \div 10
    BY <2>1, <2>2, DropDigit
  <2>6. r[k] \div 10 = r[k - 1]
    <3> DEFINE x == r[k - 1]  d == text[k]
    <3>1. x \in Nat /\ d \in 0 .. 9 /\ r[k] = 10 * x + d
      BY <2>2, <2>3
    <3> HIDE DEF x, d
    <3>2. r[k] \div 10 = x
      BY ONLY <3>1, DigitBehind
    <3> QED BY <3>2 DEF x
  <2>7. r[n] \div 10^(i + 1) = r[n - (i + 1)]
    BY <2>1, <2>4, <2>5, <2>6
  <2> QED BY <2>7
<1> HIDE DEF Good
<1>3. n \in Nat
  OBVIOUS
<1>4. \A i \in 0 .. n : i \in Good
  BY ONLY <1>1, <1>2, <1>3, UpTo
<1>5. Atoi(text) = r[n]
  BY AtoiReads
<1> QED BY <1>4, <1>5 DEF Good

\* What was read is printed as it was, up to nine digits of it.
LEMMA PrintedAtoi ==
  ASSUME NEW text \in Seq(Digits), NEW n \in 1 .. 9, n = Len(text)
  PROVE  Printed(Atoi(text), n) = text
<1>1. Atoi(text) \in Nat /\ Atoi(text) < 10^n
  <2>1. Len(text) <= 9
    OBVIOUS
  <2> QED BY <2>1, AtoiBelow
<1>2. Printed(Atoi(text), n) = [k \in 1 .. n |-> (Atoi(text) \div 10^(n - k)) % 10]
  BY <1>1, PrintedIs
<1>3. ASSUME NEW k \in 1 .. n PROVE (Atoi(text) \div 10^(n - k)) % 10 = text[k]
  <2> DEFINE r == ReadOf(text)
             j == n - k
  <2>1. j \in 0 .. n /\ n - j = k /\ k \in 1 .. Len(text) /\ k - 1 \in 0 .. 9
        /\ k - 1 <= Len(text)
    OBVIOUS
  <2>2. r[k] = 10 * r[k - 1] + text[k] /\ text[k] \in 0 .. 9
    BY <2>1, DigitRead
  <2>3. r[k - 1] \in Nat
    BY <2>1, ReadsBelow
  <2> HIDE DEF r, j
  <2>4. Atoi(text) \div 10^j = r[k]
    BY <2>1, ReadsBefore DEF r
  <2>5. r[k] % 10 = text[k]
    BY <2>2, <2>3, DigitBehind
  <2> QED BY <2>4, <2>5 DEF j
<1>4. text = [k \in 1 .. n |-> text[k]]
  OBVIOUS
<1> QED BY <1>2, <1>3, <1>4

-----------------------------------------------------------------------------
(* substr_copy of a part of a sequence. *)

\* What substr_copy leaves of the part a .. b of s, and how long it is.
CopyOf(s, a, b, n) == SubstrCopy(SubSeq(s, a, b), n)

SizeOfCopy(a, b, n) ==
  IF b < a THEN 0 ELSE IF n < b - a + 1 THEN n ELSE b - a + 1

\* substr_copy keeps the first characters, up to its limit.
LEMMA CopyOfPart ==
  ASSUME NEW S, NEW s \in Seq(S), NEW a \in Nat, 0 < a,
         NEW b \in 0 .. Len(s),
         NEW n \in Nat
  PROVE  /\ CopyOf(s, a, b, n) \in Seq(S)
         /\ Len(CopyOf(s, a, b, n)) = SizeOfCopy(a, b, n)
         /\ \A k \in 1 .. SizeOfCopy(a, b, n) : CopyOf(s, a, b, n)[k] = s[a + k - 1]
<1> DEFINE whole == SubSeq(s, a, b)
           kept == IF n < Len(whole) THEN n ELSE Len(whole)
<1>1. \A k \in a .. b : s[k] \in S
  OBVIOUS
<1>2. /\ whole \in Seq(S)
      /\ Len(whole) = IF b < a THEN 0 ELSE b - a + 1
      /\ \A k \in 1 .. b - a + 1 : whole[k] = s[a + k - 1]
  BY <1>1, SubSeqProperties
<1>3. kept \in Nat /\ kept <= Len(whole) /\ kept = SizeOfCopy(a, b, n)
  BY <1>2 DEF SizeOfCopy
<1>4. CopyOf(s, a, b, n) = SubSeq(whole, 1, kept)
  BY DEF CopyOf, SubstrCopy
<1>5. \A k \in 1 .. kept : k \in 1 .. b - a + 1
  BY <1>3 DEF SizeOfCopy
<1> HIDE DEF whole, kept
<1>6. \A k \in 1 .. kept : whole[k] \in S
  BY <1>2, <1>3
<1>7. /\ SubSeq(whole, 1, kept) \in Seq(S)
      /\ Len(SubSeq(whole, 1, kept)) = kept
      /\ \A k \in 1 .. kept : SubSeq(whole, 1, kept)[k] = whole[k]
  BY <1>3, <1>6, SubSeqProperties
<1> QED
  BY <1>2, <1>3, <1>4, <1>5, <1>7

\* One more character: it is appended if there is room for it.
LEMMA CopyGrows ==
  ASSUME NEW S, NEW s \in Seq(S), NEW a \in Nat, 0 < a, NEW b \in Nat,
         a <= b + 1, b + 1 <= Len(s), NEW n \in Nat
  PROVE  CopyOf(s, a, b + 1, n) =
           IF Len(CopyOf(s, a, b, n)) < n
             THEN Append(CopyOf(s, a, b, n), s[b + 1])
             ELSE CopyOf(s, a, b, n)
<1> DEFINE part == CopyOf(s, a, b, n)
           more == CopyOf(s, a, b + 1, n)
<1>0. b \in 0 .. Len(s) /\ b + 1 \in 0 .. Len(s)
  OBVIOUS
<1>1. /\ part \in Seq(S)
      /\ Len(part) = SizeOfCopy(a, b, n)
      /\ \A k \in 1 .. SizeOfCopy(a, b, n) : part[k] = s[a + k - 1]
  BY <1>0, CopyOfPart, ZenonT(40)
<1>2. /\ more \in Seq(S)
      /\ Len(more) = SizeOfCopy(a, b + 1, n)
      /\ \A k \in 1 .. SizeOfCopy(a, b + 1, n) : more[k] = s[a + k - 1]
  BY <1>0, CopyOfPart, ZenonT(40)
<1>3. s[b + 1] \in S
  OBVIOUS
<1> HIDE DEF part, more
<1>4. CASE Len(part) < n
  <2>1. /\ Append(part, s[b + 1]) \in Seq(S)
        /\ Len(Append(part, s[b + 1])) = Len(part) + 1
        /\ \A k \in 1 .. Len(part) : Append(part, s[b + 1])[k] = part[k]
        /\ Append(part, s[b + 1])[Len(part) + 1] = s[b + 1]
    BY <1>1, <1>3, AppendProperties
  <2>2. /\ Len(part) = b - a + 1 /\ SizeOfCopy(a, b, n) = b - a + 1
        /\ Len(more) = b - a + 2 /\ SizeOfCopy(a, b + 1, n) = b - a + 2
    BY <1>1, <1>2, <1>4, SMTT(40) DEF SizeOfCopy
  <2>3. \A k \in 1 .. Len(more) : more[k] = Append(part, s[b + 1])[k]
    <3> SUFFICES ASSUME NEW k \in 1 .. Len(more)
                 PROVE  more[k] = Append(part, s[b + 1])[k]
      OBVIOUS
    <3>0. Len(part) \in Nat /\ Len(more) = Len(part) + 1
      BY <1>1, <2>2
    <3>1. CASE k \in 1 .. Len(part)
      <4>1. k \in 1 .. SizeOfCopy(a, b + 1, n) /\ k \in 1 .. SizeOfCopy(a, b, n)
        BY <1>1, <1>2, <3>1
      <4>2. more[k] = s[a + k - 1] /\ part[k] = s[a + k - 1]
        BY <1>1, <1>2, <4>1
      <4> QED
        BY <2>1, <3>1, <4>2
    <3>2. CASE k = Len(part) + 1
      <4>1. a + k - 1 = b + 1
        BY <2>2, <3>2
      <4>2. k \in 1 .. SizeOfCopy(a, b + 1, n)
        BY <2>2
      <4>3. more[k] = s[a + k - 1]
        BY <1>2, <4>2
      <4>4. Append(part, s[b + 1])[k] = s[b + 1]
        BY <2>1, <3>2
      <4> QED
        BY <4>1, <4>3, <4>4
    <3> QED
      BY <3>0, <3>1, <3>2
  <2>4. more = Append(part, s[b + 1])
    BY <1>2, <2>1, <2>2, <2>3, SeqEqual, SMTT(40)
  <2> QED
    BY <1>4, <2>4 DEF part, more
<1>5. CASE ~(Len(part) < n)
  <2>1. /\ Len(part) = n /\ SizeOfCopy(a, b, n) = n
        /\ Len(more) = n /\ SizeOfCopy(a, b + 1, n) = n
    BY <1>1, <1>2, <1>5 DEF SizeOfCopy
  <2>2. \A k \in 1 .. Len(more) : more[k] = part[k]
    BY <1>1, <1>2, <2>1
  <2>3. more = part
    BY <1>1, <1>2, <2>1, <2>2, SeqEqual
  <2> QED
    BY <1>5, <2>3 DEF part, more
<1> QED
  BY <1>4, <1>5 DEF part

\* Nothing is copied of an empty part.
LEMMA CopyOfNothing ==
  ASSUME NEW S, NEW s \in Seq(S), NEW b \in 0 .. Len(s), NEW n \in Nat
  PROVE  CopyOf(s, b + 1, b, n) = <<>>
<1>1. b \in Nat /\ b + 1 \in Nat /\ 0 < b + 1 /\ b < b + 1
  OBVIOUS
<1>2. SizeOfCopy(b + 1, b, n) = 0
  BY <1>1 DEF SizeOfCopy
<1>3. CopyOf(s, b + 1, b, n) \in Seq(S) /\ Len(CopyOf(s, b + 1, b, n)) = 0
  BY <1>1, <1>2, CopyOfPart
<1> QED
  BY <1>3, EmptySeq

\* substr_copy of a whole text.
LEMMA CopyType ==
  ASSUME NEW S, NEW text \in Seq(S), NEW len \in Nat
  PROVE  /\ SubstrCopy(text, len) \in Seq(S)
         /\ Len(SubstrCopy(text, len)) = IF len < Len(text) THEN len ELSE Len(text)
<1> DEFINE n == Len(text)
           kept == IF len < n THEN len ELSE n
<1>1. n \in Nat
  OBVIOUS
<1>2. SubstrCopy(text, len) = SubSeq(text, 1, kept)
  BY DEF SubstrCopy
<1>3. kept \in Nat /\ kept <= Len(text)
  BY <1>1
<1> HIDE DEF kept
<1>4. \A k \in 1 .. kept : text[k] \in S
  BY <1>3
<1>5. SubSeq(text, 1, kept) \in Seq(S) /\ Len(SubSeq(text, 1, kept)) = kept
  BY <1>3, <1>4, SubSeqProperties
<1> QED BY <1>2, <1>5 DEF kept

LEMMA DigitsAreNumbers ==
  ASSUME NEW text \in Seq(Digits)
  PROVE  text \in Seq(Nat)
  BY DEF Digits

-----------------------------------------------------------------------------
(* Putting the parts of a text together. *)

\* The parts up to each of the first n, put together.
Flattens(parts, n, f) ==
  f = [k \in 1 .. n |-> IF k = 1 THEN parts[k] ELSE f[k - 1] \o parts[k]]

LEMMA FlattensExists ==
  ASSUME NEW parts, NEW n \in Nat
  PROVE  \E f : Flattens(parts, n, f)
<1> DEFINE Good == {k \in Nat : \E f : Flattens(parts, k, f)}
<1>1. 0 \in Good
  <2> DEFINE f == [k \in 1 .. 0 |-> 0]
  <2>1. Flattens(parts, 0, f)
    BY DEF Flattens
  <2> QED BY <2>1
<1>2. ASSUME NEW k \in Nat, k < n, k \in Good PROVE k + 1 \in Good
  <2>1. PICK f : Flattens(parts, k, f)
    BY <1>2
  <2> DEFINE last == IF k = 0 THEN parts[1] ELSE f[k] \o parts[k + 1]
             g == [j \in 1 .. k + 1 |-> IF j = k + 1 THEN last ELSE f[j]]
  <2>2. \A j \in 1 .. k : g[j] = f[j]
    OBVIOUS
  <2>3. \A j \in 1 .. k : f[j] = IF j = 1 THEN parts[j] ELSE f[j - 1] \o parts[j]
    BY <2>1 DEF Flattens
  <2>4. ASSUME NEW j \in 1 .. k + 1
        PROVE  g[j] = IF j = 1 THEN parts[j] ELSE g[j - 1] \o parts[j]
    <3>1. CASE j = k + 1 /\ k = 0
      BY <3>1
    <3>2. CASE j = k + 1 /\ k # 0
      <4>0. k # 0 /\ j = k + 1
        BY <3>2
      <4>1. j - 1 = k /\ j # 1 /\ k \in 1 .. k
        BY <4>0
      <4>4. last = f[k] \o parts[j]
        BY <4>0
      <4>2. g[j] = last
        BY <3>2
      <4> HIDE DEF last, g
      <4>3. g[j - 1] = f[k]
        BY <2>2, <4>1
      <4> QED BY <4>1, <4>2, <4>3, <4>4
    <3>3. CASE j # k + 1
      <4>1. j \in 1 .. k /\ (j # 1 => j - 1 \in 1 .. k)
        BY <3>3
      <4> QED BY <2>2, <2>3, <4>1
    <3> QED BY <3>1, <3>2, <3>3
  <2>5. g = [j \in 1 .. k + 1 |-> IF j = 1 THEN parts[j] ELSE g[j - 1] \o parts[j]]
    BY <2>4
  <2> HIDE DEF g
  <2>6. Flattens(parts, k + 1, g)
    BY <2>5 DEF Flattens
  <2> QED BY <2>6
<1> HIDE DEF Good
<1>3. n \in Good
  BY <1>1, <1>2, UpTo
<1> QED BY <1>3 DEF Good

\* What FlattenSeq gives: the last of them.
FlatOf(parts) == CHOOSE f : Flattens(parts, Len(parts), f)

LEMMA FlattenIs ==
  ASSUME NEW parts, NEW n \in Nat \ {0}, Len(parts) = n
  PROVE  /\ FlattenSeq(parts) = FlatOf(parts)[n]
         /\ FlatOf(parts)[1] = parts[1]
         /\ \A k \in 1 .. n - 1 : FlatOf(parts)[k + 1] = FlatOf(parts)[k] \o parts[k + 1]
<1>1. FlattenSeq(parts) = FlatOf(parts)[n]
  BY DEF FlattenSeq, FlatOf, Flattens
<1>2. Flattens(parts, n, FlatOf(parts))
  BY FlattensExists DEF FlatOf
<1>3. \A k \in 1 .. n :
        FlatOf(parts)[k] = IF k = 1 THEN parts[k] ELSE FlatOf(parts)[k - 1] \o parts[k]
  BY <1>2 DEF Flattens
<1>4. ASSUME NEW k \in 1 .. n - 1
      PROVE  FlatOf(parts)[k + 1] = FlatOf(parts)[k] \o parts[k + 1]
  <2>1. k + 1 \in 1 .. n /\ k + 1 # 1 /\ (k + 1) - 1 = k
    OBVIOUS
  <2> QED BY <1>3, <2>1
<1>5. FlatOf(parts)[1] = parts[1]
  <2>1. 1 \in 1 .. n
    OBVIOUS
  <2> QED BY <1>3, <2>1
<1> QED BY <1>1, <1>4, <1>5

\* A text cut into parts and put together again is the text.
LEMMA PartsTogether ==
  ASSUME NEW S, NEW text \in Seq(S), NEW n \in Nat \ {0}, NEW cut, NEW parts,
         Len(parts) = n, cut[0] = 0, cut[n] = Len(text),
         \A k \in 1 .. n :
           /\ cut[k - 1] \in Nat /\ cut[k] \in Nat
           /\ cut[k - 1] <= cut[k] /\ cut[k] <= Len(text)
           /\ parts[k] = SubSeq(text, cut[k - 1] + 1, cut[k])
  PROVE  FlattenSeq(parts) = text
<1> DEFINE f == FlatOf(parts)
           Good == {k \in Nat : f[k + 1] = SubSeq(text, 1, cut[k + 1])}
<1>1. 0 \in Good
  <2>1. 1 \in 1 .. n /\ 1 - 1 = 0 /\ 0 + 1 = 1
    OBVIOUS
  <2>2. parts[1] = SubSeq(text, 0 + 1, cut[1])
    BY <2>1
  <2>3. f[1] = parts[1]
    BY FlattenIs
  <2> HIDE DEF f
  <2> QED BY <2>1, <2>2, <2>3
<1>2. ASSUME NEW k \in Nat, k < n - 1, k \in Good PROVE k + 1 \in Good
  <2>1. k + 1 \in 1 .. n - 1 /\ k + 2 \in 1 .. n /\ (k + 2) - 1 = k + 1 /\ (k + 1) + 1 = k + 2
    BY <1>2
  <2>2. f[k + 2] = f[k + 1] \o parts[k + 2]
    <3>1. \A j \in 1 .. n - 1 : f[j + 1] = f[j] \o parts[j + 1]
      BY FlattenIs
    <3> HIDE DEF f
    <3>2. f[(k + 1) + 1] = f[k + 1] \o parts[(k + 1) + 1]
      BY <2>1, <3>1
    <3> QED BY <2>1, <3>2
  <2> DEFINE a == cut[k + 1]  b == cut[k + 2]
  <2>3. /\ a \in Nat /\ b \in Nat /\ a <= b /\ b <= Len(text)
        /\ parts[k + 2] = SubSeq(text, a + 1, b)
    BY <2>1
  <2>4. f[k + 1] = SubSeq(text, 1, a)
    BY <1>2
  <2> HIDE DEF a, b, f
  <2>5. 1 \in 1 .. Len(text) + 1 /\ a \in 1 - 1 .. Len(text) /\ b \in a .. Len(text)
    BY <2>3
  <2>6. SubSeq(text, 1, a) \o SubSeq(text, a + 1, b) = SubSeq(text, 1, b)
    BY <2>5, ConcatAdjacentSubSeq
  <2>7. f[k + 2] = SubSeq(text, 1, b)
    BY <2>2, <2>3, <2>4, <2>6
  <2> QED BY <2>1, <2>7 DEF b
<1> HIDE DEF Good
<1>3. n - 1 \in Nat /\ n - 1 \in 0 .. n - 1
  OBVIOUS
<1>4. n - 1 \in Good
  BY ONLY <1>1, <1>2, <1>3, UpTo
<1>5. f[n] = SubSeq(text, 1, Len(text))
  <2>1. (n - 1) + 1 = n
    OBVIOUS
  <2>2. f[n] = SubSeq(text, 1, cut[n])
    BY <1>4, <2>1 DEF Good
  <2> QED BY <2>2
<1> QED BY <1>5, FlattenIs, SubSeqFull

\* A copy from inside a text, of no more than is there.
LEMMA CopyIsPart ==
  ASSUME NEW S, NEW text \in Seq(S), NEW a \in Nat, NEW w \in Nat, a + w <= Len(text)
  PROVE  /\ SubstrCopy(SubSeq(text, a + 1, Len(text)), w) = SubSeq(text, a + 1, a + w)
         /\ SubSeq(text, a + 1, a + w) \in Seq(S) /\ Len(SubSeq(text, a + 1, a + w)) = w
<1> DEFINE n == Len(text)
           copy == CopyOf(text, a + 1, n, w)
           part == SubSeq(text, a + 1, a + w)
<1>1. n \in Nat /\ a + 1 \in Nat /\ 0 < a + 1 /\ n \in 0 .. Len(text) /\ a + w <= n
  OBVIOUS
<1>2. \A k \in a + 1 .. a + w : text[k] \in S
  OBVIOUS
<1>3. /\ part \in Seq(S)
      /\ Len(part) = IF a + 1 <= a + w THEN (a + w) - (a + 1) + 1 ELSE 0
      /\ \A k \in 1 .. (a + w) - (a + 1) + 1 : part[k] = text[a + 1 + k - 1]
  BY <1>1, <1>2, SubSeqProperties
<1>4. Len(part) = w /\ \A k \in 1 .. w : part[k] = text[a + 1 + k - 1]
  <2> HIDE DEF part, n
  <2>1. (a + w) - (a + 1) + 1 = w
    OBVIOUS
  <2> QED BY <1>3, <2>1
<1>5. SizeOfCopy(a + 1, n, w) = w
  <2> HIDE DEF n
  <2> QED BY <1>1 DEF SizeOfCopy
<1>6. copy \in Seq(S) /\ Len(copy) = w /\ \A k \in 1 .. w : copy[k] = text[a + 1 + k - 1]
  <2>1. /\ copy \in Seq(S) /\ Len(copy) = SizeOfCopy(a + 1, n, w)
        /\ \A k \in 1 .. SizeOfCopy(a + 1, n, w) : copy[k] = text[a + 1 + k - 1]
    <3> DEFINE from == a + 1
    <3>1. from \in Nat /\ 0 < from /\ n \in 0 .. Len(text) /\ w \in Nat
      BY <1>1
    <3> HIDE DEF from, n
    <3>2. /\ CopyOf(text, from, n, w) \in Seq(S)
          /\ Len(CopyOf(text, from, n, w)) = SizeOfCopy(from, n, w)
          /\ \A k \in 1 .. SizeOfCopy(from, n, w) :
               CopyOf(text, from, n, w)[k] = text[from + k - 1]
      BY <3>1, CopyOfPart, ZenonT(40)
    <3> QED BY <3>2 DEF from
  <2> HIDE DEF copy, n
  <2> QED BY <1>5, <2>1
<1> HIDE DEF copy, part, n
<1>7. copy = part
  BY <1>3, <1>4, <1>6, SeqEqual
<1> QED BY <1>3, <1>4, <1>7 DEF copy, part, n, CopyOf

\* One, two and three parts.
LEMMA FlattenFew ==
  ASSUME NEW parts
  PROVE  /\ Len(parts) = 1 => FlattenSeq(parts) = parts[1]
         /\ Len(parts) = 2 => FlattenSeq(parts) = parts[1] \o parts[2]
         /\ Len(parts) = 3 => FlattenSeq(parts) = (parts[1] \o parts[2]) \o parts[3]
<1> DEFINE f == FlatOf(parts)
<1>1. CASE Len(parts) = 1
  <2>1. 1 \in Nat \ {0}
    OBVIOUS
  <2>2. FlattenSeq(parts) = f[1] /\ f[1] = parts[1]
    BY <1>1, <2>1, FlattenIs
  <2> QED BY <1>1, <2>2
<1>2. CASE Len(parts) = 2
  <2>1. 2 \in Nat \ {0} /\ 1 \in 1 .. 2 - 1 /\ 1 + 1 = 2
    OBVIOUS
  <2>2. FlattenSeq(parts) = f[2] /\ f[1] = parts[1]
    BY <1>2, <2>1, FlattenIs
  <2>3. \A k \in 1 .. 2 - 1 : f[k + 1] = f[k] \o parts[k + 1]
    BY <1>2, <2>1, FlattenIs
  <2> HIDE DEF f
  <2>4. f[2] = f[1] \o parts[2]
    BY <2>1, <2>3
  <2> QED BY <1>2, <2>2, <2>4
<1>3. CASE Len(parts) = 3
  <2>1. 3 \in Nat \ {0} /\ 1 \in 1 .. 3 - 1 /\ 2 \in 1 .. 3 - 1 /\ 1 + 1 = 2 /\ 2 + 1 = 3
    OBVIOUS
  <2>2. FlattenSeq(parts) = f[3] /\ f[1] = parts[1]
    BY <1>3, <2>1, FlattenIs
  <2>3. \A k \in 1 .. 3 - 1 : f[k + 1] = f[k] \o parts[k + 1]
    BY <1>3, <2>1, FlattenIs
  <2> HIDE DEF f
  <2>4. f[2] = f[1] \o parts[2]
    BY <2>1, <2>3
  <2>5. f[3] = f[2] \o parts[3]
    BY <2>1, <2>3
  <2> QED BY <1>3, <2>2, <2>4, <2>5
<1> QED BY <1>1, <1>2, <1>3

\* Parts of at most size characters each, put together.
LEMMA FlattenType ==
  ASSUME NEW S, NEW parts, NEW n \in Nat \ {0}, Len(parts) = n, NEW size \in Nat,
         \A k \in 1 .. n : parts[k] \in Seq(S) /\ Len(parts[k]) <= size
  PROVE  FlattenSeq(parts) \in Seq(S) /\ Len(FlattenSeq(parts)) <= n * size
<1> DEFINE f == FlatOf(parts)
           Good == {k \in Nat : f[k + 1] \in Seq(S) /\ Len(f[k + 1]) <= (k + 1) * size}
<1>1. 0 \in Good
  <2>1. 1 \in 1 .. n /\ 0 + 1 = 1 /\ (0 + 1) * size = size
    OBVIOUS
  <2>2. f[1] = parts[1]
    BY FlattenIs
  <2> HIDE DEF f
  <2> QED BY <2>1, <2>2
<1>2. ASSUME NEW k \in Nat, k < n - 1, k \in Good PROVE k + 1 \in Good
  <2>1. k + 1 \in 1 .. n - 1 /\ k + 2 \in 1 .. n /\ (k + 1) + 1 = k + 2
    BY <1>2
  <2>2. f[k + 2] = f[k + 1] \o parts[k + 2]
    <3>1. \A j \in 1 .. n - 1 : f[j + 1] = f[j] \o parts[j + 1]
      BY FlattenIs
    <3> HIDE DEF f
    <3>2. f[(k + 1) + 1] = f[k + 1] \o parts[(k + 1) + 1]
      BY <2>1, <3>1
    <3> QED BY <2>1, <3>2
  <2> DEFINE front == f[k + 1]  part == parts[k + 2]
  <2>3. front \in Seq(S) /\ Len(front) <= (k + 1) * size
    BY <1>2
  <2>4. part \in Seq(S) /\ Len(part) <= size
    BY <2>1
  <2> HIDE DEF front, part, f
  <2>5. front \o part \in Seq(S)
    BY <2>3, <2>4
  <2>6. Len(front \o part) = Len(front) + Len(part)
    BY <2>3, <2>4, ConcatProperties
  <2>7. (k + 2) * size = (k + 1) * size + size /\ (k + 1) * size \in Nat
    OBVIOUS
  <2>8. Len(front \o part) <= (k + 2) * size
    <3> DEFINE p == (k + 1) * size  q == (k + 2) * size  i == Len(front)  j == Len(part)
    <3>1. p \in Nat /\ q = p + size /\ i \in Nat /\ j \in Nat /\ i <= p /\ j <= size
      BY <2>3, <2>4, <2>7
    <3> HIDE DEF p, q, i, j
    <3>2. i + j <= q
      BY <3>1
    <3> QED BY <2>6, <3>2 DEF i, j, q
  <2>9. f[k + 2] \in Seq(S) /\ Len(f[k + 2]) <= (k + 2) * size
    BY <2>2, <2>5, <2>8 DEF front, part
  <2>10. f[(k + 1) + 1] \in Seq(S) /\ Len(f[(k + 1) + 1]) <= ((k + 1) + 1) * size
    BY <2>1, <2>9
  <2> QED BY ONLY <2>10, k + 1 \in Nat
<1> HIDE DEF Good
<1>3. n - 1 \in Nat /\ n - 1 \in 0 .. n - 1
  OBVIOUS
<1>4. n - 1 \in Good
  BY ONLY <1>1, <1>2, <1>3, UpTo
<1>5. f[n] \in Seq(S) /\ Len(f[n]) <= n * size
  <2>1. (n - 1) + 1 = n
    OBVIOUS
  <2> QED BY <1>4, <2>1 DEF Good
<1> QED BY <1>5, FlattenIs

-----------------------------------------------------------------------------
(* Short texts. *)

\* atoi of one and of two digits.
LEMMA AtoiFew ==
  ASSUME NEW c \in Digits, NEW d \in Digits
  PROVE  Atoi(<<d>>) = d /\ Atoi(<<c, d>>) = 10 * c + d
<1>1. c \in Nat /\ d \in Nat
  BY DEF Digits
<1>2. <<>> \in Seq(Digits) /\ <<c>> \in Seq(Digits)
  OBVIOUS
<1>3. ASSUME NEW e \in Digits, e \in Nat PROVE Atoi(<<e>>) = e
  <2>1. Append(<<>>, e) = <<e>>
    OBVIOUS
  <2>2. Atoi(Append(<<>>, e)) = 10 * Atoi(<<>>) + e
    BY <1>2, AtoiAppend
  <2> QED BY <1>3, <2>1, <2>2, AtoiEmpty
<1>4. Append(<<c>>, d) = <<c, d>>
  <2>1. <<c, d>> \in Seq(Digits) /\ Len(<<c, d>>) = 2 /\ <<c, d>>[1] = c /\ <<c, d>>[2] = d
    OBVIOUS
  <2>2. /\ Append(<<c>>, d) \in Seq(Digits) /\ Len(Append(<<c>>, d)) = 2
        /\ Append(<<c>>, d)[1] = c /\ Append(<<c>>, d)[2] = d
    BY <1>2, AppendProperties
  <2> DEFINE s == Append(<<c>>, d)  t == <<c, d>>
  <2> HIDE DEF s, t
  <2>3. \A k \in 1 .. Len(s) : s[k] = t[k]
    <3>1. \A k \in 1 .. 2 : k = 1 \/ k = 2
      OBVIOUS
    <3> QED BY <2>1, <2>2, <3>1 DEF s, t
  <2> QED BY ONLY <2>1, <2>2, <2>3, SeqEqual DEF s, t
<1>5. Atoi(Append(<<c>>, d)) = 10 * Atoi(<<c>>) + d
  BY <1>2, AtoiAppend
<1> QED BY <1>1, <1>3, <1>4, <1>5

\* A number of up to nine digits is printed with digits, as many as it was
\* given room if it has no more.
LEMMA PrintedType ==
  ASSUME NEW number \in Nat, number < 10^9, NEW n \in 1 .. 9
  PROVE  /\ Printed(number, n) \in Seq(Digits) /\ Len(Printed(number, n)) \in n .. 9
         /\ number < 10^n => Len(Printed(number, n)) = n
<1> DEFINE w == IF Width(number) > n THEN Width(number) ELSE n
           text == [k \in 1 .. w |-> (number \div 10^(w - k)) % 10]
<1>1. Width(number) \in 1 .. 9
  <2>1. 9 \in 1 .. 9
    OBVIOUS
  <2> QED BY <2>1, WidthFits
<1>2. w \in n .. 9 /\ w \in Nat
  BY <1>1
<1>3. Printed(number, n) = text
  BY PrintedNumber DEF Decimal
<1>4. number < 10^n => w = n
  <2>1. number < 10^n => Width(number) \in 1 .. n
    BY WidthFits
  <2> QED BY <2>1
<1> HIDE DEF w
<1>5. ASSUME NEW k \in 1 .. w PROVE (number \div 10^(w - k)) % 10 \in Digits
  <2>1. w - k \in 0 .. 9 /\ 0 \in 0 .. w - k
    BY <1>2
  <2> DEFINE p == 10^(w - k)
  <2>2. p \in Nat
    BY <2>1, PowersGrow
  <2>3. 0 < p
    <3>1. 10^0 \in Nat /\ 0 < 10^0 /\ 10^0 <= 10^(w - k)
      BY <2>1, PowersGrow
    <3> DEFINE one == 10^0
    <3>2. one \in Nat /\ 0 < one /\ one <= p
      BY <3>1
    <3> HIDE DEF p, one
    <3> QED BY <2>2, <3>2
  <2> HIDE DEF p
  <2>4. number \div p \in Nat
    BY <2>2, <2>3
  <2>5. (number \div p) % 10 \in 0 .. 9
    BY <2>4
  <2> QED BY <2>5 DEF p, Digits
<1>6. text \in Seq(Digits) /\ Len(text) = w
  BY <1>2, <1>5
<1> QED BY <1>2, <1>3, <1>4, <1>6

\* Digits, and digits with a sign in front of them.
LEMMA WithSign ==
  ASSUME NEW text \in Seq(Digits), Len(text) \in 1 .. 9
  PROVE  /\ text \in Seq(0 .. MinusChar) /\ Len(text) \in 1 .. 10
         /\ <<MinusChar>> \o text \in Seq(0 .. MinusChar)
         /\ Len(<<MinusChar>> \o text) \in 1 .. 10
<1> DEFINE minus == <<MinusChar>>
<1>1. minus \in Seq(0 .. MinusChar) /\ Len(minus) = 1 /\ text \in Seq(0 .. MinusChar)
  BY DEF MinusChar, Digits
<1> HIDE DEF minus
<1>2. minus \o text \in Seq(0 .. MinusChar) /\ Len(minus \o text) = Len(minus) + Len(text)
  BY <1>1
<1>3. Len(text) \in 1 .. 10 /\ Len(minus \o text) \in 1 .. 10
  <2> DEFINE l == Len(text)  k == Len(minus \o text)
  <2>1. l \in 1 .. 9 /\ k = 1 + l
    BY <1>1, <1>2
  <2> HIDE DEF l, k
  <2>2. l \in 1 .. 10 /\ k \in 1 .. 10
    BY <2>1
  <2> QED BY <2>2 DEF l, k
<1> QED BY <1>1, <1>2, <1>3 DEF minus

\* A number of up to nine digits, printed with its sign.
LEMMA PrintedSigned ==
  ASSUME NEW number \in Int, -(10^9) < number, number < 10^9, NEW n \in 1 .. 9
  PROVE  /\ Printed(number, n) \in Seq(0 .. MinusChar)
         /\ Len(Printed(number, n)) \in 1 .. 10
<1>1. CASE number < 0
  <2> DEFINE size == -number  p == 10^9  text == Decimal(size, n - 1)
  <2>1. size \in Nat /\ size < p
    <3>1. p \in Nat /\ -p < number
      OBVIOUS
    <3> HIDE DEF p
    <3> QED BY <1>1, <3>1
  <2> HIDE DEF size, p
  <2>2. text \in Seq(Digits) /\ Len(text) \in 1 .. 9
    <3>1. CASE n = 1
      <4>1. Width(size) \in 1 .. 9
        <5>1. 9 \in 1 .. 9
          OBVIOUS
        <5> QED BY <2>1, <5>1, WidthFits DEF p
      <4>2. Decimal(size, 0) = Decimal(size, 1)
        <5>1. (IF Width(size) > 0 THEN Width(size) ELSE 0) = (IF Width(size) > 1 THEN Width(size) ELSE 1)
          BY <4>1
        <5> QED BY <5>1 DEF Decimal
      <4>3. text = Printed(size, 1)
        BY <2>1, <3>1, <4>2, PrintedNumber
      <4>4. 1 \in 1 .. 9
        OBVIOUS
      <4> QED BY <2>1, <4>3, <4>4, PrintedType DEF p
    <3>2. CASE n # 1
      <4>1. n - 1 \in 1 .. 9
        BY <3>2
      <4>2. text = Printed(size, n - 1)
        BY <2>1, PrintedNumber
      <4>3. text \in Seq(Digits) /\ Len(text) \in n - 1 .. 9
        BY <2>1, <4>1, <4>2, PrintedType DEF p
      <4> HIDE DEF text
      <4>4. Len(text) \in 1 .. 9
        <5> DEFINE l == Len(text)
        <5>1. l \in n - 1 .. 9
          BY <4>3
        <5> HIDE DEF l
        <5>2. l \in 1 .. 9
          BY <4>1, <5>1
        <5> QED BY <5>2 DEF l
      <4> QED BY <4>3, <4>4
    <3> QED BY <3>1, <3>2
  <2>3. Printed(number, n) = <<MinusChar>> \o text
    BY <1>1 DEF Printed, size
  <2> HIDE DEF text
  <2> QED BY <2>2, <2>3, WithSign
<1>2. CASE ~(number < 0)
  <2> DEFINE text == Printed(number, n)
  <2>1. number \in Nat
    BY <1>2
  <2>2. text \in Seq(Digits) /\ Len(text) \in n .. 9
    BY <2>1, PrintedType
  <2> HIDE DEF text
  <2>3. Len(text) \in 1 .. 9
    <3> DEFINE l == Len(text)
    <3>1. l \in n .. 9
      BY <2>2
    <3> HIDE DEF l
    <3>2. l \in 1 .. 9
      BY <3>1
    <3> QED BY <3>2 DEF l
  <2> QED BY <2>2, <2>3, WithSign DEF text
<1> QED BY <1>1, <1>2

\* A number below 100, printed without leading zeros, is read again.
LEMMA AtoiPrinted ==
  ASSUME NEW number \in 0 .. 99
  PROVE  Atoi(Printed(number, 1)) = number
<1>1. 10^1 = 10 /\ 10^2 = 100 /\ 10^0 = 1
  OBVIOUS
<1>a. Printed(number, 1) = Decimal(number, 1)
  BY PrintedNumber
<1>2. Width(number) = IF number < 10 THEN 1 ELSE 2
  <2>1. 1 \in 1 .. 9 /\ 2 \in 1 .. 9 /\ number \in Nat /\ number < 10^2
    BY <1>1
  <2>2. CASE number < 10
    <3>1. Width(number) \in 1 .. 1
      BY <1>1, <2>1, <2>2, WidthFits
    <3> QED BY <2>2, <3>1
  <2>3. CASE ~(number < 10)
    <3>1. Width(number) \in 1 .. 2 /\ number < 10^Width(number)
      BY <2>1, WidthFits
    <3>2. Width(number) # 1
      BY <1>1, <2>3, <3>1
    <3> QED BY <2>3, <3>1, <3>2
  <2> QED BY <2>2, <2>3
<1>3. CASE number < 10
  <2>1. Printed(number, 1) = [k \in 1 .. 1 |-> (number \div 10^(1 - k)) % 10]
    BY <1>a, <1>2, <1>3 DEF Decimal
  <2>2. \A k \in 1 .. 1 : (number \div 10^(1 - k)) % 10 = number
    BY <1>1, <1>3
  <2>3. Printed(number, 1) = <<number>>
    BY <2>1, <2>2
  <2>4. number \in Digits
    BY <1>3 DEF Digits
  <2> QED BY <2>3, <2>4, AtoiFew
<1>4. CASE ~(number < 10)
  <2> DEFINE c == number \div 10  d == number % 10
  <2>1. Printed(number, 1) = [k \in 1 .. 2 |-> (number \div 10^(2 - k)) % 10]
    BY <1>a, <1>2, <1>4 DEF Decimal
  <2>2. (number \div 10^(2 - 1)) % 10 = c /\ (number \div 10^(2 - 2)) % 10 = d
    <3>1. (number \div 10) % 10 = number \div 10 /\ number \div 1 = number
      OBVIOUS
    <3> QED BY <1>1, <3>1
  <2>3. c \in Digits /\ d \in Digits /\ 10 * c + d = number
    BY DEF Digits
  <2> HIDE DEF c, d
  <2>4. Printed(number, 1) = <<c, d>>
    BY <2>1, <2>2
  <2> QED BY <2>3, <2>4, AtoiFew
<1> QED BY <1>3, <1>4

\* Four places are two and two.
LEMMA FourPlaces ==
  ASSUME NEW h \in 0 .. 99, NEW m \in 0 .. 99
  PROVE  Printed(100 * h + m, 4) = Printed(h, 2) \o Printed(m, 2)
<1> DEFINE number == 100 * h + m
<1>1. 10^0 = 1 /\ 10^1 = 10 /\ 10^2 = 100 /\ 10^3 = 1000 /\ 10^4 = 10000
  OBVIOUS
<1>2. /\ number \in Nat /\ number < 10^4 /\ h \in Nat /\ h < 10^2 /\ m \in Nat /\ m < 10^2
      /\ 4 \in 1 .. 9 /\ 2 \in 1 .. 9
  BY <1>1
<1>3. Printed(number, 4) = [k \in 1 .. 4 |-> (number \div 10^(4 - k)) % 10]
  BY <1>2, PrintedIs
<1>4. /\ Printed(h, 2) = [k \in 1 .. 2 |-> (h \div 10^(2 - k)) % 10]
      /\ Printed(m, 2) = [k \in 1 .. 2 |-> (m \div 10^(2 - k)) % 10]
  BY <1>2, PrintedIs
<1>5. /\ (number \div 1000) % 10 = (h \div 10) % 10 /\ (number \div 100) % 10 = (h \div 1) % 10
      /\ (number \div 10) % 10 = (m \div 10) % 10 /\ (number \div 1) % 10 = (m \div 1) % 10
  BY SMTT(40)
<1> HIDE DEF number
<1> DEFINE d1 == (number \div 1000) % 10  d2 == (number \div 100) % 10
           d3 == (number \div 10) % 10    d4 == (number \div 1) % 10
<1>6. Printed(number, 4) = <<d1, d2, d3, d4>>
  <2>1. 4 - 1 = 3 /\ 4 - 2 = 2 /\ 4 - 3 = 1 /\ 4 - 4 = 0
    OBVIOUS
  <2> QED BY <1>1, <1>3, <2>1
<1>7. Printed(h, 2) = <<d1, d2>> /\ Printed(m, 2) = <<d3, d4>>
  <2>1. 2 - 1 = 1 /\ 2 - 2 = 0
    OBVIOUS
  <2> QED BY <1>1, <1>4, <1>5, <2>1
<1> HIDE DEF d1, d2, d3, d4
<1>8. <<d1, d2>> \o <<d3, d4>> = <<d1, d2, d3, d4>>
  <2> DEFINE whole == <<d1, d2, d3, d4>>  S == {d1, d2, d3, d4}
             s == <<d1, d2>>  t == <<d3, d4>>
  <2>1. /\ s \in Seq(S) /\ Len(s) = 2 /\ s[1] = d1 /\ s[2] = d2
        /\ t \in Seq(S) /\ Len(t) = 2 /\ t[1] = d3 /\ t[2] = d4
        /\ whole \in Seq(S) /\ Len(whole) = 4
        /\ whole[1] = d1 /\ whole[2] = d2 /\ whole[3] = d3 /\ whole[4] = d4
    OBVIOUS
  <2> HIDE DEF whole, S, s, t
  <2>2. /\ s \o t \in Seq(S) /\ Len(s \o t) = 4
        /\ \A k \in 1 .. 4 : (s \o t)[k] = IF k <= 2 THEN s[k] ELSE t[k - 2]
    <3>1. /\ s \o t \in Seq(S) /\ Len(s \o t) = Len(s) + Len(t)
          /\ \A k \in 1 .. Len(s) + Len(t) :
               (s \o t)[k] = IF k <= Len(s) THEN s[k] ELSE t[k - Len(s)]
      BY ONLY <2>1, ConcatProperties
    <3> DEFINE cat == s \o t
    <3> HIDE DEF cat
    <3>2. cat \in Seq(S) /\ Len(cat) = 4
      BY <2>1, <3>1 DEF cat
    <3>3. \A k \in 1 .. 4 : cat[k] = IF k <= 2 THEN s[k] ELSE t[k - 2]
      <4>1. Len(s) = 2 /\ Len(t) = 2 /\ 2 + 2 = 4
        BY <2>1
      <4>2. \A k \in 1 .. Len(s) + Len(t) :
              cat[k] = IF k <= Len(s) THEN s[k] ELSE t[k - Len(s)]
        BY <3>1 DEF cat
      <4> QED BY <4>1, <4>2
    <3> QED BY <3>2, <3>3 DEF cat
  <2>3. \A k \in 1 .. 4 : k = 1 \/ k = 2 \/ k = 3 \/ k = 4
    OBVIOUS
  <2>4. \A k \in 1 .. 4 : (s \o t)[k] = whole[k]
    BY ONLY <2>1, <2>2, <2>3
  <2>5. s \o t = whole
    BY ONLY <2>1, <2>2, <2>4, SeqEqual
  <2> QED BY <2>5 DEF whole, s, t
<1> QED BY <1>6, <1>7, <1>8 DEF number

\* A number of two digits.
LEMMA PrintedTwo ==
  ASSUME NEW c \in Digits, NEW d \in Digits
  PROVE  /\ Printed(10 * c + d, 2) = <<c, d>>
         /\ c # 0 => Printed(10 * c + d, 1) = <<c, d>>
<1> DEFINE number == 10 * c + d
<1>1. c \in 0 .. 9 /\ d \in 0 .. 9
  BY DEF Digits
<1>2. number \in Nat /\ number < 10^2 /\ 10^1 = 10 /\ 2 \in 1 .. 9
  <2>1. 10^2 = 100 /\ 10^1 = 10
    OBVIOUS
  <2> QED BY <1>1, <2>1
<1>3. <<c, d>> \in Seq(Digits) /\ Len(<<c, d>>) = 2
  OBVIOUS
<1>4. Atoi(<<c, d>>) = number
  BY AtoiFew
<1>5. Printed(number, 2) = <<c, d>>
  BY <1>2, <1>3, <1>4, PrintedAtoi
<1>6. ASSUME c # 0 PROVE Printed(number, 1) = Printed(number, 2)
  <2>1. Width(number) \in 1 .. 2 /\ number < 10^Width(number)
    BY <1>2, WidthFits
  <2>2. ~(number < 10)
    BY <1>1, <1>6
  <2>3. Width(number) # 1
    BY <1>2, <2>1, <2>2
  <2>4. Width(number) = 2
    BY <2>1, <2>3
  <2> HIDE DEF number
  <2> QED BY <1>2, <2>4, PrintedNumber DEF Decimal
<1> QED BY <1>5, <1>6

\* Two places are read again.
LEMMA AtoiTwo ==
  ASSUME NEW number \in 0 .. 99
  PROVE  Atoi(Printed(number, 2)) = number
<1> DEFINE c == number \div 10  d == number % 10
<1>1. c \in Digits /\ d \in Digits /\ number = 10 * c + d
  BY DEF Digits
<1> HIDE DEF c, d
<1>2. Printed(number, 2) = <<c, d>> /\ Atoi(<<c, d>>) = number
  BY <1>1, PrintedTwo, AtoiFew
<1> QED BY <1>2

\* As many digits as the number has.
LEMMA PrintedWidth ==
  ASSUME NEW n \in 1 .. 9, NEW number \in Nat, number < 10^n
  PROVE  Len(Printed(number, 1)) \in 1 .. n
<1> DEFINE w == IF Width(number) > 1 THEN Width(number) ELSE 1
<1>1. Width(number) \in 1 .. n
  BY WidthFits
<1>2. w \in 1 .. n
  BY <1>1
<1>3. Printed(number, 1) = [k \in 1 .. w |-> (number \div 10^(w - k)) % 10]
  BY PrintedNumber DEF Decimal
<1> HIDE DEF w
<1>4. w \in Nat
  BY <1>2
<1>5. Len(Printed(number, 1)) = w
  BY <1>3, <1>4
<1> QED BY <1>2, <1>5
=============================================================================
