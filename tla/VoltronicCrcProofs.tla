-------------------------- MODULE VoltronicCrcProofs --------------------------
(***************************************************************************)
(* Theorems about VoltronicCrcTable for every value of its constants: any  *)
(* text of any length, and any byte of its frame changed to any other.     *)
(* P18TextProofs has the induction on natural numbers.                     *)
(***************************************************************************)
EXTENDS VoltronicCrcTable, P18TextProofs

-----------------------------------------------------------------------------
(* Bits and words. *)

LEMMA Halves ==
  ASSUME NEW w \in Nat
  PROVE  /\ w = (w % 2) + (2 * (w \div 2)) /\ w \div 2 \in Nat /\ w % 2 \in {0, 1}
  OBVIOUS

LEMMA PutIn ==
  ASSUME NEW rest \in Nat, NEW bit \in {0, 1}, NEW w, w = 2 * rest + bit
  PROVE  w \in Nat /\ w % 2 = bit /\ w \div 2 = rest
  OBVIOUS

LEMMA DivTwice ==
  ASSUME NEW w \in Nat, NEW p \in Nat \ {0}
  PROVE  (w \div p) \div 2 = w \div (2 * p) /\ w \div p \in Nat
  OBVIOUS

\* The powers of two that count.
LEMMA PowersOfTwo ==
  /\ \A k \in 0 .. 16 : 2^k \in Nat \ {0}
  /\ \A k \in Places : 2^(k + 1) = 2 * 2^k
<1> DEFINE power == [k \in 0 .. 16 |-> 2^k]
<1>1. /\ power[0] = 1 /\ power[1] = 2 /\ power[2] = 4 /\ power[3] = 8 /\ power[4] = 16
      /\ power[5] = 32 /\ power[6] = 64 /\ power[7] = 128 /\ power[8] = 256
      /\ power[9] = 512 /\ power[10] = 1024 /\ power[11] = 2048 /\ power[12] = 4096
      /\ power[13] = 8192 /\ power[14] = 16384 /\ power[15] = 32768 /\ power[16] = 65536
  OBVIOUS
<1>2. \A k \in 0 .. 16 : 2^k = power[k]
  OBVIOUS
<1>3. \A k \in Places : k \in 0 .. 16 /\ k + 1 \in 0 .. 16
  BY DEF Places
<1> HIDE DEF power
<1>4. \A k \in 0 .. 16 : power[k] \in Nat \ {0}
  BY <1>1
<1>5. \A k \in Places : power[k + 1] = 2 * power[k]
  BY <1>1 DEF Places
<1> QED BY <1>2, <1>3, <1>4, <1>5

\* What a voltronic_crc_t holds, without an interval: the provers go through one.
LEMMA CrcIs ==
  ASSUME NEW w
  PROVE  w \in CrcValues <=> w \in Nat /\ w < 65536
<1> DEFINE top == 65535
<1>1. CrcValues = 0 .. top
  BY DEF CrcValues
<1>2. top \in Nat /\ top + 1 = 65536
  OBVIOUS
<1> HIDE DEF top
<1>3. w \in 0 .. top <=> w \in Nat /\ w < top + 1
  BY <1>2
<1> QED BY <1>1, <1>2, <1>3

\* A bit is one, and what lies above a bit.
LEMMA BitIs ==
  ASSUME NEW w \in Nat, NEW k \in Places
  PROVE  /\ Bit(w, k) \in {0, 1} /\ w \div 2^k \in Nat
         /\ w \div 2^(k + 1) \in Nat
         /\ w \div 2^k = (2 * (w \div 2^(k + 1))) + Bit(w, k)
<1> DEFINE p == 2^k  q == 2^(k + 1)
<1>0. k \in 0 .. 16
  BY DEF Places
<1>1. p \in Nat \ {0} /\ q = 2 * p
  BY <1>0, PowersOfTwo
<1> HIDE DEF p, q
<1>2. (w \div p) \div 2 = w \div q /\ w \div p \in Nat
  BY <1>1, DivTwice
<1>3. /\ w \div p = ((w \div p) % 2) + (2 * (w \div q)) /\ w \div q \in Nat
      /\ (w \div p) % 2 \in {0, 1}
  BY <1>2, Halves
<1>4. Bit(w, k) = (w \div p) % 2
  BY DEF Bit, p
<1> QED BY <1>2, <1>3, <1>4 DEF p, q

\* The words that Word goes through.
High16(bits, high) ==
  high = [n \in 0 .. 16 |-> IF n = 0 THEN 0 ELSE 2 * high[n - 1] + bits[16 - n]]

LEMMA HighExists ==
  ASSUME NEW bits
  PROVE  \E high : High16(bits, high)
<1> DEFINE Up(n, f) == f = [k \in 0 .. n |-> IF k = 0 THEN 0 ELSE 2 * f[k - 1] + bits[16 - k]]
           Good == {n \in Nat : \E f : Up(n, f)}
<1>1. 0 \in Good
  <2> DEFINE f == [k \in 0 .. 0 |-> 0]
  <2>1. Up(0, f)
    OBVIOUS
  <2> QED BY <2>1
<1>2. ASSUME NEW n \in Nat, n < 16, n \in Good PROVE n + 1 \in Good
  <2>1. PICK f : Up(n, f)
    BY <1>2
  <2> DEFINE g == [k \in 0 .. n + 1 |-> IF k = n + 1 THEN 2 * f[n] + bits[16 - (n + 1)] ELSE f[k]]
  <2>2. \A k \in 0 .. n : g[k] = f[k]
    OBVIOUS
  <2>3. \A k \in 0 .. n : f[k] = IF k = 0 THEN 0 ELSE 2 * f[k - 1] + bits[16 - k]
    BY <2>1
  <2>4. ASSUME NEW k \in 0 .. n + 1
        PROVE  g[k] = IF k = 0 THEN 0 ELSE 2 * g[k - 1] + bits[16 - k]
    <3>1. CASE k = n + 1
      <4>1. g[k] = 2 * f[n] + bits[16 - k] /\ g[k - 1] = f[n] /\ k # 0
        BY <3>1
      <4> QED BY <4>1
    <3>2. CASE k # n + 1
      <4>1. k \in 0 .. n /\ (k # 0 => k - 1 \in 0 .. n)
        BY <3>2
      <4> QED BY <2>2, <2>3, <4>1
    <3> QED BY <3>1, <3>2
  <2>5. g = [k \in 0 .. n + 1 |-> IF k = 0 THEN 0 ELSE 2 * g[k - 1] + bits[16 - k]]
    BY <2>4
  <2> HIDE DEF g
  <2>6. Up(n + 1, g)
    BY <2>5
  <2> HIDE DEF Up
  <2>7. n + 1 \in Nat /\ \E h : Up(n + 1, h)
    BY <2>6
  <2> QED BY <2>7
<1> HIDE DEF Good
<1>3. 16 \in Good
  BY ONLY <1>1, <1>2, UpTo, 16 \in Nat
<1> QED BY <1>3 DEF Good, High16

\* The word with given bits has them, and no others.
LEMMA WordHasBits ==
  ASSUME NEW bits \in [Places -> {0, 1}]
  PROVE  /\ Word(bits) \in CrcValues
         /\ \A k \in Places : Bit(Word(bits), k) = bits[k]
<1> DEFINE high == CHOOSE f : High16(bits, f)
<1>1. Word(bits) = high[16]
  BY DEF Word, High16
<1>2. High16(bits, high)
  BY HighExists
<1> HIDE DEF high
<1>3. /\ high[0] = 0
      /\ \A n \in 0 .. 15 : high[n + 1] = 2 * high[n] + bits[15 - n]
  <2>1. \A n \in 0 .. 16 : high[n] = IF n = 0 THEN 0 ELSE 2 * high[n - 1] + bits[16 - n]
    BY <1>2 DEF High16
  <2>2. ASSUME NEW n \in 0 .. 15 PROVE high[n + 1] = 2 * high[n] + bits[15 - n]
    <3>1. n + 1 \in 0 .. 16 /\ n + 1 # 0 /\ (n + 1) - 1 = n /\ 16 - (n + 1) = 15 - n
      OBVIOUS
    <3> QED BY <2>1, <3>1
  <2> QED BY <2>1, <2>2
<1>4. \A n \in 0 .. 15 : 15 - n \in Places /\ bits[15 - n] \in {0, 1}
  BY DEF Places
\* They stay below the powers of two.
<1> DEFINE Small == {n \in Nat : high[n] \in Nat /\ high[n] < 2^n}
<1>5. 0 \in Small
  BY <1>3
<1>6. ASSUME NEW n \in Nat, n < 16, n \in Small PROVE n + 1 \in Small
  <2> DEFINE p == 2^n  q == 2^(n + 1)
  <2>1. n \in 0 .. 15 /\ n \in Places /\ n \in 0 .. 16
    BY <1>6 DEF Places
  <2>2. p \in Nat /\ q = 2 * p
    BY <2>1, PowersOfTwo
  <2> HIDE DEF p, q
  <2>3. high[n + 1] = 2 * high[n] + bits[15 - n] /\ bits[15 - n] \in {0, 1}
    BY <1>3, <1>4, <2>1
  <2>4. high[n] \in Nat /\ high[n] < p
    BY <1>6 DEF p
  <2>5. high[n + 1] \in Nat /\ high[n + 1] < q
    BY <2>2, <2>3, <2>4
  <2> QED BY <2>5 DEF q
<1> HIDE DEF Small
<1>7. \A n \in 0 .. 16 : n \in Small
  BY ONLY <1>5, <1>6, UpTo, 16 \in Nat
<1>8. \A n \in 0 .. 16 : high[n] \in Nat
  BY <1>7 DEF Small
<1>9. high[16] < 65536
  <2>1. high[16] < 2^16
    BY <1>7 DEF Small
  <2> QED BY <2>1
\* Dropping the lowest bits gives the word made of the others.
<1> DEFINE Same == {k \in Nat : high[16] \div 2^k = high[16 - k]}
<1>10. 0 \in Same
  <2>1. high[16] \div 1 = high[16 - 0]
    BY <1>8
  <2> QED BY <2>1
<1>11. ASSUME NEW k \in Nat, k < 16, k \in Same PROVE k + 1 \in Same
  <2> DEFINE p == 2^k  q == 2^(k + 1)
  <2>1. k \in Places /\ k \in 0 .. 16 /\ 15 - k \in 0 .. 15 /\ (15 - k) + 1 = 16 - k /\ 15 - (15 - k) = k
    BY <1>11 DEF Places
  <2>2. p \in Nat \ {0} /\ q = 2 * p
    BY <2>1, PowersOfTwo
  <2> HIDE DEF p, q
  <2>3. high[16 - k] = 2 * high[15 - k] + bits[k] /\ bits[k] \in {0, 1} /\ high[15 - k] \in Nat
    BY <1>3, <1>8, <2>1
  <2>4. high[16 - k] \div 2 = high[15 - k]
    BY <2>3, PutIn
  <2>5. high[16] \div p = high[16 - k]
    BY <1>11 DEF p
  <2>8. high[16] \in Nat
    BY <1>8
  <2>6. (high[16] \div p) \div 2 = high[16] \div q
    <3> DEFINE whole == high[16]
    <3>1. whole \in Nat
      BY <2>8
    <3> HIDE DEF whole
    <3>2. (whole \div p) \div 2 = whole \div q
      BY <2>2, <3>1, DivTwice
    <3> QED BY <3>2 DEF whole
  <2>7. 16 - (k + 1) = 15 - k
    BY <2>1
  <2> QED BY <2>4, <2>5, <2>6, <2>7 DEF q
<1> HIDE DEF Same
<1>12. \A k \in 0 .. 16 : k \in Same
  BY ONLY <1>10, <1>11, UpTo, 16 \in Nat
<1>13. ASSUME NEW k \in Places PROVE Bit(high[16], k) = bits[k]
  <2>0. k \in 0 .. 16
    BY DEF Places
  <2>1. high[16] \div 2^k = high[16 - k]
    BY <1>12, <2>0 DEF Same
  <2>2. k \in 0 .. 15 /\ 15 - k \in 0 .. 15 /\ (15 - k) + 1 = 16 - k /\ 15 - (15 - k) = k
    BY DEF Places
  <2>3. high[16 - k] = 2 * high[15 - k] + bits[k] /\ bits[k] \in {0, 1} /\ high[15 - k] \in Nat
    BY <1>3, <1>8, <2>2
  <2> DEFINE w == high[16 - k]  rest == high[15 - k]  bit == bits[k]
  <2>4. w = 2 * rest + bit /\ bit \in {0, 1} /\ rest \in Nat
    BY <2>3
  <2>5. Bit(high[16], k) = w % 2
    BY <2>1 DEF Bit
  <2> HIDE DEF w, rest, bit
  <2>6. w % 2 = bit
    BY <2>4, PutIn
  <2> QED BY <2>5, <2>6 DEF bit
<1>14. high[16] \in CrcValues
  <2>1. high[16] \in Nat
    BY <1>8
  <2> QED BY <1>9, <2>1, CrcIs
<1> QED BY <1>1, <1>13, <1>14

\* Two words with the same bits are the same.
LEMMA SameBits ==
  ASSUME NEW a \in CrcValues, NEW b \in CrcValues,
         \A k \in Places : Bit(a, k) = Bit(b, k)
  PROVE  a = b
<1>0. a \in Nat /\ a < 65536 /\ b \in Nat /\ b < 65536
  BY CrcIs
<1> DEFINE Good == {k \in Nat : a \div 2^(16 - k) = b \div 2^(16 - k)}
<1>1. 0 \in Good
  <2>1. a \div 65536 = 0 /\ b \div 65536 = 0
    BY <1>0
  <2>2. a \div 2^16 = b \div 2^16
    BY <2>1
  <2> QED BY <2>2
<1>2. ASSUME NEW k \in Nat, k < 16, k \in Good PROVE k + 1 \in Good
  <2> DEFINE j == 15 - k
  <2>1. j \in Places /\ j + 1 = 16 - k /\ j = 16 - (k + 1)
    <3>1. k \in Nat /\ k < 16
      BY <1>2
    <3> HIDE DEF Good
    <3> QED BY <3>1 DEF Places
  <2>4. a \in Nat /\ b \in Nat
    BY <1>0
  <2> HIDE DEF j
  <2>2. a \div 2^(j + 1) = b \div 2^(j + 1)
    BY <1>2, <2>1
  <2>3. a \div 2^j = b \div 2^j
    <3>1. a \div 2^j = (2 * (a \div 2^(j + 1))) + Bit(a, j)
      BY <2>1, <2>4, BitIs
    <3>2. b \div 2^j = (2 * (b \div 2^(j + 1))) + Bit(b, j)
      BY <2>1, <2>4, BitIs
    <3>3. Bit(a, j) = Bit(b, j)
      BY <2>1
    <3> QED BY <2>2, <3>1, <3>2, <3>3
  <2> QED BY <2>1, <2>3
<1> HIDE DEF Good
<1>3. 16 \in Good
  BY ONLY <1>1, <1>2, UpTo, 16 \in Nat
<1>4. a \div 2^0 = b \div 2^0
  BY <1>3 DEF Good
<1>5. a \div 1 = b \div 1
  BY <1>4
<1> QED BY <1>0, <1>5

\* The operator ^, bit by bit.
LEMMA XorBits ==
  ASSUME NEW a \in Nat, NEW b \in Nat
  PROVE  /\ Xor(a, b) \in CrcValues
         /\ \A k \in Places : Bit(Xor(a, b), k) = IF Bit(a, k) = Bit(b, k) THEN 0 ELSE 1
<1> DEFINE bits == [k \in Places |-> IF Bit(a, k) = Bit(b, k) THEN 0 ELSE 1]
<1>1. bits \in [Places -> {0, 1}]
  OBVIOUS
<1>2. Xor(a, b) = Word(bits)
  BY DEF Xor
<1>3. \A k \in Places : bits[k] = IF Bit(a, k) = Bit(b, k) THEN 0 ELSE 1
  OBVIOUS
<1> HIDE DEF bits
<1> QED BY <1>1, <1>2, <1>3, WordHasBits

\* Bits of a word that is put together of two parts.
LEMMA SplitBits ==
  ASSUME NEW m \in Places, NEW h \in Nat, NEW l \in Nat, NEW w, w = (h * 2^m) + l, l < 2^m
  PROVE  /\ \A j \in Places : j < m => Bit(w, j) = Bit(l, j)
         /\ \A j \in Places : m + j \in Places => Bit(w, m + j) = Bit(h, j)
<1>0. m \in 0 .. 15
  BY DEF Places
<1>1. \A j \in 0 .. 16 : 2^j \in Nat \ {0}
  BY PowersOfTwo
<1>2. w \in Nat
  <2> DEFINE p == 2^m
  <2>1. p \in Nat /\ w = (h * p) + l
    BY <1>0, <1>1
  <2> HIDE DEF p
  <2> QED BY <2>1
\* The lower part.
<1> DEFINE Low1 == {j \in Nat : j <= m => w \div 2^j = (h * 2^(m - j)) + (l \div 2^j)}
<1>3. 0 \in Low1
  <2>1. w \div 1 = (h * 2^m) + (l \div 1) /\ m - 0 = m
    <3> DEFINE p == 2^m
    <3>1. p \in Nat /\ w = (h * p) + l
      BY <1>0, <1>1
    <3> HIDE DEF p
    <3>2. w \div 1 = w /\ l \div 1 = l
      BY <1>2
    <3>3. w \div 1 = (h * p) + (l \div 1)
      BY <3>1, <3>2
    <3> QED BY <1>0, <3>3 DEF p
  <2> QED BY <2>1
<1>4. ASSUME NEW j \in Nat, j < m, j \in Low1 PROVE j + 1 \in Low1
  <2> DEFINE p == 2^j  q == 2^(m - (j + 1))  pp == 2^(j + 1)  qq == 2^(m - j)
             x == w \div p  y == l \div p
  <2>0. j \in Places /\ j \in 0 .. 16 /\ m - (j + 1) \in Places /\ (m - (j + 1)) + 1 = m - j
    <3>1. j \in Nat /\ j < m
      BY <1>4
    <3> HIDE DEF Low1
    <3> QED BY <1>0, <3>1 DEF Places
  <2>1. pp = 2 * p /\ p \in Nat \ {0}
    BY <2>0, PowersOfTwo
  <2>2. qq = 2 * q /\ q \in Nat
    <3>1. 2^((m - (j + 1)) + 1) = 2 * 2^(m - (j + 1))
      BY <2>0, PowersOfTwo
    <3>2. m - (j + 1) \in 0 .. 16
      BY <2>0 DEF Places
    <3> QED BY <2>0, <3>1, <3>2, <1>1
  <2>3. x = (h * qq) + y
    <3>1. j \in Nat /\ j <= m
      <4>1. j \in Nat /\ j < m
        BY <1>4
      <4> HIDE DEF Low1
      <4> QED BY <1>0, <4>1
    <3>2. w \div 2^j = (h * 2^(m - j)) + (l \div 2^j)
      BY <1>4, <3>1
    <3> QED BY <3>2
  <2>4. x \div 2 = w \div pp /\ y \div 2 = l \div pp /\ x \in Nat /\ y \in Nat
    <3> HIDE DEF p, pp
    <3> QED BY <1>2, <2>1, DivTwice
  <2> HIDE DEF p, q, pp, qq, x, y
  <2>5. x \div 2 = (h * q) + (y \div 2)
    <3> DEFINE z == h * q
    <3>1. z \in Nat /\ h * qq = 2 * z
      BY <2>2
    <3> HIDE DEF z
    <3>2. x = (2 * z) + y
      BY <2>3, <3>1
    <3>3. x \div 2 = z + (y \div 2)
      BY <2>4, <3>1, <3>2
    <3> QED BY <3>3 DEF z
  <2> QED BY <2>4, <2>5 DEF pp, q
<1> HIDE DEF Low1
<1>5. \A j \in 0 .. m : j \in Low1
  BY ONLY <1>0, <1>3, <1>4, UpTo
<1>6. ASSUME NEW j \in Places, j < m PROVE Bit(w, j) = Bit(l, j)
  <2> DEFINE q == 2^(m - (j + 1))  qq == 2^(m - j)  y == l \div 2^j  x == w \div 2^j
  <2>1. j \in 0 .. m /\ m - (j + 1) \in Places /\ (m - (j + 1)) + 1 = m - j /\ m - (j + 1) \in 0 .. 16
    BY <1>0, <1>6 DEF Places
  <2>2. x = (h * qq) + y
    BY <1>5, <2>1 DEF Low1
  <2>3. qq = 2 * q /\ q \in Nat
    <3>1. 2^((m - (j + 1)) + 1) = 2 * 2^(m - (j + 1))
      BY <2>1, PowersOfTwo
    <3> QED BY <2>1, <3>1, <1>1
  <2>4. y \in Nat
    BY BitIs
  <2>5. Bit(w, j) = x % 2 /\ Bit(l, j) = y % 2
    BY DEF Bit
  <2> HIDE DEF q, qq, x, y
  <2>6. x % 2 = y % 2
    <3> DEFINE z == h * q
    <3>1. z \in Nat /\ h * qq = 2 * z
      BY <2>3
    <3> HIDE DEF z
    <3>2. x = (2 * z) + y
      BY <2>2, <3>1
    <3> QED BY <2>4, <3>1, <3>2
  <2> QED BY <2>5, <2>6
\* The upper part.
<1> DEFINE Up1 == {j \in Nat : m + j \in 0 .. 16 => w \div 2^(m + j) = h \div 2^j}
<1>7. 0 \in Up1
  <2>1. w \div 2^m = (h * 2^(m - m)) + (l \div 2^m)
    <3>1. m \in 0 .. m /\ m \in Nat /\ m <= m
      BY <1>0
    <3>2. m \in Low1
      BY <1>5, <3>1
    <3> QED BY <3>1, <3>2 DEF Low1
  <2>2. 2^(m - m) = 1
    <3>1. m - m = 0
      BY <1>0
    <3>2. 2^(m - m) = 2^0
      BY <3>1
    <3> QED BY <3>2
  <2>3. l \div 2^m = 0
    <3> DEFINE p == 2^m
    <3>1. p \in Nat \ {0} /\ l < p
      BY <1>0, <1>1
    <3> HIDE DEF p
    <3>2. l \div p = 0
      BY <3>1
    <3> QED BY <3>2 DEF p
  <2>4. w \div 2^m = h
    BY <2>1, <2>2, <2>3
  <2>5. m + 0 = m /\ h \div 1 = h
    BY <1>0
  <2> QED BY <2>4, <2>5
<1>8. ASSUME NEW j \in Nat, j < 16 - m, j \in Up1 PROVE j + 1 \in Up1
  <2> DEFINE p == 2^(m + j)  pp == 2^(m + (j + 1))  q == 2^j  qq == 2^(j + 1)
  <2>0. /\ m + j \in Places /\ m + j \in 0 .. 16 /\ (m + j) + 1 = m + (j + 1) /\ j \in Places
        /\ j \in 0 .. 16
    <3>1. j \in Nat /\ j < 16 - m
      BY <1>8
    <3> HIDE DEF Up1
    <3> QED BY <1>0, <3>1 DEF Places
  <2>1. p \in Nat \ {0} /\ q \in Nat \ {0} /\ pp = 2 * p /\ qq = 2 * q
    BY <2>0, PowersOfTwo
  <2>2. w \div p = h \div q
    BY <1>8, <2>0
  <2> HIDE DEF p, pp, q, qq
  <2>3. w \div pp = (w \div p) \div 2 /\ h \div qq = (h \div q) \div 2
    <3>1. (w \div p) \div 2 = w \div (2 * p) /\ (h \div q) \div 2 = h \div (2 * q)
      BY <1>2, <2>1, DivTwice
    <3> QED BY <2>1, <3>1
  <2>4. w \div pp = h \div qq
    BY <2>2, <2>3
  <2> QED BY <2>4 DEF pp, qq
<1> HIDE DEF Up1
<1>9. 16 - m \in Nat
  BY <1>0
<1>10. \A j \in 0 .. 16 - m : j \in Up1
  BY ONLY <1>9, <1>7, <1>8, UpTo
<1>11. ASSUME NEW j \in Places, m + j \in Places PROVE Bit(w, m + j) = Bit(h, j)
  <2>1. j \in 0 .. 16 - m /\ m + j \in 0 .. 16
    BY <1>0, <1>11 DEF Places
  <2>2. w \div 2^(m + j) = h \div 2^j
    BY <1>10, <2>1 DEF Up1
  <2> QED BY <2>2 DEF Bit
<1> QED BY <1>6, <1>11

\* A word that is put together of two parts, the lower one of m bits.
Parts(w, m, h, l) ==
  m \in Places /\ h \in Nat /\ l \in Nat /\ l < 2^m /\ w = (h * 2^m) + l

LEMMA PartsHaveBits ==
  ASSUME NEW w, NEW m, NEW h, NEW l, Parts(w, m, h, l)
  PROVE  /\ \A j \in Places : j < m => Bit(w, j) = Bit(l, j)
         /\ \A j \in Places : m + j \in Places => Bit(w, m + j) = Bit(h, j)
<1>1. m \in Places /\ h \in Nat /\ l \in Nat /\ l < 2^m /\ w = (h * 2^m) + l
  BY DEF Parts
<1> QED BY ONLY <1>1, SplitBits

-----------------------------------------------------------------------------
(* The bits of what calculate_voltronic_crc computes with. *)

LEMMA BitsOfZero == \A k \in Places : Bit(0, k) = 0
<1>1. ASSUME NEW k \in Places PROVE Bit(0, k) = 0
  <2> DEFINE p == 2^k
  <2>1. p \in Nat \ {0}
    <3>1. k \in 0 .. 16
      BY DEF Places
    <3> QED BY <3>1, PowersOfTwo
  <2> HIDE DEF p
  <2>2. (0 \div p) % 2 = 0
    BY <2>1
  <2> QED BY <2>2 DEF Bit, p
<1> QED BY <1>1

Nibbles == 0 .. 15

\* A nibble has four bits, and whoever has no others is one.
LEMMA NibbleBits ==
  ASSUME NEW x \in Nibbles
  PROVE  x \in CrcValues /\ \A k \in Places : k >= 4 => Bit(x, k) = 0
<1>1. x \in Nat /\ x < 16 /\ x < 65536
  BY DEF Nibbles
<1>2. Parts(x, 4, 0, x)
  BY <1>1 DEF Parts, Places
<1>3. \A j \in Places : 4 + j \in Places => Bit(x, 4 + j) = Bit(0, j)
  BY <1>2, PartsHaveBits
<1>4. ASSUME NEW k \in Places, k >= 4 PROVE Bit(x, k) = 0
  <2>1. k - 4 \in Places /\ 4 + (k - 4) = k
    BY <1>4 DEF Places
  <2> QED BY <1>3, <2>1, BitsOfZero
<1> QED BY <1>1, <1>4, CrcIs

LEMMA IsNibble ==
  ASSUME NEW x \in CrcValues, \A k \in Places : k >= 4 => Bit(x, k) = 0
  PROVE  x \in Nibbles
<1> DEFINE h == x \div 16  l == x % 16
<1>1. /\ x \in Nat /\ x < 65536
  BY CrcIs
<1>2. h \in Nat /\ l \in Nat /\ l < 16 /\ x = (h * 16) + l /\ h < 4096
  BY <1>1
<1> HIDE DEF h, l
<1>3. Parts(x, 4, h, l)
  BY <1>2 DEF Parts, Places
<1>4. \A j \in Places : 4 + j \in Places => Bit(x, 4 + j) = Bit(h, j)
  BY <1>3, PartsHaveBits
<1>5. Parts(h, 12, 0, h)
  BY <1>2 DEF Parts, Places
<1>6. \A j \in Places : 12 + j \in Places => Bit(h, 12 + j) = Bit(0, j)
  BY <1>5, PartsHaveBits
<1>7. ASSUME NEW j \in Places PROVE Bit(h, j) = Bit(0, j)
  <2>1. CASE j < 12
    <3>1. 4 + j \in Places /\ 4 + j >= 4
      BY <2>1 DEF Places
    <3> QED BY <1>4, <3>1, BitsOfZero
  <2>2. CASE j >= 12
    <3>1. j - 12 \in Places /\ 12 + (j - 12) = j
      BY <2>2 DEF Places
    <3> QED BY <1>6, <3>1, BitsOfZero
  <2>3. j < 12 \/ j >= 12
    BY DEF Places
  <2> QED BY <2>1, <2>2, <2>3
<1>8. h \in CrcValues /\ 0 \in CrcValues
  BY <1>2, CrcIs
<1>9. h = 0
  BY <1>7, <1>8, SameBits
<1> QED BY <1>2, <1>9 DEF Nibbles

\* The highest four bits of a word, and what is left when they are shifted out.
LEMMA TopBits ==
  ASSUME NEW w \in CrcValues
  PROVE  w \div 4096 \in Nibbles /\ \A j \in Places : 12 + j \in Places => Bit(w \div 4096, j) = Bit(w, 12 + j)
<1> DEFINE h == w \div 4096  l == w % 4096
<1>1. w \in Nat /\ w < 65536
  BY CrcIs
<1>2. h \in Nat /\ h < 16 /\ l \in Nat /\ l < 4096 /\ w = (h * 4096) + l
  BY <1>1
<1> HIDE DEF h, l
<1>3. Parts(w, 12, h, l)
  BY <1>2 DEF Parts, Places
<1>4. \A j \in Places : 12 + j \in Places => Bit(w, 12 + j) = Bit(h, j)
  BY <1>3, PartsHaveBits
<1>5. h \in Nibbles
  BY <1>2 DEF Nibbles
<1> QED BY <1>4, <1>5 DEF h

LEMMA ShiftBits ==
  ASSUME NEW w \in CrcValues
  PROVE  /\ (w * 16) % 65536 \in CrcValues
         /\ \A k \in Places : Bit((w * 16) % 65536, k) = IF k < 4 THEN 0 ELSE Bit(w, k - 4)
<1> DEFINE h == w \div 4096  l == w % 4096  v == (w * 16) % 65536
<1>1. w \in Nat /\ w < 65536
  BY CrcIs
<1>2. /\ h \in Nat /\ l \in Nat /\ l < 4096 /\ w = (h * 4096) + l
      /\ v = (l * 16) + 0 /\ v \in Nat /\ v < 65536
  BY <1>1
<1> HIDE DEF h, l, v
<1>3. Parts(w, 12, h, l) /\ Parts(v, 4, l, 0)
  BY <1>2 DEF Parts, Places
<1>4. \A j \in Places : j < 12 => Bit(w, j) = Bit(l, j)
  BY <1>3, PartsHaveBits
<1>6. /\ \A j \in Places : j < 4 => Bit(v, j) = Bit(0, j)
      /\ \A j \in Places : 4 + j \in Places => Bit(v, 4 + j) = Bit(l, j)
  BY <1>3, PartsHaveBits
<1>7. ASSUME NEW k \in Places PROVE Bit(v, k) = IF k < 4 THEN 0 ELSE Bit(w, k - 4)
  <2>1. CASE k < 4
    BY <1>6, <2>1, BitsOfZero
  <2>2. CASE k >= 4
    <3>1. k - 4 \in Places /\ 4 + (k - 4) = k /\ k - 4 < 12 /\ ~(k < 4)
      BY <2>2 DEF Places
    <3> QED BY <1>4, <1>6, <3>1
  <2>3. k < 4 \/ k >= 4
    BY DEF Places
  <2> QED BY <2>1, <2>2, <2>3
<1>8. v \in CrcValues
  BY <1>2, CrcIs
<1> QED BY <1>7, <1>8 DEF v

\* The table: an entry is its index in three places.
LEMMA TableBits ==
  ASSUME NEW t \in Nibbles
  PROVE  /\ CrcTable[t] \in CrcValues
         /\ \A k \in Places : Bit(CrcTable[t], k) =
              IF k < 5 THEN Bit(t, k) ELSE IF k < 12 THEN Bit(t, k - 5) ELSE Bit(t, k - 12)
<1> DEFINE c == CrcTable[t]  l == (t * 32) + t
<1>1. c = 4129 * t /\ t \in Nat /\ t < 16
  BY DEF CrcTable, Nibbles
<1> HIDE DEF c
<1>2. c = (t * 4096) + l /\ l \in Nat /\ l < 4096 /\ c \in Nat /\ c < 65536
  BY <1>1
<1>3. l = (t * 32) + t /\ t < 32
  BY <1>1 DEF l
<1> HIDE DEF l
<1>4. Parts(c, 12, t, l) /\ Parts(l, 5, t, t)
  BY <1>1, <1>2, <1>3 DEF Parts, Places
<1>5. /\ \A j \in Places : j < 12 => Bit(c, j) = Bit(l, j)
      /\ \A j \in Places : 12 + j \in Places => Bit(c, 12 + j) = Bit(t, j)
  BY <1>4, PartsHaveBits
<1>6. /\ \A j \in Places : j < 5 => Bit(l, j) = Bit(t, j)
      /\ \A j \in Places : 5 + j \in Places => Bit(l, 5 + j) = Bit(t, j)
  BY <1>4, PartsHaveBits
<1>7. ASSUME NEW k \in Places
      PROVE  Bit(c, k) =
               IF k < 5 THEN Bit(t, k) ELSE IF k < 12 THEN Bit(t, k - 5) ELSE Bit(t, k - 12)
  <2>1. CASE k < 5
    <3>1. k < 12
      BY <2>1 DEF Places
    <3> QED BY <1>5, <1>6, <2>1, <3>1
  <2>2. CASE k >= 5 /\ k < 12
    <3>1. k - 5 \in Places /\ 5 + (k - 5) = k /\ ~(k < 5)
      BY <2>2 DEF Places
    <3> QED BY <1>5, <1>6, <2>2, <3>1
  <2>3. CASE k >= 12
    <3>1. k - 12 \in Places /\ 12 + (k - 12) = k /\ ~(k < 5) /\ ~(k < 12)
      BY <2>3 DEF Places
    <3> QED BY <1>5, <3>1
  <2>4. k < 5 \/ (k >= 5 /\ k < 12) \/ k >= 12
    BY DEF Places
  <2> QED BY <2>1, <2>2, <2>3, <2>4
<1>8. c \in CrcValues
  BY <1>2, CrcIs
<1> QED BY <1>7, <1>8 DEF c

\* Two bits under ^.
Unlike(x, y) == IF x = y THEN 0 ELSE 1

\* What a nibble makes of the highest four bits, and of a remainder.
Mixed(remainder, nibble, j) == Unlike(Bit(remainder, 12 + j), Bit(nibble, j))

Shifted(remainder, nibble, k) ==
  IF k < 4 THEN Mixed(remainder, nibble, k)
  ELSE IF k = 4 THEN Bit(remainder, 0)
  ELSE IF k < 9 THEN Unlike(Bit(remainder, k - 4), Mixed(remainder, nibble, k - 5))
  ELSE IF k < 12 THEN Bit(remainder, k - 4)
  ELSE Unlike(Bit(remainder, k - 4), Mixed(remainder, nibble, k - 12))

\* A bit is a bit.
LEMMA BitIsOne == \A w \in Nat, k \in Places : Bit(w, k) \in {0, 1}
BY BitIs

LEMMA NibbleIndex ==
  ASSUME NEW r \in CrcValues, NEW n \in Nibbles
  PROVE  /\ Xor(r \div 4096, n) \in Nibbles
         /\ \A j \in Places : j < 4 => Bit(Xor(r \div 4096, n), j) = Mixed(r, n, j)
<1> DEFINE top == r \div 4096  x == Xor(top, n)
<1>1. top \in Nibbles /\ \A j \in Places : 12 + j \in Places => Bit(top, j) = Bit(r, 12 + j)
  BY TopBits
<1> HIDE DEF top
<1>2. top \in Nat /\ n \in Nat
  BY <1>1 DEF Nibbles
<1>3. /\ x \in CrcValues
      /\ \A k \in Places : Bit(x, k) = Unlike(Bit(top, k), Bit(n, k))
  BY <1>2, XorBits DEF Unlike
<1> HIDE DEF x
<1>4. ASSUME NEW k \in Places, k >= 4 PROVE Bit(x, k) = 0
  <2>1. Bit(top, k) = 0 /\ Bit(n, k) = 0
    BY <1>1, <1>4, NibbleBits
  <2> QED BY <1>3, <2>1 DEF Unlike
<1>5. x \in Nibbles
  BY <1>3, <1>4, IsNibble
<1>6. ASSUME NEW j \in Places, j < 4 PROVE Bit(x, j) = Mixed(r, n, j)
  <2>1. 12 + j \in Places
    BY <1>6 DEF Places
  <2> QED BY <1>1, <1>3, <2>1 DEF Mixed
<1> QED BY <1>5, <1>6 DEF x, top

LEMMA TakeNibbleBits ==
  ASSUME NEW r \in CrcValues, NEW n \in Nibbles
  PROVE  /\ TakeNibble(r, n) \in CrcValues
         /\ \A k \in Places : Bit(TakeNibble(r, n), k) = Shifted(r, n, k)
<1> DEFINE x == Xor(r \div 4096, n)  c == CrcTable[x]  s == (r * 16) % 65536
<1>1. x \in Nibbles /\ \A j \in Places : j < 4 => Bit(x, j) = Mixed(r, n, j)
  BY NibbleIndex
<1>2. /\ c \in CrcValues
      /\ \A k \in Places : Bit(c, k) =
           IF k < 5 THEN Bit(x, k) ELSE IF k < 12 THEN Bit(x, k - 5) ELSE Bit(x, k - 12)
  <2> HIDE DEF x
  <2> QED BY <1>1, TableBits
<1>3. s \in CrcValues /\ \A k \in Places : Bit(s, k) = IF k < 4 THEN 0 ELSE Bit(r, k - 4)
  BY ShiftBits
<1>4. TakeNibble(r, n) = Xor(c, s)
  BY DEF TakeNibble
<1>5. x \in Nat /\ r \in Nat
  BY <1>1, CrcIs DEF Nibbles
<1> HIDE DEF x, c, s
<1>6. c \in Nat /\ s \in Nat
  BY <1>2, <1>3, CrcIs
<1>7. /\ Xor(c, s) \in CrcValues
      /\ \A k \in Places : Bit(Xor(c, s), k) = Unlike(Bit(c, k), Bit(s, k))
  BY <1>6, XorBits DEF Unlike
<1>8. \A j \in Places : j >= 4 => Bit(x, j) = 0
  BY <1>1, NibbleBits
<1>9. ASSUME NEW k \in Places
      PROVE  Unlike(Bit(c, k), Bit(s, k)) = Shifted(r, n, k)
  <2>1. CASE k < 4
    <3>1. Bit(c, k) = Mixed(r, n, k) /\ Bit(s, k) = 0
      <4>1. k < 5
        BY <2>1 DEF Places
      <4> QED BY <1>1, <1>2, <1>3, <2>1, <4>1
    <3>2. Mixed(r, n, k) \in {0, 1}
      BY DEF Mixed, Unlike
    <3> QED BY <2>1, <3>1, <3>2 DEF Shifted, Unlike
  <2>2. CASE k = 4
    <3>1. Bit(c, k) = 0 /\ Bit(s, k) = Bit(r, 0)
      <4>1. Bit(c, k) = Bit(x, 4) /\ 4 \in Places
        BY <1>2, <2>2 DEF Places
      <4> QED BY <1>3, <1>8, <2>2, <4>1
    <3>2. Bit(r, 0) \in {0, 1}
      BY <1>5, BitIsOne DEF Places
    <3>3. Unlike(0, Bit(r, 0)) = Bit(r, 0)
      BY <3>2 DEF Unlike
    <3> QED BY <2>2, <3>1, <3>3 DEF Shifted
  <2>3. CASE k > 4 /\ k < 9
    <3>1. k - 5 \in Places /\ k - 5 < 4 /\ ~(k < 5) /\ ~(k < 4) /\ k < 12 /\ k # 4
      BY <2>3 DEF Places
    <3>2. Bit(c, k) = Mixed(r, n, k - 5) /\ Bit(s, k) = Bit(r, k - 4)
      BY <1>1, <1>2, <1>3, <3>1
    <3> QED BY <2>3, <3>1, <3>2 DEF Shifted, Unlike
  <2>4. CASE k >= 9 /\ k < 12
    <3>1. k - 5 \in Places /\ k - 5 >= 4 /\ ~(k < 5) /\ ~(k < 4) /\ k # 4 /\ ~(k < 9) /\ k - 4 \in Places
      BY <2>4 DEF Places
    <3>2. Bit(c, k) = 0 /\ Bit(s, k) = Bit(r, k - 4)
      BY <1>2, <1>3, <1>8, <2>4, <3>1
    <3>3. Bit(r, k - 4) \in {0, 1}
      BY <1>5, <3>1, BitIsOne
    <3>4. Unlike(0, Bit(r, k - 4)) = Bit(r, k - 4)
      BY <3>3 DEF Unlike
    <3> QED BY <2>4, <3>1, <3>2, <3>4 DEF Shifted
  <2>5. CASE k >= 12
    <3>1. k - 12 \in Places /\ k - 12 < 4 /\ ~(k < 5) /\ ~(k < 4) /\ ~(k < 12) /\ k # 4 /\ ~(k < 9)
      BY <2>5 DEF Places
    <3>2. Bit(c, k) = Mixed(r, n, k - 12) /\ Bit(s, k) = Bit(r, k - 4)
      BY <1>1, <1>2, <1>3, <3>1
    <3> QED BY <3>1, <3>2 DEF Shifted, Unlike
  <2>6. k < 4 \/ k = 4 \/ (k > 4 /\ k < 9) \/ (k >= 9 /\ k < 12) \/ k >= 12
    BY DEF Places
  <2> QED BY <2>1, <2>2, <2>3, <2>4, <2>5, <2>6
<1> QED BY <1>4, <1>7, <1>9

\* What two equal results tell of what they were made from.
LEMMA TakeNibbleTells ==
  ASSUME NEW r \in CrcValues, NEW n \in Nibbles, NEW rr \in CrcValues, NEW nn \in Nibbles,
         TakeNibble(r, n) = TakeNibble(rr, nn)
  PROVE  /\ \A j \in Places : j < 12 => Bit(r, j) = Bit(rr, j)
         /\ \A j \in Places : j < 4 => Mixed(r, n, j) = Mixed(rr, nn, j)
<1>1. \A k \in Places : Shifted(r, n, k) = Shifted(rr, nn, k)
  BY TakeNibbleBits
<1>2. ASSUME NEW j \in Places, j < 4 PROVE Mixed(r, n, j) = Mixed(rr, nn, j)
  BY <1>1, <1>2 DEF Shifted
<1>3. ASSUME NEW j \in Places, j < 12 PROVE Bit(r, j) = Bit(rr, j)
  <2>1. j + 4 \in Places /\ ~(j + 4 < 4) /\ (j + 4) - 4 = j
    BY <1>3 DEF Places
  <2>2. Shifted(r, n, j + 4) = Shifted(rr, nn, j + 4)
    BY <1>1, <2>1
  <2>3. Bit(r, j) \in {0, 1} /\ Bit(rr, j) \in {0, 1}
    BY CrcIs, BitIsOne
  <2>4. CASE j = 0
    BY <2>2, <2>4 DEF Shifted
  <2>5. CASE j > 0 /\ j < 5
    <3>1. j - 1 \in Places /\ j - 1 < 4 /\ (j + 4) - 5 = j - 1 /\ j + 4 < 9 /\ j + 4 # 4
      BY <2>5 DEF Places
    <3>2. Mixed(r, n, j - 1) = Mixed(rr, nn, j - 1)
      BY <1>2, <3>1
    <3>3. Unlike(Bit(r, j), Mixed(r, n, j - 1)) = Unlike(Bit(rr, j), Mixed(rr, nn, j - 1))
      BY <2>1, <2>2, <3>1 DEF Shifted
    <3>4. Mixed(r, n, j - 1) \in {0, 1}
      BY DEF Mixed, Unlike
    <3> QED BY <2>3, <3>2, <3>3, <3>4 DEF Unlike
  <2>6. CASE j >= 5 /\ j < 8
    <3>1. ~(j + 4 < 9) /\ j + 4 < 12 /\ j + 4 # 4
      BY <2>6 DEF Places
    <3> QED BY <2>1, <2>2, <3>1 DEF Shifted
  <2>7. CASE j >= 8
    <3>1. /\ j - 8 \in Places /\ j - 8 < 4 /\ (j + 4) - 12 = j - 8
          /\ ~(j + 4 < 9) /\ ~(j + 4 < 12) /\ j + 4 # 4
      BY <1>3, <2>7 DEF Places
    <3>2. Mixed(r, n, j - 8) = Mixed(rr, nn, j - 8)
      BY <1>2, <3>1
    <3>3. Unlike(Bit(r, j), Mixed(r, n, j - 8)) = Unlike(Bit(rr, j), Mixed(rr, nn, j - 8))
      BY <2>1, <2>2, <3>1 DEF Shifted
    <3>4. Mixed(r, n, j - 8) \in {0, 1}
      BY DEF Mixed, Unlike
    <3> QED BY <2>3, <3>2, <3>3, <3>4 DEF Unlike
  <2>8. j = 0 \/ (j > 0 /\ j < 5) \/ (j >= 5 /\ j < 8) \/ j >= 8
    BY DEF Places
  <2> QED BY <2>4, <2>5, <2>6, <2>7, <2>8
<1> QED BY <1>2, <1>3

LEMMA NibbleIsWord == \A n \in Nibbles : n \in CrcValues /\ n \in Nat
<1>1. \A n \in Nibbles : n \in Nat /\ n < 65536
  BY DEF Nibbles
<1> QED BY <1>1, CrcIs

LEMMA ByteIs ==
  ASSUME NEW b
  PROVE  b \in Bytes <=> b \in Nat /\ b < 256
<1> DEFINE top == 255
<1>1. Bytes = 0 .. top /\ top \in Nat /\ top + 1 = 256
  BY DEF Bytes
<1> HIDE DEF top
<1> QED BY <1>1

LEMMA ByteHalves ==
  ASSUME NEW b \in Bytes
  PROVE  /\ b \div 16 \in Nibbles /\ b % 16 \in Nibbles
         /\ b = (16 * (b \div 16)) + (b % 16)
<1>1. b \in Nat /\ b < 256
  BY ByteIs
<1> QED BY <1>1 DEF Nibbles

\* Two nibbles with the same lowest four bits are the same.
LEMMA SameNibble ==
  ASSUME NEW n \in Nibbles, NEW nn \in Nibbles,
         \A j \in Places : j < 4 => Bit(n, j) = Bit(nn, j)
  PROVE  n = nn
<1>1. ASSUME NEW j \in Places PROVE Bit(n, j) = Bit(nn, j)
  <2>1. CASE j < 4
    BY <2>1
  <2>2. CASE j >= 4
    BY <2>2, NibbleBits
  <2>3. j < 4 \/ j >= 4
    BY DEF Places
  <2> QED BY <2>1, <2>2, <2>3
<1> QED BY <1>1, NibbleIsWord, SameBits

\* The same remainder and the same mixture come of the same nibble ...
LEMMA MixedTellsNibble ==
  ASSUME NEW r \in CrcValues, NEW n \in Nibbles, NEW nn \in Nibbles,
         \A j \in Places : j < 4 => Mixed(r, n, j) = Mixed(r, nn, j)
  PROVE  n = nn
<1>1. ASSUME NEW j \in Places, j < 4 PROVE Bit(n, j) = Bit(nn, j)
  <2>1. Unlike(Bit(r, 12 + j), Bit(n, j)) = Unlike(Bit(r, 12 + j), Bit(nn, j))
    BY <1>1 DEF Mixed
  <2>2. 12 + j \in Places
    BY <1>1 DEF Places
  <2>3. Bit(r, 12 + j) \in {0, 1} /\ Bit(n, j) \in {0, 1} /\ Bit(nn, j) \in {0, 1}
    BY <2>2, CrcIs, NibbleIsWord, BitIsOne
  <2> QED BY <2>1, <2>3 DEF Unlike
<1> QED BY <1>1, SameNibble

\* ... and the same nibble and the same result of the same remainder.
LEMMA NibbleTellsRemainder ==
  ASSUME NEW r \in CrcValues, NEW n \in Nibbles, NEW rr \in CrcValues,
         TakeNibble(r, n) = TakeNibble(rr, n)
  PROVE  r = rr
<1>1. /\ \A j \in Places : j < 12 => Bit(r, j) = Bit(rr, j)
      /\ \A j \in Places : j < 4 => Mixed(r, n, j) = Mixed(rr, n, j)
  BY TakeNibbleTells
<1>2. ASSUME NEW k \in Places PROVE Bit(r, k) = Bit(rr, k)
  <2>1. CASE k < 12
    BY <1>1, <2>1
  <2>2. CASE k >= 12
    <3>1. k - 12 \in Places /\ k - 12 < 4 /\ 12 + (k - 12) = k
      BY <2>2 DEF Places
    <3>2. Unlike(Bit(r, k), Bit(n, k - 12)) = Unlike(Bit(rr, k), Bit(n, k - 12))
      BY <1>1, <3>1 DEF Mixed
    <3>3. Bit(r, k) \in {0, 1} /\ Bit(n, k - 12) \in {0, 1} /\ Bit(rr, k) \in {0, 1}
      BY <3>1, CrcIs, NibbleIsWord, BitIsOne
    <3> QED BY <3>2, <3>3 DEF Unlike
  <2>3. k < 12 \/ k >= 12
    BY DEF Places
  <2> QED BY <2>1, <2>2, <2>3
<1> QED BY <1>2, SameBits

\* A round of the loop keeps the remainder in its type ...
LEMMA UpdateKeeps ==
  ASSUME NEW r \in CrcValues, NEW b \in Bytes
  PROVE  Update(r, b) \in CrcValues
BY ByteHalves, TakeNibbleBits DEF Update

\* ... and loses nothing: another byte, or another remainder, gives another result.
LEMMA UpdateTellsRemainder ==
  ASSUME NEW r \in CrcValues, NEW rr \in CrcValues, NEW b \in Bytes, Update(r, b) = Update(rr, b)
  PROVE  r = rr
<1>1. b \div 16 \in Nibbles /\ b % 16 \in Nibbles
  BY ByteHalves
<1>2. TakeNibble(r, b \div 16) = TakeNibble(rr, b \div 16)
  BY <1>1, TakeNibbleBits, NibbleTellsRemainder DEF Update
<1> QED BY <1>1, <1>2, NibbleTellsRemainder

LEMMA UpdateTellsByte ==
  ASSUME NEW r \in CrcValues, NEW b \in Bytes, NEW bb \in Bytes, Update(r, b) = Update(r, bb)
  PROVE  b = bb
<1> DEFINE h == b \div 16  l == b % 16  hh == bb \div 16  ll == bb % 16
           s == TakeNibble(r, h)  ss == TakeNibble(r, hh)
<1>1. /\ h \in Nibbles /\ l \in Nibbles /\ hh \in Nibbles /\ ll \in Nibbles
      /\ b = (16 * h) + l /\ bb = (16 * hh) + ll
  BY ByteHalves
<1>2. TakeNibble(s, l) = TakeNibble(ss, ll)
  BY DEF Update
<1> HIDE DEF h, l, hh, ll
<1>3. /\ s \in CrcValues /\ \A k \in Places : Bit(s, k) = Shifted(r, h, k)
      /\ ss \in CrcValues /\ \A k \in Places : Bit(ss, k) = Shifted(r, hh, k)
  BY <1>1, TakeNibbleBits
<1> HIDE DEF s, ss
<1>4. \A j \in Places : j < 12 => Bit(s, j) = Bit(ss, j)
  BY <1>1, <1>2, <1>3, TakeNibbleTells
<1>5. ASSUME NEW j \in Places, j < 4 PROVE Mixed(r, h, j) = Mixed(r, hh, j)
  <2>1. j < 12
    BY <1>5 DEF Places
  <2> QED BY <1>3, <1>4, <1>5, <2>1 DEF Shifted
<1>6. h = hh
  BY <1>1, <1>5, MixedTellsNibble
<1>7. s = ss
  BY <1>6 DEF s, ss
<1>8. \A j \in Places : j < 4 => Mixed(s, l, j) = Mixed(s, ll, j)
  BY <1>1, <1>2, <1>3, <1>7, TakeNibbleTells
<1>9. l = ll
  BY <1>1, <1>3, <1>8, MixedTellsNibble
<1> QED BY <1>1, <1>6, <1>9

-----------------------------------------------------------------------------
(* The loop. *)

\* The remainders after each byte of a buffer.
After(buffer, after) ==
  after = [k \in 0 .. Len(buffer) |-> IF k = 0 THEN 0 ELSE Update(after[k - 1], buffer[k])]

LEMMA AfterExists ==
  ASSUME NEW buffer \in Seq(Bytes)
  PROVE  \E after : After(buffer, after)
<1> DEFINE Up(n, f) == f = [k \in 0 .. n |-> IF k = 0 THEN 0 ELSE Update(f[k - 1], buffer[k])]
           Good == {n \in Nat : \E f : Up(n, f)}
<1>1. 0 \in Good
  <2> DEFINE f == [k \in 0 .. 0 |-> 0]
  <2>1. Up(0, f)
    OBVIOUS
  <2> QED BY <2>1
<1>2. ASSUME NEW n \in Nat, n < Len(buffer), n \in Good PROVE n + 1 \in Good
  <2>1. PICK f : Up(n, f)
    BY <1>2
  <2> DEFINE g == [k \in 0 .. n + 1 |-> IF k = n + 1 THEN Update(f[n], buffer[n + 1]) ELSE f[k]]
  <2>2. \A k \in 0 .. n : g[k] = f[k]
    OBVIOUS
  <2>3. \A k \in 0 .. n : f[k] = IF k = 0 THEN 0 ELSE Update(f[k - 1], buffer[k])
    BY <2>1
  <2>4. ASSUME NEW k \in 0 .. n + 1
        PROVE  g[k] = IF k = 0 THEN 0 ELSE Update(g[k - 1], buffer[k])
    <3>1. CASE k = n + 1
      <4>1. g[k] = Update(f[n], buffer[k]) /\ g[k - 1] = f[n] /\ k # 0
        BY <3>1
      <4> QED BY <4>1
    <3>2. CASE k # n + 1
      <4>1. k \in 0 .. n /\ (k # 0 => k - 1 \in 0 .. n)
        BY <3>2
      <4> QED BY <2>2, <2>3, <4>1
    <3> QED BY <3>1, <3>2
  <2>5. g = [k \in 0 .. n + 1 |-> IF k = 0 THEN 0 ELSE Update(g[k - 1], buffer[k])]
    BY <2>4
  <2> HIDE DEF g
  <2>6. Up(n + 1, g)
    BY <2>5
  <2> HIDE DEF Up
  <2>7. n + 1 \in Nat /\ \E h : Up(n + 1, h)
    BY <2>6
  <2> QED BY <2>7
<1> HIDE DEF Good
<1>3. Len(buffer) \in Nat
  OBVIOUS
<1>4. \A n \in 0 .. Len(buffer) : n \in Good
  BY ONLY <1>1, <1>2, <1>3, UpTo
<1>5. Len(buffer) \in Good
  BY <1>3, <1>4
<1> QED BY <1>5 DEF Good, After

\* Byte by byte: what Remainder is.
Steps(buffer, after) ==
  /\ after[0] = 0
  /\ \A k \in 1 .. Len(buffer) : after[k] = Update(after[k - 1], buffer[k])
  /\ \A k \in 0 .. Len(buffer) : after[k] \in CrcValues

LEMMA RemainderIs ==
  ASSUME NEW buffer \in Seq(Bytes)
  PROVE  \E after : Steps(buffer, after) /\ Remainder(buffer) = after[Len(buffer)]
<1> DEFINE after == CHOOSE f : After(buffer, f)
<1>1. Remainder(buffer) = after[Len(buffer)]
  BY DEF Remainder, After
<1>2. After(buffer, after)
  BY AfterExists
<1> HIDE DEF after
<1>3. \A k \in 0 .. Len(buffer) : after[k] = IF k = 0 THEN 0 ELSE Update(after[k - 1], buffer[k])
  BY <1>2 DEF After
<1>4. after[0] = 0 /\ \A k \in 1 .. Len(buffer) : after[k] = Update(after[k - 1], buffer[k])
  BY <1>3
<1> DEFINE Good == {k \in Nat : after[k] \in CrcValues}
<1>5. 0 \in Good
  BY <1>4, CrcIs
<1>6. ASSUME NEW k \in Nat, k < Len(buffer), k \in Good PROVE k + 1 \in Good
  <2>1. k + 1 \in 1 .. Len(buffer) /\ (k + 1) - 1 = k
    BY <1>6
  <2>2. after[k + 1] = Update(after[k], buffer[k + 1]) /\ buffer[k + 1] \in Bytes
    BY <1>4, <2>1
  <2>3. after[k] \in CrcValues
    BY <1>6
  <2> QED BY <2>2, <2>3, UpdateKeeps
<1> HIDE DEF Good
<1>7. Len(buffer) \in Nat
  OBVIOUS
<1>8. \A k \in 0 .. Len(buffer) : k \in Good
  BY ONLY <1>5, <1>6, <1>7, UpTo
<1>9. \A k \in 0 .. Len(buffer) : after[k] \in CrcValues
  BY <1>8 DEF Good
<1>10. Steps(buffer, after)
  BY ONLY <1>4, <1>9 DEF Steps
<1> QED BY <1>1, <1>10

\* Buffers with the same first bytes have the same remainders up to there.
LEMMA SameSteps ==
  ASSUME NEW t \in Seq(Bytes), NEW u \in Seq(Bytes), NEW f, NEW g, Steps(t, f), Steps(u, g),
         NEW n \in Nat, n <= Len(t), n <= Len(u), \A k \in 1 .. n : t[k] = u[k]
  PROVE  f[n] = g[n]
<1> DEFINE Good == {k \in Nat : f[k] = g[k]}
<1>1. 0 \in Good
  BY DEF Steps
<1>2. ASSUME NEW k \in Nat, k < n, k \in Good PROVE k + 1 \in Good
  <2>1. k + 1 \in 1 .. n /\ k + 1 \in 1 .. Len(t) /\ k + 1 \in 1 .. Len(u) /\ (k + 1) - 1 = k
    BY <1>2
  <2>2. f[k + 1] = Update(f[k], t[k + 1]) /\ g[k + 1] = Update(g[k], u[k + 1]) /\ t[k + 1] = u[k + 1]
    BY <2>1 DEF Steps
  <2>3. f[k] = g[k]
    BY <1>2
  <2> QED BY <2>2, <2>3
<1> HIDE DEF Good
<1>3. \A k \in 0 .. n : k \in Good
  BY ONLY <1>1, <1>2, n \in Nat, UpTo
<1> QED BY <1>3 DEF Good

LEMMA RemainderOfNothing == Remainder(<<>>) = 0
<1>1. <<>> \in Seq(Bytes) /\ Len(<<>>) = 0
  OBVIOUS
<1>2. PICK f : Steps(<<>>, f) /\ Remainder(<<>>) = f[Len(<<>>)]
  BY <1>1, RemainderIs
<1> QED BY <1>1, <1>2 DEF Steps

LEMMA RemainderKeeps ==
  ASSUME NEW t \in Seq(Bytes)
  PROVE  Remainder(t) \in CrcValues
<1>1. PICK f : Steps(t, f) /\ Remainder(t) = f[Len(t)]
  BY RemainderIs
<1>2. Len(t) \in 0 .. Len(t)
  OBVIOUS
<1> QED BY <1>1, <1>2 DEF Steps

LEMMA NextRemainder ==
  ASSUME NEW t \in Seq(Bytes), NEW b \in Bytes
  PROVE  Remainder(Append(t, b)) = Update(Remainder(t), b)
<1> DEFINE u == Append(t, b)
<1>1. /\ u \in Seq(Bytes) /\ Len(u) = Len(t) + 1 /\ u[Len(t) + 1] = b
      /\ \A k \in 1 .. Len(t) : t[k] = u[k]
  OBVIOUS
<1> HIDE DEF u
<1>2. PICK f : Steps(t, f) /\ Remainder(t) = f[Len(t)]
  BY RemainderIs
<1>3. PICK g : Steps(u, g) /\ Remainder(u) = g[Len(u)]
  BY <1>1, RemainderIs
<1>4. f[Len(t)] = g[Len(t)]
  <2>1. Len(t) \in Nat /\ Len(t) <= Len(t) /\ Len(t) <= Len(u)
    BY <1>1
  <2> QED BY <1>1, <1>2, <1>3, <2>1, SameSteps
<1>5. Len(t) + 1 \in 1 .. Len(u) /\ (Len(t) + 1) - 1 = Len(t)
  BY <1>1
<1>6. g[Len(t) + 1] = Update(g[Len(t)], u[Len(t) + 1])
  BY <1>3, <1>5 DEF Steps
<1> QED BY <1>1, <1>2, <1>3, <1>4, <1>6 DEF u

\* calculate_voltronic_crc: of two texts that differ in one byte, wherever it is
\* and whatever the others are, the remainders differ: no such damage is lost on
\* the way through the loop.
THEOREM OneByteTells ==
  ASSUME NEW t \in Seq(Bytes), NEW u \in Seq(Bytes), Len(t) = Len(u),
         NEW j \in 1 .. Len(t), t[j] # u[j],
         \A k \in 1 .. Len(t) : k # j => t[k] = u[k]
  PROVE  Remainder(t) # Remainder(u)
<1>1. PICK f : Steps(t, f) /\ Remainder(t) = f[Len(t)]
  BY RemainderIs
<1>2. PICK g : Steps(u, g) /\ Remainder(u) = g[Len(t)]
  BY RemainderIs
<1>3. f[j - 1] = g[j - 1]
  <2>1. j - 1 \in Nat /\ j - 1 <= Len(t) /\ j - 1 <= Len(u) /\ \A k \in 1 .. j - 1 : t[k] = u[k]
    OBVIOUS
  <2> QED BY <1>1, <1>2, <2>1, SameSteps
<1> DEFINE Good == {k \in Nat : f[j + k] # g[j + k]}
<1>4. 0 \in Good
  <2>1. /\ f[j] = Update(f[j - 1], t[j]) /\ g[j] = Update(g[j - 1], u[j])
        /\ j - 1 \in 0 .. Len(t) /\ t[j] \in Bytes /\ u[j] \in Bytes
    BY <1>1, <1>2 DEF Steps
  <2>2. f[j - 1] \in CrcValues
    BY <1>1, <2>1 DEF Steps
  <2>3. f[j] # g[j]
    BY <1>3, <2>1, <2>2, UpdateTellsByte
  <2> QED BY <2>3
<1>5. ASSUME NEW k \in Nat, k < Len(t) - j, k \in Good PROVE k + 1 \in Good
  <2> DEFINE i == j + k
  <2>1. /\ i \in 0 .. Len(t) /\ i + 1 \in 1 .. Len(t) /\ (i + 1) - 1 = i
        /\ i + 1 = j + (k + 1) /\ i + 1 # j
    BY <1>5
  <2>2. f[i] # g[i]
    BY <1>5
  <2> HIDE DEF i
  <2>3. /\ f[i + 1] = Update(f[i], t[i + 1]) /\ g[i + 1] = Update(g[i], u[i + 1])
        /\ t[i + 1] = u[i + 1] /\ t[i + 1] \in Bytes
        /\ f[i] \in CrcValues /\ g[i] \in CrcValues
    BY <1>1, <1>2, <2>1 DEF Steps
  <2>4. f[i + 1] # g[i + 1]
    BY <2>2, <2>3, UpdateTellsRemainder
  <2> QED BY <2>1, <2>4
<1> HIDE DEF Good
<1> DEFINE rest == Len(t) - j
<1>6. rest \in Nat /\ j + rest = Len(t)
  OBVIOUS
<1>7. \A k \in Nat : k < rest /\ k \in Good => k + 1 \in Good
  BY <1>5
<1> HIDE DEF rest
<1>8. \A k \in 0 .. rest : k \in Good
  BY ONLY <1>4, <1>6, <1>7, UpTo
<1>9. f[j + rest] # g[j + rest]
  BY <1>6, <1>8 DEF Good
<1> QED BY <1>1, <1>2, <1>6, <1>9

-----------------------------------------------------------------------------
(* The checksum in its two bytes. *)

\* What becomes of one byte of a remainder.
Up(byte) == IF byte \in ReservedBytes THEN byte + 1 ELSE byte

LEMMA CrcBytes ==
  ASSUME NEW c \in CrcValues
  PROVE  High(c) \in Bytes /\ Low(c) \in Bytes /\ c = (256 * High(c)) + Low(c)
<1>1. c \in Nat /\ c < 65536
  BY CrcIs
<1>2. c \div 256 \in Nat /\ c \div 256 < 256 /\ c % 256 \in Nat /\ c % 256 < 256
  BY <1>1
<1>3. c = (256 * (c \div 256)) + (c % 256)
  BY <1>1
<1> QED BY <1>2, <1>3, ByteIs DEF High, Low

LEMMA BytesOfCrc ==
  ASSUME NEW h \in Bytes, NEW l \in Bytes, NEW c, c = (256 * h) + l
  PROVE  c \in CrcValues /\ High(c) = h /\ Low(c) = l
<1>1. h \in Nat /\ h < 256 /\ l \in Nat /\ l < 256
  BY ByteIs
<1>2. c \in Nat /\ c < 65536 /\ c \div 256 = h /\ c % 256 = l
  BY <1>1
<1> QED BY <1>2, CrcIs DEF High, Low

LEMMA UpIs ==
  ASSUME NEW b \in Bytes
  PROVE  Up(b) \in Bytes /\ Up(b) \notin ReservedBytes /\ Up(b) \div 4 = b \div 4
<1>1. b \in Nat /\ b < 256
  BY ByteIs
<1>2. CASE b \in ReservedBytes
  <2>1. b = 40 \/ b = 13 \/ b = 10
    BY <1>2 DEF ReservedBytes
  <2>2. Up(b) = b + 1
    BY <1>2 DEF Up
  <2>3. Up(b) \in Nat /\ Up(b) < 256
    BY <2>1, <2>2
  <2>4. Up(b) \notin ReservedBytes /\ Up(b) \div 4 = b \div 4
    BY <2>1, <2>2 DEF ReservedBytes
  <2> QED BY <2>3, <2>4, ByteIs
<1>3. CASE b \notin ReservedBytes
  BY <1>3 DEF Up
<1> QED BY <1>2, <1>3

\* Neither increment carries: the two bytes are adjusted by themselves.
LEMMA AdjustedIs ==
  ASSUME NEW c \in CrcValues
  PROVE  /\ Adjusted(c) \in CrcValues
         /\ High(Adjusted(c)) = Up(High(c)) /\ Low(Adjusted(c)) = Up(Low(c))
         /\ ~IsAdjusted(c) => Adjusted(c) = c
<1> DEFINE h == High(c)  l == Low(c)
           low == IF Low(c) \in ReservedBytes THEN (c + 1) % 65536 ELSE c
<1>1. h \in Bytes /\ l \in Bytes /\ c = (256 * h) + l
  BY CrcBytes
<1>2. h \in Nat /\ h < 256 /\ l \in Nat /\ l < 256
  BY <1>1, ByteIs
<1>3. low = (256 * h) + Up(l)
  <2>1. CASE l \in ReservedBytes
    <3>1. l <= 40
      BY <2>1 DEF ReservedBytes
    <3>2. low = (c + 1) % 65536 /\ Up(l) = l + 1
      BY <2>1 DEF Up
    <3> HIDE DEF h, l, low
    <3>3. (c + 1) % 65536 = (256 * h) + (l + 1)
      BY <1>1, <1>2, <3>1
    <3> QED BY <3>2, <3>3
  <2>2. CASE l \notin ReservedBytes
    BY <1>1, <2>2 DEF Up
  <2> QED BY <2>1, <2>2
<1>4. Adjusted(c) = IF High(low) \in ReservedBytes THEN (low + 256) % 65536 ELSE low
  BY DEF Adjusted
<1> HIDE DEF h, l, low
<1>5. Up(l) \in Bytes /\ Up(h) \in Bytes
  BY <1>1, UpIs
<1>6. High(low) = h
  BY <1>1, <1>3, <1>5, BytesOfCrc
<1>7. Adjusted(c) = (256 * Up(h)) + Up(l)
  <2>1. CASE h \in ReservedBytes
    <3>1. h <= 40
      BY <2>1 DEF ReservedBytes
    <3>2. Adjusted(c) = (low + 256) % 65536 /\ Up(h) = h + 1
      BY <1>4, <1>6, <2>1 DEF Up
    <3>3. Up(l) \in Nat /\ Up(l) < 256
      BY <1>5, ByteIs
    <3>4. (low + 256) % 65536 = (256 * (h + 1)) + Up(l)
      BY <1>2, <1>3, <3>1, <3>3
    <3> QED BY <3>2, <3>4
  <2>2. CASE h \notin ReservedBytes
    BY <1>3, <1>4, <1>6, <2>2 DEF Up
  <2> QED BY <2>1, <2>2
<1>8. Adjusted(c) \in CrcValues /\ High(Adjusted(c)) = Up(h) /\ Low(Adjusted(c)) = Up(l)
  BY <1>5, <1>7, BytesOfCrc
<1>9. ~IsAdjusted(c) => Adjusted(c) = c
  BY <1>1, <1>7 DEF IsAdjusted, Up, h, l
<1> QED BY <1>8, <1>9 DEF h, l

-----------------------------------------------------------------------------
(* The frame. *)

LEMMA Joined ==
  ASSUME NEW first \in Seq(Bytes), NEW second \in Seq(Bytes)
  PROVE  /\ first \o second \in Seq(Bytes) /\ Len(first \o second) = Len(first) + Len(second)
         /\ \A k \in 1 .. Len(first) : (first \o second)[k] = first[k]
         /\ \A k \in 1 .. Len(second) : (first \o second)[Len(first) + k] = second[k]
OBVIOUS

LEMMA FrameIs ==
  ASSUME NEW t \in Seq(Bytes), NEW c \in CrcValues
  PROVE  /\ Frame(t, c) \in Seq(Bytes) /\ Len(Frame(t, c)) = Len(t) + 3
         /\ \A k \in 1 .. Len(t) : Frame(t, c)[k] = t[k]
         /\ Frame(t, c)[Len(t) + 1] = High(c) /\ Frame(t, c)[Len(t) + 2] = Low(c)
         /\ Frame(t, c)[Len(t) + 3] = EndOfInput
<1> DEFINE w == WriteCrc(c)  e == <<EndOfInput>>
<1>1. w \in Seq(Bytes) /\ Len(w) = 2 /\ w[1] = High(c) /\ w[2] = Low(c)
  BY CrcBytes DEF WriteCrc
<1>2. e \in Seq(Bytes) /\ Len(e) = 1 /\ e[1] = EndOfInput
  <2>1. EndOfInput \in Bytes
    BY ByteIs DEF EndOfInput
  <2> QED BY <2>1
<1> HIDE DEF w, e
<1>3. /\ t \o w \in Seq(Bytes) /\ Len(t \o w) = Len(t) + 2
      /\ \A k \in 1 .. Len(t) : (t \o w)[k] = t[k]
      /\ (t \o w)[Len(t) + 1] = w[1] /\ (t \o w)[Len(t) + 2] = w[2]
  <2>1. /\ t \o w \in Seq(Bytes) /\ Len(t \o w) = Len(t) + Len(w)
        /\ \A k \in 1 .. Len(t) : (t \o w)[k] = t[k]
        /\ \A k \in 1 .. Len(w) : (t \o w)[Len(t) + k] = w[k]
    BY ONLY <1>1, t \in Seq(Bytes), Joined
  <2>2. 1 \in 1 .. Len(w) /\ 2 \in 1 .. Len(w)
    BY <1>1
  <2> QED BY <1>1, <2>1, <2>2
<1> DEFINE tw == t \o w
<1>4. /\ tw \o e \in Seq(Bytes) /\ Len(tw \o e) = Len(tw) + 1
      /\ \A k \in 1 .. Len(tw) : (tw \o e)[k] = tw[k]
      /\ (tw \o e)[Len(tw) + 1] = e[1]
  <2> HIDE DEF tw
  <2>1. tw \in Seq(Bytes)
    BY <1>3 DEF tw
  <2>2. /\ tw \o e \in Seq(Bytes) /\ Len(tw \o e) = Len(tw) + Len(e)
        /\ \A k \in 1 .. Len(tw) : (tw \o e)[k] = tw[k]
        /\ \A k \in 1 .. Len(e) : (tw \o e)[Len(tw) + k] = e[k]
    BY ONLY <1>2, <2>1, Joined
  <2>3. 1 \in 1 .. Len(e)
    BY <1>2
  <2> QED BY <1>2, <2>2, <2>3
<1>5. Frame(t, c) = tw \o e
  BY DEF Frame, w, e
<1>6. /\ Len(t) \in Nat /\ \A k \in 1 .. Len(t) : k \in 1 .. Len(t) + 2
      /\ Len(t) + 1 \in 1 .. Len(t) + 2 /\ Len(t) + 2 \in 1 .. Len(t) + 2
      /\ (Len(t) + 2) + 1 = Len(t) + 3
  OBVIOUS
<1> QED BY <1>1, <1>2, <1>3, <1>4, <1>5, <1>6

\* What ends with its first '\r' is read whole.
LEMMA ReadWhole ==
  ASSUME NEW bytes \in Seq(Bytes), bytes # <<>>, bytes[Len(bytes)] = EndOfInput,
         \A j \in 1 .. Len(bytes) - 1 : bytes[j] # EndOfInput
  PROVE  UpToEndOfInput(bytes) = bytes
<1> DEFINE Ends(k) == bytes[k] = EndOfInput /\ \A j \in 1 .. k - 1 : bytes[j] # EndOfInput
           end == CHOOSE k \in 1 .. Len(bytes) : Ends(k)
<1>1. Len(bytes) \in 1 .. Len(bytes) /\ Ends(Len(bytes))
  OBVIOUS
<1>2. end \in 1 .. Len(bytes) /\ Ends(end)
  BY <1>1
<1>3. UpToEndOfInput(bytes) = SubSeq(bytes, 1, end)
  BY DEF UpToEndOfInput
<1> HIDE DEF end
<1>4. end = Len(bytes)
  BY <1>2
<1>5. SubSeq(bytes, 1, Len(bytes)) = bytes
  OBVIOUS
<1> QED BY <1>3, <1>4, <1>5

\* What holds a '\r' is read up to there at most.
LEMMA ReadPart ==
  ASSUME NEW bytes \in Seq(Bytes), NEW k \in 1 .. Len(bytes), bytes[k] = EndOfInput
  PROVE  UpToEndOfInput(bytes) \in Seq(Bytes) /\ Len(UpToEndOfInput(bytes)) <= k
<1> DEFINE Ends(n) == bytes[n] = EndOfInput /\ \A j \in 1 .. n - 1 : bytes[j] # EndOfInput
           end == CHOOSE n \in 1 .. Len(bytes) : Ends(n)
           All == {n \in Nat : n \in 1 .. Len(bytes) /\ bytes[n] = EndOfInput}
<1>1. PICK least \in All : \A n \in All : least <= n
  <2>1. All \in SUBSET Nat /\ All # {}
    OBVIOUS
  <2> HIDE DEF All
  <2> QED BY <2>1, LeastOf
<1>2. least \in 1 .. Len(bytes) /\ Ends(least)
  <2>1. \A j \in 1 .. least - 1 : j \in Nat /\ j \in 1 .. Len(bytes) /\ ~(least <= j)
    BY <1>1
  <2> QED BY <1>1, <2>1
<1>3. end \in 1 .. Len(bytes) /\ Ends(end)
  BY <1>2
<1>4. UpToEndOfInput(bytes) = SubSeq(bytes, 1, end)
  BY DEF UpToEndOfInput
<1> HIDE DEF end
<1>5. end <= k
  BY <1>3
<1>6. SubSeq(bytes, 1, end) \in Seq(Bytes) /\ Len(SubSeq(bytes, 1, end)) = end
  BY <1>3
<1> QED BY <1>4, <1>5, <1>6

-----------------------------------------------------------------------------
(* What the line does to a byte. *)

LEMMA ByteBits ==
  ASSUME NEW x \in Bytes
  PROVE  x \in CrcValues /\ \A k \in Places : k >= 8 => Bit(x, k) = 0
<1>1. x \in Nat /\ x < 256 /\ x < 65536
  BY ByteIs
<1>2. Parts(x, 8, 0, x)
  BY <1>1 DEF Parts, Places
<1>3. \A j \in Places : 8 + j \in Places => Bit(x, 8 + j) = Bit(0, j)
  BY <1>2, PartsHaveBits
<1>4. ASSUME NEW k \in Places, k >= 8 PROVE Bit(x, k) = 0
  <2>1. k - 8 \in Places /\ 8 + (k - 8) = k
    BY <1>4 DEF Places
  <2> QED BY <1>3, <2>1, BitsOfZero
<1> QED BY <1>1, <1>4, CrcIs

LEMMA IsByte ==
  ASSUME NEW x \in CrcValues, \A k \in Places : k >= 8 => Bit(x, k) = 0
  PROVE  x \in Bytes
<1> DEFINE h == High(x)  l == Low(x)
<1>1. h \in Bytes /\ l \in Bytes /\ x = (256 * h) + l
  BY CrcBytes
<1> HIDE DEF h, l
<1>2. h \in Nat /\ l \in Nat /\ l < 256
  BY <1>1, ByteIs
<1>3. Parts(x, 8, h, l)
  BY <1>1, <1>2 DEF Parts, Places
<1>4. \A j \in Places : 8 + j \in Places => Bit(x, 8 + j) = Bit(h, j)
  BY <1>3, PartsHaveBits
<1>5. ASSUME NEW j \in Places PROVE Bit(h, j) = Bit(0, j)
  <2>1. CASE j < 8
    <3>1. 8 + j \in Places /\ 8 + j >= 8
      BY <2>1 DEF Places
    <3> QED BY <1>4, <3>1, BitsOfZero
  <2>2. CASE j >= 8
    BY <1>1, <2>2, ByteBits, BitsOfZero
  <2>3. j < 8 \/ j >= 8
    BY DEF Places
  <2> QED BY <2>1, <2>2, <2>3
<1>6. h \in CrcValues /\ 0 \in CrcValues
  BY <1>1, ByteBits, CrcIs
<1>7. h = 0
  BY <1>5, <1>6, SameBits
<1> QED BY <1>1, <1>2, <1>7

\* Flipping bits of a byte gives another byte.
LEMMA XorBytes ==
  ASSUME NEW a \in Bytes, NEW mask \in Bytes \ {0}
  PROVE  Xor(a, mask) \in Bytes /\ Xor(a, mask) # a
<1>1. a \in CrcValues /\ mask \in CrcValues /\ 0 \in CrcValues /\ a \in Nat /\ mask \in Nat
  BY ByteBits, CrcIs
<1>2. /\ Xor(a, mask) \in CrcValues
      /\ \A k \in Places : Bit(Xor(a, mask), k) = Unlike(Bit(a, k), Bit(mask, k))
  BY <1>1, XorBits DEF Unlike
<1>3. ASSUME NEW k \in Places, k >= 8 PROVE Bit(Xor(a, mask), k) = 0
  BY <1>2, <1>3, ByteBits DEF Unlike
<1>4. ASSUME Xor(a, mask) = a PROVE FALSE
  <2>1. ASSUME NEW k \in Places PROVE Bit(mask, k) = Bit(0, k)
    <3>1. Bit(a, k) \in {0, 1} /\ Bit(mask, k) \in {0, 1} /\ Bit(0, k) = 0
      BY <1>1, BitIsOne, BitsOfZero
    <3>2. Bit(a, k) = Unlike(Bit(a, k), Bit(mask, k))
      BY <1>2, <1>4
    <3> QED BY <3>1, <3>2 DEF Unlike
  <2>2. mask = 0
    BY <1>1, <2>1, SameBits
  <2> QED BY <2>2
<1> QED BY <1>2, <1>3, <1>4, IsByte

-----------------------------------------------------------------------------
(* The steps. *)

Sent == Frame(text, Adjusted(crc))

\* The invariant: the remainder is that of the text, and what is on the wire is
\* its frame, with another byte in one place of text or checksum if it was damaged.
CrcInv ==
  /\ text \in Seq(Bytes \ {EndOfInput})
  /\ crc = Remainder(text)
  /\ frame # <<>> => text # <<>>
  /\ \/ line = "clean" /\ (frame = <<>> \/ frame = Sent)
     \/ /\ line = "damaged"
        /\ \E k \in 1 .. Len(text) + 2, byte \in Bytes :
             byte # Sent[k] /\ frame = [Sent EXCEPT ![k] = byte]

LEMMA TextIsBytes ==
  ASSUME NEW t \in Seq(Bytes \ {EndOfInput})
  PROVE  t \in Seq(Bytes) /\ \A k \in 1 .. Len(t) : t[k] # EndOfInput
OBVIOUS

LEMMA ChangedIs ==
  ASSUME NEW s \in Seq(Bytes), NEW k \in 1 .. Len(s), NEW byte \in Bytes, NEW g,
         g = [s EXCEPT ![k] = byte]
  PROVE  /\ g \in Seq(Bytes) /\ Len(g) = Len(s) /\ g[k] = byte
         /\ \A j \in 1 .. Len(s) : j # k => g[j] = s[j]
OBVIOUS

LEMMA SentIs ==
  ASSUME text \in Seq(Bytes \ {EndOfInput}), crc = Remainder(text)
  PROVE  /\ crc \in CrcValues /\ Adjusted(crc) \in CrcValues
         /\ Sent \in Seq(Bytes) /\ Len(Sent) = Len(text) + 3
         /\ \A k \in 1 .. Len(text) : Sent[k] = text[k]
         /\ Sent[Len(text) + 1] = High(Adjusted(crc)) /\ Sent[Len(text) + 2] = Low(Adjusted(crc))
         /\ Sent[Len(text) + 3] = EndOfInput
<1>1. text \in Seq(Bytes)
  BY TextIsBytes
<1>2. crc \in CrcValues
  BY <1>1, RemainderKeeps
<1>3. Adjusted(crc) \in CrcValues
  BY <1>2, AdjustedIs
<1> QED BY <1>1, <1>2, <1>3, FrameIs DEF Sent

LEMMA CrcInitial == Init => CrcInv
<1> SUFFICES ASSUME Init PROVE CrcInv
  OBVIOUS
<1>1. text = <<>> /\ crc = 0 /\ frame = <<>> /\ line = "clean"
  BY DEF Init
<1>2. <<>> \in Seq(Bytes \ {EndOfInput})
  OBVIOUS
<1> QED BY <1>1, <1>2, RemainderOfNothing DEF CrcInv

LEMMA CrcTakeByte == CrcInv /\ TakeByte => CrcInv'
<1> SUFFICES ASSUME CrcInv, TakeByte PROVE CrcInv'
  OBVIOUS
<1>1. /\ text \in Seq(Bytes \ {EndOfInput}) /\ crc = Remainder(text)
      /\ frame = <<>> /\ frame' = <<>> /\ line' = line
  BY DEF CrcInv, TakeByte
<1>2. PICK byte \in TextBytes[Len(text) + 1] : text' = Append(text, byte) /\ crc' = Update(crc, byte)
  BY DEF TakeByte
<1>3. byte \in Bytes \ {EndOfInput}
  <2>1. Len(text) < Len(TextBytes) /\ TextBytes \in Seq(SUBSET (Bytes \ {EndOfInput}))
    BY TextAssumption DEF TakeByte
  <2>2. Len(text) + 1 \in 1 .. Len(TextBytes)
    BY <1>1, <2>1
  <2>3. TextBytes[Len(text) + 1] \in SUBSET (Bytes \ {EndOfInput})
    <3> DEFINE S == SUBSET (Bytes \ {EndOfInput})
    <3>1. TextBytes \in Seq(S)
      BY <2>1
    <3> HIDE DEF S
    <3>2. TextBytes[Len(text) + 1] \in S
      BY <2>2, <3>1
    <3> QED BY <3>2 DEF S
  <2> QED BY <2>3
<1>4. text' \in Seq(Bytes \ {EndOfInput})
  BY <1>1, <1>2, <1>3
<1>5. crc' = Remainder(text')
  <2>1. text \in Seq(Bytes)
    BY <1>1, TextIsBytes
  <2> QED BY <1>1, <1>2, <1>3, <2>1, NextRemainder
<1>6. line' = "clean"
  <2>1. CASE line = "clean"
    BY <1>1, <2>1
  <2>2. CASE line = "damaged"
    <3>1. PICK k \in 1 .. Len(text) + 2, other \in Bytes : frame = [Sent EXCEPT ![k] = other]
      BY <2>2 DEF CrcInv
    <3>2. Len(frame) = Len(text) + 3 /\ Len(text) \in Nat
      <4>1. Sent \in Seq(Bytes) /\ Len(Sent) = Len(text) + 3 /\ k \in 1 .. Len(Sent)
        BY <1>1, SentIs
      <4> QED BY <1>1, <3>1, <4>1, ChangedIs
    <3> QED BY <1>1, <3>2
  <2> QED BY <2>1, <2>2 DEF CrcInv
<1> QED BY <1>1, <1>4, <1>5, <1>6 DEF CrcInv

LEMMA CrcSend == CrcInv /\ Send => CrcInv'
<1> SUFFICES ASSUME CrcInv, Send PROVE CrcInv'
  OBVIOUS
<1>1. /\ text \in Seq(Bytes \ {EndOfInput}) /\ crc = Remainder(text) /\ text # <<>>
      /\ frame = <<>> /\ frame' = Sent /\ line' = line /\ text' = text /\ crc' = crc
  BY DEF CrcInv, Send, Sent
<1>2. line = "clean"
  <2>1. CASE line = "damaged"
    <3>1. PICK k \in 1 .. Len(text) + 2, other \in Bytes : frame = [Sent EXCEPT ![k] = other]
      BY <2>1 DEF CrcInv
    <3>2. Len(frame) = Len(text) + 3 /\ Len(text) \in Nat
      <4>1. Sent \in Seq(Bytes) /\ Len(Sent) = Len(text) + 3 /\ k \in 1 .. Len(Sent)
        BY <1>1, SentIs
      <4> QED BY <1>1, <3>1, <4>1, ChangedIs
    <3> QED BY <1>1, <3>2
  <2> QED BY <2>1 DEF CrcInv
<1> QED BY <1>1, <1>2 DEF CrcInv, Sent

LEMMA CrcDamage == CrcInv /\ Damage => CrcInv'
<1> SUFFICES ASSUME CrcInv, Damage PROVE CrcInv'
  OBVIOUS
<1>1. /\ text \in Seq(Bytes \ {EndOfInput}) /\ crc = Remainder(text)
      /\ frame # <<>> /\ text # <<>> /\ line = "clean" /\ line' = "damaged" /\ text' = text /\ crc' = crc
  BY DEF CrcInv, Damage
<1>2. frame = Sent
  BY <1>1 DEF CrcInv
<1>3. PICK k \in 1 .. Len(frame) - 1, mask \in Masks : frame' = [frame EXCEPT ![k] = Xor(@, mask)]
  BY DEF Damage
<1>4. k \in 1 .. Len(text) + 2 /\ k \in 1 .. Len(Sent) /\ Sent \in Seq(Bytes)
  BY <1>1, <1>2, <1>3, SentIs
<1>5. mask \in Bytes \ {0} /\ Sent[k] \in Bytes
  BY <1>4, TextAssumption
<1>6. Xor(Sent[k], mask) \in Bytes /\ Xor(Sent[k], mask) # Sent[k]
  BY <1>5, XorBytes
<1>7. frame' = [Sent EXCEPT ![k] = Xor(Sent[k], mask)]
  BY <1>2, <1>3
<1>8. Sent' = Sent
  BY <1>1 DEF Sent
<1> QED BY <1>1, <1>4, <1>6, <1>7, <1>8 DEF CrcInv

LEMMA CrcStep == CrcInv /\ [Next]_vars => CrcInv'
<1> SUFFICES ASSUME CrcInv, [Next]_vars PROVE CrcInv'
  OBVIOUS
<1>1. ASSUME UNCHANGED vars PROVE CrcInv'
  BY <1>1 DEF vars, CrcInv, Sent
<1> QED BY <1>1, CrcTakeByte, CrcSend, CrcDamage DEF Next, OnTheWire

THEOREM CrcInvariant == Spec => []CrcInv
BY CrcInitial, CrcStep, PTL DEF Spec

\* The frame on the wire, as it was sent or with one byte changed.
LEMMA WireIs ==
  ASSUME CrcInv, frame # <<>>
  PROVE  /\ frame \in Seq(Bytes) /\ Len(frame) = Len(text) + 3 /\ Len(text) \in Nat \ {0}
         /\ frame[Len(text) + 3] = EndOfInput
<1>1. text \in Seq(Bytes \ {EndOfInput}) /\ crc = Remainder(text) /\ text # <<>>
  BY DEF CrcInv
<1>2. Sent \in Seq(Bytes) /\ Len(Sent) = Len(text) + 3 /\ Sent[Len(text) + 3] = EndOfInput
  BY <1>1, SentIs
<1>3. Len(text) \in Nat \ {0}
  BY <1>1
<1>4. CASE frame = Sent
  BY <1>2, <1>3, <1>4
<1>5. CASE line = "damaged"
  <2>1. PICK k \in 1 .. Len(text) + 2, byte \in Bytes : frame = [Sent EXCEPT ![k] = byte]
    BY <1>5 DEF CrcInv
  <2>2. k \in 1 .. Len(Sent) /\ Len(text) + 3 \in 1 .. Len(Sent) /\ Len(text) + 3 # k
    BY <1>2, <1>3
  <2>3. frame \in Seq(Bytes) /\ Len(frame) = Len(Sent) /\ frame[Len(text) + 3] = Sent[Len(text) + 3]
    BY <1>2, <2>1, <2>2, ChangedIs
  <2> QED BY <1>2, <1>3, <2>3
<1> QED BY <1>4, <1>5 DEF CrcInv

\* Theorem: the remainder fits voltronic_crc_t whatever the text, and what is
\* sent is a sequence of bytes.
THEOREM CrcTypeCorrect == Spec => []TypeOK
<1>1. ASSUME CrcInv PROVE TypeOK
  <2>1. text \in Seq(Bytes) /\ line \in {"clean", "damaged"}
    BY <1>1, TextIsBytes DEF CrcInv
  <2>2. crc \in CrcValues
    BY <1>1, <2>1, RemainderKeeps DEF CrcInv
  <2>3. <<>> \in Seq(Bytes)
    OBVIOUS
  <2>4. frame \in Seq(Bytes)
    BY <1>1, <2>3, WireIs
  <2> QED BY <2>1, <2>2, <2>4 DEF TypeOK
<1> QED BY <1>1, CrcInvariant, PTL

\* A frame without another '\r' is read whole; what the receiver compares.
LEMMA Compared ==
  ASSUME CrcInv, frame # <<>>, \A j \in 1 .. Len(frame) - 1 : frame[j] # EndOfInput
  PROVE  /\ UpToEndOfInput(frame) = frame
         /\ Accepted <=>
              (256 * frame[Len(text) + 1]) + frame[Len(text) + 2]
                = Adjusted(Remainder(SubSeq(frame, 1, Len(text))))
<1> DEFINE n == Len(text)
<1>1. /\ frame \in Seq(Bytes) /\ Len(frame) = n + 3 /\ n \in Nat \ {0}
      /\ frame[n + 3] = EndOfInput
  BY WireIs
<1> HIDE DEF n
<1>2. UpToEndOfInput(frame) = frame
  <2>1. frame # <<>> /\ frame[Len(frame)] = EndOfInput
    BY <1>1
  <2> QED BY <1>1, <2>1, ReadWhole
<1>3. Len(frame) - 3 = n /\ n > 0
  BY <1>1
<1>4. ReadCrc(SubSeq(frame, n + 1, n + 2)) = (256 * frame[n + 1]) + frame[n + 2]
  <2> DEFINE two == SubSeq(frame, n + 1, n + 2)
  <2>1. two[1] = frame[n + 1] /\ two[2] = frame[n + 2]
    BY <1>1
  <2> HIDE DEF two
  <2>2. ReadCrc(two) = (256 * frame[n + 1]) + frame[n + 2]
    BY <2>1 DEF ReadCrc
  <2> QED BY <2>2 DEF two
<1>5. SubSeq(frame, 1, n) # <<>>
  <2>1. Len(SubSeq(frame, 1, n)) = n
    BY <1>1
  <2> QED BY <1>1, <2>1
<1>6. Calculate(SubSeq(frame, 1, n)) = Adjusted(Remainder(SubSeq(frame, 1, n)))
  BY <1>5 DEF Calculate
<1> QED BY <1>2, <1>3, <1>4, <1>6 DEF Accepted, n

\* Where no '\r' is in a frame as it was sent.
LEMMA SentEndsOnce ==
  ASSUME CrcInv
  PROVE  /\ \A k \in 1 .. Len(text) + 2 : Sent[k] # EndOfInput
         /\ \A k \in Len(text) + 1 .. Len(text) + 2 : Sent[k] \notin ReservedBytes
<1>1. text \in Seq(Bytes \ {EndOfInput}) /\ crc = Remainder(text)
  BY DEF CrcInv
<1>2. /\ crc \in CrcValues
      /\ \A k \in 1 .. Len(text) : Sent[k] = text[k]
      /\ Sent[Len(text) + 1] = High(Adjusted(crc)) /\ Sent[Len(text) + 2] = Low(Adjusted(crc))
  BY <1>1, SentIs
<1>3. High(Adjusted(crc)) \notin ReservedBytes /\ Low(Adjusted(crc)) \notin ReservedBytes
  <2>1. High(crc) \in Bytes /\ Low(crc) \in Bytes
    BY <1>2, CrcBytes
  <2> QED BY <1>2, <2>1, AdjustedIs, UpIs
<1>4. \A k \in 1 .. Len(text) : text[k] # EndOfInput
  BY <1>1, TextIsBytes
<1>5. \A k \in 1 .. Len(text) + 2 : k \in 1 .. Len(text) \/ k = Len(text) + 1 \/ k = Len(text) + 2
  BY <1>1
<1>6. \A k \in Len(text) + 1 .. Len(text) + 2 : k = Len(text) + 1 \/ k = Len(text) + 2
  BY <1>1
<1>7. EndOfInput \in ReservedBytes
  BY DEF EndOfInput, ReservedBytes
<1> QED BY <1>2, <1>3, <1>4, <1>5, <1>6, <1>7

\* Theorem: whatever the text, its frame holds one '\r', the last byte, and its
\* checksum no reserved byte: calculate_voltronic_crc's increments are enough.
THEOREM CrcFrameEnds == Spec => []FrameEndsAtItsEnd
<1>1. ASSUME CrcInv PROVE FrameEndsAtItsEnd
  <2> SUFFICES ASSUME frame # <<>>, line = "clean"
               PROVE  /\ UpToEndOfInput(frame) = frame
                      /\ \A k \in Len(text) + 1 .. Len(text) + 2 : frame[k] \notin ReservedBytes
    BY DEF FrameEndsAtItsEnd
  <2>1. frame = Sent
    BY <1>1 DEF CrcInv
  <2>2. Len(frame) - 1 = Len(text) + 2
    BY <1>1, WireIs
  <2>3. \A k \in 1 .. Len(text) + 2 : frame[k] # EndOfInput
    BY <1>1, <2>1, SentEndsOnce
  <2>4. \A k \in Len(text) + 1 .. Len(text) + 2 : frame[k] \notin ReservedBytes
    BY <1>1, <2>1, SentEndsOnce
  <2>5. UpToEndOfInput(frame) = frame
    BY <1>1, <2>2, <2>3, Compared
  <2> QED BY <2>4, <2>5
<1> QED BY <1>1, CrcInvariant, PTL

\* Theorem: voltronic_receive_data would accept every frame that
\* voltronic_send_data puts on the wire, if the line leaves it alone.
THEOREM CrcSentIsAccepted == Spec => []SentIsAccepted
<1>1. ASSUME CrcInv PROVE SentIsAccepted
  <2> SUFFICES ASSUME frame # <<>>, line = "clean" PROVE Accepted
    BY DEF SentIsAccepted
  <2>1. frame = Sent
    BY <1>1 DEF CrcInv
  <2>2. Len(frame) - 1 = Len(text) + 2 /\ frame \in Seq(Bytes) /\ Len(frame) = Len(text) + 3
    BY <1>1, WireIs
  <2>3. \A k \in 1 .. Len(text) + 2 : frame[k] # EndOfInput
    BY <1>1, <2>1, SentEndsOnce
  <2>4. text \in Seq(Bytes) /\ crc = Remainder(text)
    BY <1>1, TextIsBytes DEF CrcInv
  <2>5. SubSeq(frame, 1, Len(text)) = text
    <3>1. \A k \in 1 .. Len(text) : frame[k] = text[k]
      BY <1>1, <2>1, SentIs DEF CrcInv
    <3> QED BY <2>2, <2>4, <3>1
  <2>6. (256 * frame[Len(text) + 1]) + frame[Len(text) + 2] = Adjusted(crc)
    <3>1. /\ Adjusted(crc) \in CrcValues
          /\ frame[Len(text) + 1] = High(Adjusted(crc)) /\ frame[Len(text) + 2] = Low(Adjusted(crc))
      BY <1>1, <2>1, SentIs DEF CrcInv
    <3>2. Adjusted(crc) = (256 * High(Adjusted(crc))) + Low(Adjusted(crc))
      BY <3>1, CrcBytes
    <3> QED BY <3>1, <3>2
  <2>7. Accepted <=> (256 * frame[Len(text) + 1]) + frame[Len(text) + 2]
                       = Adjusted(Remainder(SubSeq(frame, 1, Len(text))))
    BY <1>1, <2>2, <2>3, Compared
  <2> QED BY <2>4, <2>5, <2>6, <2>7
<1> QED BY <1>1, CrcInvariant, PTL

-----------------------------------------------------------------------------
(* A text of a single byte: its checksum tells it. *)

\* What an increment leaves alone of the two bytes are the bits above two.
LEMMA SameAdjusted ==
  ASSUME NEW c \in CrcValues, NEW d \in CrcValues, Adjusted(c) = Adjusted(d)
  PROVE  /\ \A k \in Places : k >= 2 /\ k < 8 => Bit(c, k) = Bit(d, k)
         /\ \A k \in Places : k >= 10 => Bit(c, k) = Bit(d, k)
<1> DEFINE Upper(w) == \A k \in Places : k >= 2 /\ k < 8 => Bit(w, k) = Bit(Low(w) \div 4, k - 2)
           Topmost(w) == \A k \in Places : k >= 10 => Bit(w, k) = Bit(High(w) \div 4, k - 10)
<1>1. ASSUME NEW w \in CrcValues PROVE Upper(w) /\ Topmost(w)
  <2> DEFINE h == High(w)  l == Low(w)  hq == h \div 4  lq == l \div 4
  <2>1. h \in Bytes /\ l \in Bytes /\ w = (256 * h) + l
    BY CrcBytes
  <2> HIDE DEF h, l
  <2>2. h \in Nat /\ l \in Nat /\ l < 256 /\ h = (4 * hq) + (h % 4) /\ l = (4 * lq) + (l % 4)
        /\ hq \in Nat /\ lq \in Nat /\ h % 4 \in Nat /\ l % 4 \in Nat /\ h % 4 < 4 /\ l % 4 < 4
    <3>1. h \in Nat /\ l \in Nat /\ l < 256
      BY <2>1, ByteIs
    <3> QED BY <3>1
  <2> HIDE DEF hq, lq
  <2>3. Parts(w, 8, h, l) /\ Parts(h, 2, hq, h % 4) /\ Parts(l, 2, lq, l % 4)
    BY <2>1, <2>2 DEF Parts, Places
  <2>4. /\ \A j \in Places : j < 8 => Bit(w, j) = Bit(l, j)
        /\ \A j \in Places : 8 + j \in Places => Bit(w, 8 + j) = Bit(h, j)
        /\ \A j \in Places : 2 + j \in Places => Bit(h, 2 + j) = Bit(hq, j)
        /\ \A j \in Places : 2 + j \in Places => Bit(l, 2 + j) = Bit(lq, j)
    BY <2>3, PartsHaveBits
  <2>5. ASSUME NEW k \in Places, k >= 2, k < 8 PROVE Bit(w, k) = Bit(lq, k - 2)
    <3>1. k - 2 \in Places /\ 2 + (k - 2) = k
      BY <2>5 DEF Places
    <3> QED BY <2>4, <2>5, <3>1
  <2>6. ASSUME NEW k \in Places, k >= 10 PROVE Bit(w, k) = Bit(hq, k - 10)
    <3>1. k - 8 \in Places /\ 8 + (k - 8) = k /\ k - 10 \in Places /\ 2 + (k - 10) = k - 8
      BY <2>6 DEF Places
    <3> QED BY <2>4, <3>1
  <2> QED BY <2>5, <2>6 DEF hq, lq, h, l
<1> HIDE DEF Upper, Topmost
<1>2. Low(c) \div 4 = Low(d) \div 4 /\ High(c) \div 4 = High(d) \div 4
  <2>1. /\ High(c) \in Bytes /\ Low(c) \in Bytes /\ High(d) \in Bytes /\ Low(d) \in Bytes
    BY CrcBytes
  <2>2. Up(High(c)) = Up(High(d)) /\ Up(Low(c)) = Up(Low(d))
    BY AdjustedIs
  <2> QED BY <2>1, <2>2, UpIs
<1> QED BY <1>1, <1>2 DEF Upper, Topmost

\* The bits of the remainder of one byte that tell its two halves.
LEMMA OneByteBits ==
  ASSUME NEW h \in Nibbles, NEW l \in Nibbles, NEW u, u = TakeNibble(TakeNibble(0, h), l)
  PROVE  /\ u \in CrcValues
         /\ Bit(u, 4) = Bit(h, 0) /\ Bit(u, 10) = Bit(h, 1) /\ Bit(u, 11) = Bit(h, 2)
         /\ Bit(u, 7) = Unlike(Bit(h, 3), Unlike(Bit(h, 2), Bit(l, 2)))
         /\ Bit(u, 12) = Unlike(Bit(h, 3), Unlike(Bit(h, 0), Bit(l, 0)))
         /\ Bit(u, 13) = Unlike(Bit(h, 1), Bit(l, 1))
         /\ Bit(u, 14) = Unlike(Bit(h, 2), Bit(l, 2))
         /\ Bit(u, 15) = Unlike(Bit(h, 3), Bit(l, 3))
<1> DEFINE s == TakeNibble(0, h)
<1>1. 0 \in CrcValues
  BY CrcIs
<1>2. s \in CrcValues /\ \A k \in Places : Bit(s, k) = Shifted(0, h, k)
  BY <1>1, TakeNibbleBits
<1> HIDE DEF s
<1>3. u \in CrcValues /\ \A k \in Places : Bit(u, k) = Shifted(s, l, k)
  BY <1>2, TakeNibbleBits DEF s
<1>4. \A b \in {0, 1} : Unlike(0, b) = b /\ Unlike(b, 0) = b
  BY DEF Unlike
<1>5. ASSUME NEW j \in Places, j < 4 PROVE Mixed(0, h, j) = Bit(h, j)
  <2>1. 12 + j \in Places /\ h \in Nat
    BY <1>5, NibbleIsWord DEF Places
  <2>2. Bit(0, 12 + j) = 0 /\ Bit(h, j) \in {0, 1}
    BY <2>1, BitsOfZero, BitIsOne
  <2> QED BY <1>4, <2>2 DEF Mixed
<1>6. /\ 0 \in Places /\ 1 \in Places /\ 2 \in Places /\ 3 \in Places /\ 4 \in Places /\ 5 \in Places
      /\ 6 \in Places /\ 7 \in Places /\ 8 \in Places /\ 9 \in Places /\ 10 \in Places /\ 11 \in Places
      /\ 12 \in Places /\ 13 \in Places /\ 14 \in Places /\ 15 \in Places
  BY DEF Places
<1>7. h \in Nat /\ l \in Nat
  BY NibbleIsWord
<1>8. /\ Bit(h, 0) \in {0, 1} /\ Bit(h, 1) \in {0, 1} /\ Bit(h, 2) \in {0, 1} /\ Bit(h, 3) \in {0, 1}
      /\ Bit(0, 1) = 0 /\ Bit(0, 2) = 0 /\ Bit(0, 3) = 0 /\ Bit(0, 4) = 0 /\ Bit(0, 8) = 0
      /\ Bit(0, 9) = 0 /\ Bit(0, 10) = 0 /\ Bit(0, 11) = 0
  BY <1>6, <1>7, BitIsOne, BitsOfZero
<1>9. /\ Mixed(0, h, 0) = Bit(h, 0) /\ Mixed(0, h, 1) = Bit(h, 1)
      /\ Mixed(0, h, 2) = Bit(h, 2) /\ Mixed(0, h, 3) = Bit(h, 3)
  BY <1>5, <1>6
<1>10. /\ Bit(s, 0) = Bit(h, 0) /\ Bit(s, 3) = Bit(h, 3) /\ Bit(s, 6) = Bit(h, 1)
       /\ Bit(s, 7) = Bit(h, 2) /\ Bit(s, 8) = Bit(h, 3)
  <2>1. Bit(s, 0) = Bit(h, 0) /\ Bit(s, 3) = Bit(h, 3)
    BY <1>2, <1>6, <1>9 DEF Shifted
  <2>2. Bit(s, 6) = Unlike(Bit(0, 2), Bit(h, 1))
    BY <1>2, <1>6, <1>9 DEF Shifted
  <2>3. Bit(s, 7) = Unlike(Bit(0, 3), Bit(h, 2)) /\ Bit(s, 8) = Unlike(Bit(0, 4), Bit(h, 3))
    BY <1>2, <1>6, <1>9 DEF Shifted
  <2> QED BY <1>4, <1>8, <2>1, <2>2, <2>3
<1>11. Bit(s, 9) = 0 /\ Bit(s, 10) = 0 /\ Bit(s, 11) = 0
  <2>1. Bit(s, 9) = Bit(0, 5) /\ Bit(s, 10) = Bit(0, 6) /\ Bit(s, 11) = Bit(0, 7)
    BY <1>2, <1>6 DEF Shifted
  <2> QED BY <1>6, <2>1, BitsOfZero
<1>12. /\ Bit(s, 12) = Bit(h, 0) /\ Bit(s, 13) = Bit(h, 1)
       /\ Bit(s, 14) = Bit(h, 2) /\ Bit(s, 15) = Bit(h, 3)
  <2>1. /\ Bit(s, 12) = Unlike(Bit(0, 8), Bit(h, 0)) /\ Bit(s, 13) = Unlike(Bit(0, 9), Bit(h, 1))
        /\ Bit(s, 14) = Unlike(Bit(0, 10), Bit(h, 2)) /\ Bit(s, 15) = Unlike(Bit(0, 11), Bit(h, 3))
    BY <1>2, <1>6, <1>9 DEF Shifted
  <2> QED BY <1>4, <1>8, <2>1
<1>13. /\ Mixed(s, l, 0) = Unlike(Bit(h, 0), Bit(l, 0)) /\ Mixed(s, l, 1) = Unlike(Bit(h, 1), Bit(l, 1))
       /\ Mixed(s, l, 2) = Unlike(Bit(h, 2), Bit(l, 2)) /\ Mixed(s, l, 3) = Unlike(Bit(h, 3), Bit(l, 3))
  BY <1>12 DEF Mixed
<1>14. /\ Bit(u, 4) = Bit(s, 0) /\ Bit(u, 10) = Bit(s, 6) /\ Bit(u, 11) = Bit(s, 7)
       /\ Bit(u, 7) = Unlike(Bit(s, 3), Mixed(s, l, 2)) /\ Bit(u, 12) = Unlike(Bit(s, 8), Mixed(s, l, 0))
       /\ Bit(u, 13) = Unlike(Bit(s, 9), Mixed(s, l, 1))
       /\ Bit(u, 14) = Unlike(Bit(s, 10), Mixed(s, l, 2))
       /\ Bit(u, 15) = Unlike(Bit(s, 11), Mixed(s, l, 3))
  BY <1>3, <1>6 DEF Shifted
<1>15. \A x, y : Unlike(x, y) \in {0, 1}
  BY DEF Unlike
<1> QED BY <1>3, <1>4, <1>10, <1>11, <1>13, <1>14, <1>15

LEMMA OneByteText ==
  ASSUME NEW b \in Bytes, NEW bb \in Bytes, Adjusted(Update(0, b)) = Adjusted(Update(0, bb))
  PROVE  b = bb
<1> DEFINE h == b \div 16  l == b % 16  hh == bb \div 16  ll == bb % 16
           u == Update(0, b)  uu == Update(0, bb)
<1>1. /\ h \in Nibbles /\ l \in Nibbles /\ hh \in Nibbles /\ ll \in Nibbles
      /\ b = (16 * h) + l /\ bb = (16 * hh) + ll
  BY ByteHalves
<1>2. u = TakeNibble(TakeNibble(0, h), l) /\ uu = TakeNibble(TakeNibble(0, hh), ll)
  BY DEF Update
<1>3. Adjusted(u) = Adjusted(uu)
  OBVIOUS
<1> HIDE DEF h, l, hh, ll, u, uu
<1>4. /\ u \in CrcValues
      /\ Bit(u, 4) = Bit(h, 0) /\ Bit(u, 10) = Bit(h, 1) /\ Bit(u, 11) = Bit(h, 2)
      /\ Bit(u, 7) = Unlike(Bit(h, 3), Unlike(Bit(h, 2), Bit(l, 2)))
      /\ Bit(u, 12) = Unlike(Bit(h, 3), Unlike(Bit(h, 0), Bit(l, 0)))
      /\ Bit(u, 13) = Unlike(Bit(h, 1), Bit(l, 1))
      /\ Bit(u, 14) = Unlike(Bit(h, 2), Bit(l, 2))
      /\ Bit(u, 15) = Unlike(Bit(h, 3), Bit(l, 3))
  BY <1>1, <1>2, OneByteBits
<1>5. /\ uu \in CrcValues
      /\ Bit(uu, 4) = Bit(hh, 0) /\ Bit(uu, 10) = Bit(hh, 1) /\ Bit(uu, 11) = Bit(hh, 2)
      /\ Bit(uu, 7) = Unlike(Bit(hh, 3), Unlike(Bit(hh, 2), Bit(ll, 2)))
      /\ Bit(uu, 12) = Unlike(Bit(hh, 3), Unlike(Bit(hh, 0), Bit(ll, 0)))
      /\ Bit(uu, 13) = Unlike(Bit(hh, 1), Bit(ll, 1))
      /\ Bit(uu, 14) = Unlike(Bit(hh, 2), Bit(ll, 2))
      /\ Bit(uu, 15) = Unlike(Bit(hh, 3), Bit(ll, 3))
  BY <1>1, <1>2, OneByteBits
<1>6. /\ Bit(u, 4) = Bit(uu, 4) /\ Bit(u, 7) = Bit(uu, 7) /\ Bit(u, 10) = Bit(uu, 10)
      /\ Bit(u, 11) = Bit(uu, 11) /\ Bit(u, 12) = Bit(uu, 12) /\ Bit(u, 13) = Bit(uu, 13)
      /\ Bit(u, 14) = Bit(uu, 14) /\ Bit(u, 15) = Bit(uu, 15)
  <2>1. /\ \A k \in Places : k >= 2 /\ k < 8 => Bit(u, k) = Bit(uu, k)
        /\ \A k \in Places : k >= 10 => Bit(u, k) = Bit(uu, k)
    BY <1>3, <1>4, <1>5, SameAdjusted
  <2> QED BY <2>1 DEF Places
<1>7. \A n \in Nibbles : /\ Bit(n, 0) \in {0, 1} /\ Bit(n, 1) \in {0, 1}
                         /\ Bit(n, 2) \in {0, 1} /\ Bit(n, 3) \in {0, 1}
  BY NibbleIsWord, BitIsOne DEF Places
<1>8. Bit(h, 0) = Bit(hh, 0) /\ Bit(h, 1) = Bit(hh, 1) /\ Bit(h, 2) = Bit(hh, 2)
  BY <1>4, <1>5, <1>6
<1>9. Bit(h, 3) = Bit(hh, 3) /\ Bit(l, 2) = Bit(ll, 2)
  BY <1>1, <1>4, <1>5, <1>6, <1>7, <1>8 DEF Unlike
<1>10. Bit(l, 0) = Bit(ll, 0) /\ Bit(l, 1) = Bit(ll, 1) /\ Bit(l, 3) = Bit(ll, 3)
  BY <1>1, <1>4, <1>5, <1>6, <1>7, <1>8, <1>9 DEF Unlike
<1>11. \A j \in Places : j < 4 => j = 0 \/ j = 1 \/ j = 2 \/ j = 3
  BY DEF Places
<1>12. h = hh /\ l = ll
  BY <1>1, <1>8, <1>9, <1>10, <1>11, SameNibble
<1> QED BY <1>1, <1>12

LEMMA OneByteRemainder ==
  ASSUME NEW t \in Seq(Bytes), Len(t) = 1
  PROVE  t[1] \in Bytes /\ Remainder(t) = Update(0, t[1])
<1>1. t[1] \in Bytes /\ <<>> \in Seq(Bytes) /\ t = Append(<<>>, t[1])
  OBVIOUS
<1> QED BY <1>1, NextRemainder, RemainderOfNothing

\* Whoever accepts a frame of which one byte was changed and none is a '\r' has
\* a text with another remainder and the same checksum before it.
LEMMA AcceptedTwin ==
  ASSUME CrcInv, line = "damaged", Accepted,
         \A j \in 1 .. Len(frame) - 1 : frame[j] # EndOfInput
  PROVE  \E u \in Seq(Bytes) :
           /\ u = SubSeq(frame, 1, Len(text)) /\ Len(u) = Len(text)
           /\ Remainder(u) # crc /\ Adjusted(Remainder(u)) = Adjusted(crc)
           /\ Len(text) = 1 => u[1] # text[1]
<1> DEFINE n == Len(text)  u == SubSeq(frame, 1, n)
<1>1. /\ text \in Seq(Bytes \ {EndOfInput}) /\ crc = Remainder(text) /\ frame # <<>>
      /\ text \in Seq(Bytes)
  <2>1. PICK k \in 1 .. Len(text) + 2, byte \in Bytes : frame = [Sent EXCEPT ![k] = byte]
    BY DEF CrcInv
  <2>2. Sent \in Seq(Bytes) /\ Len(Sent) = Len(text) + 3 /\ Len(text) \in Nat
    BY SentIs DEF CrcInv
  <2>3. k \in 1 .. Len(Sent)
    BY <2>2
  <2>4. Len(frame) = Len(text) + 3
    BY <2>1, <2>2, <2>3, ChangedIs
  <2>5. frame # <<>>
    BY <2>2, <2>4
  <2> QED BY <2>5, TextIsBytes DEF CrcInv
<1>2. PICK k \in 1 .. n + 2, byte \in Bytes : byte # Sent[k] /\ frame = [Sent EXCEPT ![k] = byte]
  BY DEF CrcInv
<1>3. /\ crc \in CrcValues /\ Adjusted(crc) \in CrcValues
      /\ Sent \in Seq(Bytes) /\ Len(Sent) = n + 3 /\ n \in Nat \ {0}
      /\ \A j \in 1 .. n : Sent[j] = text[j]
      /\ Sent[n + 1] = High(Adjusted(crc)) /\ Sent[n + 2] = Low(Adjusted(crc))
  BY <1>1, SentIs, WireIs
<1>4. /\ frame \in Seq(Bytes) /\ Len(frame) = n + 3 /\ frame[k] = byte
      /\ \A j \in 1 .. n + 3 : j # k => frame[j] = Sent[j]
  <2>1. k \in 1 .. Len(Sent)
    BY <1>3
  <2> QED BY <1>2, <1>3, <2>1, ChangedIs
<1>5. u \in Seq(Bytes) /\ Len(u) = n /\ \A j \in 1 .. n : u[j] = frame[j]
  BY <1>3, <1>4
<1>6. (256 * frame[n + 1]) + frame[n + 2] = Adjusted(Remainder(u))
  BY <1>1, Compared
<1> HIDE DEF n, u
<1>7. frame[n + 1] \in Bytes /\ frame[n + 2] \in Bytes
  BY <1>3, <1>4
<1>8. High(Adjusted(Remainder(u))) = frame[n + 1] /\ Low(Adjusted(Remainder(u))) = frame[n + 2]
  BY <1>6, <1>7, BytesOfCrc
<1>9. k <= n
  <2> SUFFICES ASSUME ~(k <= n) PROVE FALSE
    OBVIOUS
  <2>1. k = n + 1 \/ k = n + 2
    BY <1>3
  <2>2. \A j \in 1 .. n : u[j] = text[j]
    <3>1. \A j \in 1 .. n : j # k /\ j \in 1 .. n + 3
      BY <1>3, <2>1
    <3> QED BY <1>3, <1>4, <1>5, <3>1
  <2>3. u = text
    BY <1>1, <1>5, <2>2 DEF n
  <2>4. frame[n + 1] = Sent[n + 1] /\ frame[n + 2] = Sent[n + 2]
    BY <1>1, <1>3, <1>8, <2>3
  <2> QED BY <1>2, <1>4, <2>1, <2>4
<1>10. Adjusted(Remainder(u)) = Adjusted(crc)
  <2>1. frame[n + 1] = High(Adjusted(crc)) /\ frame[n + 2] = Low(Adjusted(crc))
    <3>1. n + 1 \in 1 .. n + 3 /\ n + 2 \in 1 .. n + 3 /\ n + 1 # k /\ n + 2 # k
      BY <1>3, <1>9
    <3> QED BY <1>3, <1>4, <3>1
  <2>2. Adjusted(crc) = (256 * High(Adjusted(crc))) + Low(Adjusted(crc))
    BY <1>3, CrcBytes
  <2> QED BY <1>6, <2>1, <2>2
<1>11. k \in 1 .. n /\ \A j \in 1 .. n : j # k => u[j] = text[j]
  <2>1. k \in 1 .. n /\ \A j \in 1 .. n : j \in 1 .. n + 3
    BY <1>3, <1>9
  <2> QED BY <1>3, <1>4, <1>5, <2>1
<1>12. u[k] # text[k]
  BY <1>2, <1>3, <1>4, <1>5, <1>11
<1>13. Remainder(text) # Remainder(u)
  <2>1. /\ Len(text) = Len(u) /\ k \in 1 .. Len(text) /\ text[k] # u[k]
        /\ \A j \in 1 .. Len(text) : j # k => text[j] = u[j]
    BY <1>5, <1>11, <1>12 DEF n
  <2> QED BY <1>1, <1>5, <2>1, OneByteTells
<1>14. n = 1 => u[1] # text[1]
  BY <1>3, <1>11, <1>12
<1> QED BY <1>1, <1>5, <1>10, <1>13, <1>14 DEF n, u

\* Theorem: whatever the text and whatever the line makes of one byte of it or of
\* its checksum, the frame is refused, unless the change makes a '\r' or a
\* remainder is one that is adjusted; if the text is a single byte, always.
THEOREM CrcDamageIsRefused == Spec => []DamageIsRefused
<1>1. ASSUME CrcInv PROVE DamageIsRefused
  <2> SUFFICES ASSUME line = "damaged", Accepted
               PROVE  /\ Len(text) > 1
                      /\ \/ \E k \in 1 .. Len(frame) - 1 : frame[k] = EndOfInput
                         \/ IsAdjusted(crc)
                         \/ IsAdjusted(Remainder(SubSeq(frame, 1, Len(text))))
    BY DEF DamageIsRefused
  <2>1. text \in Seq(Bytes \ {EndOfInput}) /\ crc = Remainder(text) /\ text \in Seq(Bytes)
    BY <1>1, TextIsBytes DEF CrcInv
  <2>2. Sent \in Seq(Bytes) /\ Len(Sent) = Len(text) + 3 /\ Len(text) \in Nat
    BY <2>1, SentIs
  <2>3. frame # <<>>
    <3>1. PICK k \in 1 .. Len(text) + 2, byte \in Bytes : frame = [Sent EXCEPT ![k] = byte]
      BY <1>1 DEF CrcInv
    <3>2. k \in 1 .. Len(Sent)
      BY <2>2
    <3>3. Len(frame) = Len(text) + 3
      BY <2>2, <3>1, <3>2, ChangedIs
    <3> QED BY <2>2, <3>3
  <2>4. frame \in Seq(Bytes) /\ Len(frame) = Len(text) + 3 /\ Len(text) \in Nat \ {0}
    BY <1>1, <2>3, WireIs
  <2>5. CASE \E k \in 1 .. Len(frame) - 1 : frame[k] = EndOfInput
    <3>1. PICK k \in 1 .. Len(frame) - 1 : frame[k] = EndOfInput
      BY <2>5
    <3>2. Len(UpToEndOfInput(frame)) \in Nat /\ Len(UpToEndOfInput(frame)) <= k
      <4>1. k \in 1 .. Len(frame)
        BY <2>4
      <4>2. UpToEndOfInput(frame) \in Seq(Bytes) /\ Len(UpToEndOfInput(frame)) <= k
        BY <2>4, <3>1, <4>1, ReadPart
      <4> QED BY <4>2
    <3>3. Len(UpToEndOfInput(frame)) - 3 > 0
      BY DEF Accepted
    <3>4. Len(text) > 1
      BY <2>4, <3>2, <3>3
    <3> QED BY <2>5, <3>4
  <2>6. CASE \A j \in 1 .. Len(frame) - 1 : frame[j] # EndOfInput
    <3>1. PICK u \in Seq(Bytes) :
            /\ u = SubSeq(frame, 1, Len(text)) /\ Len(u) = Len(text)
            /\ Remainder(u) # crc /\ Adjusted(Remainder(u)) = Adjusted(crc)
            /\ Len(text) = 1 => u[1] # text[1]
      BY <1>1, <2>6, AcceptedTwin
    <3>2. Len(text) > 1
      <4> DEFINE n == Len(text)
      <4>3. n \in Nat \ {0}
        BY <2>4
      <4> HIDE DEF n
      <4> SUFFICES ASSUME n = 1 PROVE FALSE
        BY <4>3 DEF n
      <4> USE DEF n
      <4>1. /\ Remainder(text) = Update(0, text[1]) /\ text[1] \in Bytes
            /\ Remainder(u) = Update(0, u[1]) /\ u[1] \in Bytes
        BY <2>1, <3>1, OneByteRemainder
      <4> QED BY <2>1, <3>1, <4>1, OneByteText
    <3>3. IsAdjusted(crc) \/ IsAdjusted(Remainder(u))
      <4>1. crc \in CrcValues /\ Remainder(u) \in CrcValues
        BY <2>1, <3>1, RemainderKeeps
      <4> QED BY <3>1, <4>1, AdjustedIs
    <3> QED BY <3>1, <3>2, <3>3
  <2> QED BY <2>5, <2>6
<1> QED BY <1>1, CrcInvariant, PTL

-----------------------------------------------------------------------------
(* The table against the polynomial, bit by bit. *)

\* The bits of a remainder after i divisions by x, if i is at most 4.
Divided(q, i, k) ==
  IF k < i THEN Bit(q, (16 - i) + k)
  ELSE IF k >= 5 /\ k < 5 + i THEN Unlike(Bit(q, k - i), Bit(q, (11 - i) + k))
  ELSE IF k >= 12 /\ k < 12 + i THEN Unlike(Bit(q, k - i), Bit(q, (4 - i) + k))
  ELSE Bit(q, k - i)

LEMMA DoubledBits ==
  ASSUME NEW w \in CrcValues
  PROVE  /\ (w * 2) % 65536 \in CrcValues
         /\ \A k \in Places : Bit((w * 2) % 65536, k) = IF k = 0 THEN 0 ELSE Bit(w, k - 1)
         /\ Bit(w, 15) = IF w < 32768 THEN 0 ELSE 1
         /\ w < 32768 => (w * 2) % 65536 = w * 2
<1> DEFINE h == w \div 32768  l == w % 32768  v == (w * 2) % 65536
<1>1. w \in Nat /\ w < 65536
  BY CrcIs
<1>2. /\ h \in {0, 1} /\ l \in Nat /\ l < 32768 /\ w = (h * 32768) + l
      /\ v = (l * 2) + 0 /\ v \in Nat /\ v < 65536
      /\ h = (IF w < 32768 THEN 0 ELSE 1) /\ (w < 32768 => v = w * 2)
  BY <1>1
<1> HIDE DEF h, l, v
<1>3. Parts(w, 15, h, l) /\ Parts(v, 1, l, 0)
  BY <1>2 DEF Parts, Places
<1>4. /\ \A j \in Places : j < 15 => Bit(w, j) = Bit(l, j)
      /\ \A j \in Places : 15 + j \in Places => Bit(w, 15 + j) = Bit(h, j)
      /\ \A j \in Places : j < 1 => Bit(v, j) = Bit(0, j)
      /\ \A j \in Places : 1 + j \in Places => Bit(v, 1 + j) = Bit(l, j)
  BY <1>3, PartsHaveBits
<1>5. ASSUME NEW k \in Places PROVE Bit(v, k) = IF k = 0 THEN 0 ELSE Bit(w, k - 1)
  <2>1. CASE k = 0
    BY <1>4, <2>1, BitsOfZero DEF Places
  <2>2. CASE k # 0
    <3>1. k - 1 \in Places /\ 1 + (k - 1) = k /\ k - 1 < 15
      BY <2>2 DEF Places
    <3> QED BY <1>4, <2>2, <3>1
  <2> QED BY <2>1, <2>2
<1>6. Bit(w, 15) = h
  <2>1. Bit(w, 15) = Bit(h, 0)
    BY <1>4 DEF Places
  <2>2. Bit(h, 0) = (h \div 1) % 2
    BY DEF Bit
  <2>3. (h \div 1) % 2 = h
    BY <1>2
  <2> QED BY <2>1, <2>2, <2>3
<1>7. v \in CrcValues
  BY <1>2, CrcIs
<1> QED BY <1>2, <1>5, <1>6, <1>7 DEF v

LEMMA PolynomialBits ==
  /\ 4129 \in CrcValues
  /\ \A k \in Places : Bit(4129, k) = IF k = 0 \/ k = 5 \/ k = 12 THEN 1 ELSE 0
<1>1. 1 \in Nibbles /\ 1 \in Nat /\ CrcTable[1] = 4129
  BY DEF Nibbles, CrcTable
<1>2. Bit(1, 0) = 1
  <2>1. Bit(1, 0) = (1 \div 1) % 2
    BY DEF Bit
  <2> QED BY <2>1
<1>3. ASSUME NEW k \in Places, k # 0 PROVE Bit(1, k) = 0
  <2>1. Parts(1, 1, 0, 1)
    BY DEF Parts, Places
  <2>2. \A j \in Places : 1 + j \in Places => Bit(1, 1 + j) = Bit(0, j)
    BY <2>1, PartsHaveBits
  <2>3. k - 1 \in Places /\ 1 + (k - 1) = k
    BY <1>3 DEF Places
  <2> QED BY <2>2, <2>3, BitsOfZero
<1> DEFINE c == CrcTable[1]
<1>4. /\ c \in CrcValues
      /\ \A k \in Places : Bit(c, k) =
           IF k < 5 THEN Bit(1, k) ELSE IF k < 12 THEN Bit(1, k - 5) ELSE Bit(1, k - 12)
  BY <1>1, TableBits
<1>5. c = 4129
  BY <1>1
<1> HIDE DEF c
<1>6. ASSUME NEW k \in Places PROVE Bit(c, k) = IF k = 0 \/ k = 5 \/ k = 12 THEN 1 ELSE 0
  <2>1. CASE k < 5
    BY <1>2, <1>3, <1>4, <2>1
  <2>2. CASE k >= 5 /\ k < 12
    <3>1. k - 5 \in Places /\ (k - 5 = 0 <=> k = 5) /\ ~(k < 5) /\ k # 0 /\ k # 12
      BY <2>2 DEF Places
    <3> QED BY <1>2, <1>3, <1>4, <2>2, <3>1
  <2>3. CASE k >= 12
    <3>1. k - 12 \in Places /\ (k - 12 = 0 <=> k = 12) /\ ~(k < 5) /\ ~(k < 12) /\ k # 0 /\ k # 5
      BY <2>3 DEF Places
    <3> QED BY <1>2, <1>3, <1>4, <3>1
  <2>4. k < 5 \/ (k >= 5 /\ k < 12) \/ k >= 12
    BY DEF Places
  <2> QED BY <2>1, <2>2, <2>3, <2>4
<1> QED BY <1>4, <1>5, <1>6

LEMMA TakeBitBits ==
  ASSUME NEW w \in CrcValues
  PROVE  /\ TakeBit(w) \in CrcValues
         /\ \A k \in Places : Bit(TakeBit(w), k) =
              IF k = 0 THEN Bit(w, 15)
              ELSE IF k = 5 \/ k = 12 THEN Unlike(Bit(w, k - 1), Bit(w, 15))
              ELSE Bit(w, k - 1)
<1> DEFINE v == (w * 2) % 65536  p == 4129
<1>1. /\ v \in CrcValues
      /\ \A k \in Places : Bit(v, k) = IF k = 0 THEN 0 ELSE Bit(w, k - 1)
      /\ Bit(w, 15) = IF w < 32768 THEN 0 ELSE 1
      /\ w < 32768 => v = w * 2
  BY DoubledBits
<1>2. TakeBit(w) = IF w < 32768 THEN w * 2 ELSE Xor(v, p)
  BY DEF TakeBit
<1>3. /\ p \in CrcValues
      /\ \A k \in Places : Bit(p, k) = IF k = 0 \/ k = 5 \/ k = 12 THEN 1 ELSE 0
  BY PolynomialBits
<1>4. w \in Nat /\ \A k \in Places : k # 0 => k - 1 \in Places
  BY CrcIs DEF Places
<1>5. \A k \in Places : Bit(w, k) \in {0, 1}
  BY <1>4, BitIsOne
<1> HIDE DEF v, p
<1>6. CASE w < 32768
  <2>1. TakeBit(w) = v /\ Bit(w, 15) = 0
    BY <1>1, <1>2, <1>6
  <2> QED BY <1>1, <1>4, <1>5, <2>1 DEF Unlike
<1>7. CASE ~(w < 32768)
  <2>1. TakeBit(w) = Xor(v, p) /\ Bit(w, 15) = 1
    BY <1>1, <1>2, <1>7
  <2>2. v \in Nat /\ p \in Nat
    BY <1>1, <1>3, CrcIs
  <2>3. /\ Xor(v, p) \in CrcValues
        /\ \A k \in Places : Bit(Xor(v, p), k) = Unlike(Bit(v, k), Bit(p, k))
    BY <2>2, XorBits DEF Unlike
  <2> QED BY <1>1, <1>3, <1>4, <1>5, <2>1, <2>3 DEF Unlike
<1> QED BY <1>6, <1>7

LEMMA DividedOnce ==
  ASSUME NEW q, NEW i \in 0 .. 3, NEW w \in CrcValues, \A k \in Places : Bit(w, k) = Divided(q, i, k)
  PROVE  TakeBit(w) \in CrcValues /\ \A k \in Places : Bit(TakeBit(w), k) = Divided(q, i + 1, k)
<1>1. /\ TakeBit(w) \in CrcValues
      /\ \A k \in Places : Bit(TakeBit(w), k) =
           IF k = 0 THEN Bit(w, 15)
           ELSE IF k = 5 \/ k = 12 THEN Unlike(Bit(w, k - 1), Bit(w, 15))
           ELSE Bit(w, k - 1)
  BY TakeBitBits
<1>2. Bit(w, 15) = Bit(q, 15 - i)
  <2>1. Divided(q, i, 15) = Bit(q, 15 - i)
    BY DEF Divided
  <2> QED BY <2>1 DEF Places
<1>3. ASSUME NEW k \in Places PROVE Bit(TakeBit(w), k) = Divided(q, i + 1, k)
  <2>1. CASE k = 0
    <3>1. Divided(q, i + 1, k) = Bit(q, 15 - i)
      <4>1. k < i + 1 /\ (16 - (i + 1)) + k = 15 - i
        BY <2>1
      <4> QED BY <4>1 DEF Divided
    <3> QED BY <1>1, <1>2, <2>1, <3>1
  <2>2. CASE k = 5
    <3>1. Bit(w, 4) = Bit(q, 4 - i)
      <4>1. Divided(q, i, 4) = Bit(q, 4 - i)
        BY DEF Divided
      <4> QED BY <4>1 DEF Places
    <3>2. Divided(q, i + 1, k) = Unlike(Bit(q, 4 - i), Bit(q, 15 - i))
      <4>1. /\ ~(k < i + 1) /\ k >= 5 /\ k < 5 + (i + 1)
            /\ k - (i + 1) = 4 - i /\ (11 - (i + 1)) + k = 15 - i
        BY <2>2
      <4> QED BY <4>1 DEF Divided
    <3>3. k - 1 = 4
      BY <2>2
    <3> QED BY <1>1, <1>2, <2>2, <3>1, <3>2, <3>3
  <2>3. CASE k = 12
    <3>1. Bit(w, 11) = Bit(q, 11 - i)
      <4>1. Divided(q, i, 11) = Bit(q, 11 - i)
        BY DEF Divided
      <4> QED BY <4>1 DEF Places
    <3>2. Divided(q, i + 1, k) = Unlike(Bit(q, 11 - i), Bit(q, 15 - i))
      <4>1. /\ ~(k < i + 1) /\ ~(k < 5 + (i + 1)) /\ k >= 12 /\ k < 12 + (i + 1)
            /\ k - (i + 1) = 11 - i /\ (4 - (i + 1)) + k = 15 - i
        BY <2>3
      <4> QED BY <4>1 DEF Divided
    <3>3. k - 1 = 11
      BY <2>3
    <3> QED BY <1>1, <1>2, <2>3, <3>1, <3>2, <3>3
  <2>4. CASE k # 0 /\ k # 5 /\ k # 12
    <3>1. /\ k - 1 \in Places /\ k \in Int
          /\ (k - 1 < i <=> k < i + 1) /\ (16 - i) + (k - 1) = (16 - (i + 1)) + k
          /\ (k - 1 >= 5 /\ k - 1 < 5 + i <=> k >= 5 /\ k < 5 + (i + 1))
          /\ (11 - i) + (k - 1) = (11 - (i + 1)) + k
          /\ (k - 1 >= 12 /\ k - 1 < 12 + i <=> k >= 12 /\ k < 12 + (i + 1))
          /\ (4 - i) + (k - 1) = (4 - (i + 1)) + k /\ (k - 1) - i = k - (i + 1)
      BY <2>4 DEF Places
    <3>2. Divided(q, i, k - 1) = Divided(q, i + 1, k)
      BY <3>1 DEF Divided
    <3> QED BY <1>1, <2>4, <3>1, <3>2
  <2> QED BY <2>1, <2>2, <2>3, <2>4
<1> QED BY <1>1, <1>3

LEMMA TakeFourBits ==
  ASSUME NEW q \in CrcValues
  PROVE  TakeFour(q) \in CrcValues /\ \A k \in Places : Bit(TakeFour(q), k) = Divided(q, 4, k)
<1> DEFINE Good(w, i) == w \in CrcValues /\ \A k \in Places : Bit(w, k) = Divided(q, i, k)
           one == TakeBit(q)  two == TakeBit(one)  three == TakeBit(two)  four == TakeBit(three)
<1>1. Good(q, 0)
  <2>1. \A k \in Places : Divided(q, 0, k) = Bit(q, k)
    BY DEF Divided, Places
  <2> QED BY <2>1
<1>2. ASSUME NEW w, NEW i \in 0 .. 3, Good(w, i) PROVE Good(TakeBit(w), i + 1)
  BY <1>2, DividedOnce
<1> HIDE DEF Good
<1>3. Good(one, 0 + 1)
  BY <1>1, <1>2
<1>4. Good(two, 1 + 1)
  <2> HIDE DEF one
  <2> QED BY <1>2, <1>3
<1>5. Good(three, 2 + 1)
  <2> HIDE DEF two
  <2> QED BY <1>2, <1>4
<1>6. Good(four, 3 + 1)
  <2> HIDE DEF three
  <2> QED BY <1>2, <1>5
<1>7. TakeFour(q) = four
  BY DEF TakeFour
<1> HIDE DEF four
<1>8. Good(four, 4)
  BY <1>6
<1> QED BY <1>7, <1>8 DEF Good

\* Four divisions, once the highest bits have been mixed with a nibble, are what
\* a look-up in the table does, but for what the four bits below them hold.
LEMMA FourBits ==
  ASSUME NEW q \in CrcValues, NEW r \in CrcValues, NEW n \in Nibbles,
         \A j \in Places : j < 8 => Bit(q, j) = Bit(r, j),
         \A j \in Places : j < 4 => Bit(q, 12 + j) = Mixed(r, n, j)
  PROVE  /\ \A k \in Places : k < 12 => Bit(TakeFour(q), k) = Bit(TakeNibble(r, n), k)
         /\ \A j \in Places : j < 4 =>
              /\ Bit(TakeFour(q), 12 + j) = Unlike(Bit(q, 8 + j), Mixed(r, n, j))
              /\ Bit(TakeNibble(r, n), 12 + j) = Unlike(Bit(r, 8 + j), Mixed(r, n, j))
<1>1. \A k \in Places : Bit(TakeFour(q), k) = Divided(q, 4, k)
  BY TakeFourBits
<1>2. \A k \in Places : Bit(TakeNibble(r, n), k) = Shifted(r, n, k)
  BY TakeNibbleBits
<1>3. ASSUME NEW k \in Places, k < 12 PROVE Divided(q, 4, k) = Shifted(r, n, k)
  <2>1. CASE k < 4
    <3>1. Divided(q, 4, k) = Bit(q, 12 + k)
      BY <2>1 DEF Divided
    <3> QED BY <2>1, <3>1 DEF Shifted
  <2>2. CASE k = 4
    <3>1. Divided(q, 4, k) = Bit(q, 0)
      BY <2>2 DEF Divided
    <3>2. Bit(q, 0) = Bit(r, 0)
      BY DEF Places
    <3> QED BY <2>2, <3>1, <3>2 DEF Shifted
  <2>3. CASE k > 4 /\ k < 9
    <3>1. /\ k - 5 \in Places /\ k - 5 < 4 /\ 12 + (k - 5) = 7 + k
          /\ k - 4 \in Places /\ k - 4 < 8 /\ ~(k < 4) /\ k >= 5 /\ k # 4
      BY <2>3 DEF Places
    <3>2. Divided(q, 4, k) = Unlike(Bit(q, k - 4), Bit(q, 7 + k))
      BY <2>3, <3>1 DEF Divided
    <3>3. Bit(q, k - 4) = Bit(r, k - 4) /\ Bit(q, 12 + (k - 5)) = Mixed(r, n, k - 5)
      BY <3>1
    <3> QED BY <2>3, <3>1, <3>2, <3>3 DEF Shifted
  <2>4. CASE k >= 9
    <3>1. k - 4 \in Places /\ k - 4 < 8 /\ ~(k < 4) /\ ~(k < 9) /\ k # 4 /\ ~(k >= 12)
      BY <1>3, <2>4 DEF Places
    <3>2. Divided(q, 4, k) = Bit(q, k - 4)
      BY <3>1 DEF Divided
    <3> QED BY <1>3, <3>1, <3>2 DEF Shifted
  <2>5. k < 4 \/ k = 4 \/ (k > 4 /\ k < 9) \/ k >= 9
    BY DEF Places
  <2> QED BY <2>1, <2>2, <2>3, <2>4, <2>5
<1>4. ASSUME NEW j \in Places, j < 4
      PROVE  /\ Divided(q, 4, 12 + j) = Unlike(Bit(q, 8 + j), Mixed(r, n, j))
             /\ Shifted(r, n, 12 + j) = Unlike(Bit(r, 8 + j), Mixed(r, n, j))
             /\ 12 + j \in Places
  <2> DEFINE k == 12 + j
  <2>1. /\ k \in Places /\ k \in Int /\ k - 4 = 8 + j /\ k - 12 = j /\ k >= 12 /\ k < 16
        /\ ~(k < 4) /\ k # 4 /\ ~(k < 9) /\ ~(k < 12)
    BY <1>4 DEF Places
  <2>2. Bit(q, k) = Mixed(r, n, j)
    BY <1>4
  <2> HIDE DEF k
  <2>3. Divided(q, 4, k) = Unlike(Bit(q, k - 4), Bit(q, k))
    BY <2>1 DEF Divided
  <2>4. Shifted(r, n, k) = Unlike(Bit(r, k - 4), Mixed(r, n, k - 12))
    BY <2>1 DEF Shifted
  <2> QED BY <2>1, <2>2, <2>3, <2>4 DEF k
<1> QED BY <1>1, <1>2, <1>3, <1>4

\* A byte put into the highest eight bits.
LEMMA EnteredBits ==
  ASSUME NEW r \in CrcValues, NEW b \in Bytes
  PROVE  /\ Xor(r, b * 256) \in CrcValues
         /\ \A j \in Places : j < 8 => Bit(Xor(r, b * 256), j) = Bit(r, j)
         /\ \A j \in Places : j < 4 =>
              /\ Bit(Xor(r, b * 256), 8 + j) = Unlike(Bit(r, 8 + j), Bit(b % 16, j))
              /\ Bit(Xor(r, b * 256), 12 + j) = Mixed(r, b \div 16, j)
<1> DEFINE h == b \div 16  l == b % 16  v == b * 256  q == Xor(r, v)
<1>1. h \in Nibbles /\ l \in Nibbles /\ b = (16 * h) + l
  BY ByteHalves
<1>2. b \in Nat /\ v \in Nat /\ v = (b * 256) + 0
  BY ByteIs
<1> HIDE DEF h, l, v
<1>3. h \in Nat /\ l \in Nat /\ l < 16
  BY <1>1 DEF Nibbles
<1>4. Parts(b, 4, h, l) /\ Parts(v, 8, b, 0)
  BY <1>1, <1>2, <1>3 DEF Parts, Places
<1>5. /\ \A j \in Places : j < 4 => Bit(b, j) = Bit(l, j)
      /\ \A j \in Places : 4 + j \in Places => Bit(b, 4 + j) = Bit(h, j)
      /\ \A j \in Places : j < 8 => Bit(v, j) = Bit(0, j)
      /\ \A j \in Places : 8 + j \in Places => Bit(v, 8 + j) = Bit(b, j)
  BY <1>4, PartsHaveBits
<1>6. r \in Nat
  BY CrcIs
<1>7. /\ q \in CrcValues
      /\ \A k \in Places : Bit(q, k) = Unlike(Bit(r, k), Bit(v, k))
  BY <1>2, <1>6, XorBits DEF Unlike
<1> HIDE DEF q
<1>8. ASSUME NEW j \in Places, j < 8 PROVE Bit(q, j) = Bit(r, j)
  <2>1. Bit(v, j) = 0 /\ Bit(r, j) \in {0, 1}
    BY <1>5, <1>6, <1>8, BitsOfZero, BitIsOne
  <2> QED BY <1>7, <2>1 DEF Unlike
<1>9. ASSUME NEW j \in Places, j < 4
      PROVE  /\ Bit(q, 8 + j) = Unlike(Bit(r, 8 + j), Bit(l, j))
             /\ Bit(q, 12 + j) = Mixed(r, h, j)
  <2>1. 8 + j \in Places /\ 4 + j \in Places /\ 12 + j \in Places /\ 8 + (4 + j) = 12 + j
    BY <1>9 DEF Places
  <2>2. Bit(v, 8 + j) = Bit(l, j)
    BY <1>5, <1>9, <2>1
  <2>3. Bit(v, 12 + j) = Bit(h, j)
    <3>1. Bit(v, 8 + (4 + j)) = Bit(h, j)
      BY <1>5, <2>1
    <3> QED BY <2>1, <3>1
  <2> QED BY <1>7, <2>1, <2>2, <2>3 DEF Mixed
<1> QED BY <1>7, <1>8, <1>9 DEF q, v, h, l

\* A round of the loop divides by the polynomial eight times.
LEMMA UpdateDivides ==
  ASSUME NEW r \in CrcValues, NEW b \in Bytes
  PROVE  TakeBits(r, b) = Update(r, b)
<1> DEFINE h == b \div 16  l == b % 16  q == Xor(r, b * 256)
           s == TakeNibble(r, h)  p == TakeFour(q)
<1>1. h \in Nibbles /\ l \in Nibbles
  BY ByteHalves
<1>2. /\ q \in CrcValues
      /\ \A j \in Places : j < 8 => Bit(q, j) = Bit(r, j)
      /\ \A j \in Places : j < 4 => Bit(q, 8 + j) = Unlike(Bit(r, 8 + j), Bit(l, j))
      /\ \A j \in Places : j < 4 => Bit(q, 12 + j) = Mixed(r, h, j)
  BY EnteredBits
<1>3. TakeBits(r, b) = TakeFour(p) /\ Update(r, b) = TakeNibble(s, l)
  BY DEF TakeBits, Update
<1> HIDE DEF h, l, q
<1>4. p \in CrcValues /\ s \in CrcValues
  BY <1>1, <1>2, TakeFourBits, TakeNibbleBits
<1>5. /\ \A k \in Places : k < 12 => Bit(p, k) = Bit(s, k)
      /\ \A j \in Places : j < 4 =>
           /\ Bit(p, 12 + j) = Unlike(Bit(q, 8 + j), Mixed(r, h, j))
           /\ Bit(s, 12 + j) = Unlike(Bit(r, 8 + j), Mixed(r, h, j))
  BY <1>1, <1>2, FourBits
<1> HIDE DEF p, s
<1>6. \A x, y, z \in {0, 1} : Unlike(Unlike(x, y), z) = Unlike(Unlike(x, z), y)
  BY DEF Unlike
<1>7. ASSUME NEW j \in Places, j < 4 PROVE Bit(p, 12 + j) = Mixed(s, l, j)
  <2>1. /\ Bit(r, 8 + j) \in {0, 1} /\ Bit(l, j) \in {0, 1} /\ Mixed(r, h, j) \in {0, 1}
    <3>1. 8 + j \in Places /\ r \in Nat /\ l \in Nat
      BY <1>1, <1>7, CrcIs, NibbleIsWord DEF Places
    <3>2. Mixed(r, h, j) \in {0, 1}
      BY DEF Mixed, Unlike
    <3> QED BY <3>1, <3>2, BitIsOne
  <2>2. Bit(p, 12 + j) = Unlike(Unlike(Bit(r, 8 + j), Bit(l, j)), Mixed(r, h, j))
    BY <1>2, <1>5, <1>7
  <2>3. Mixed(s, l, j) = Unlike(Unlike(Bit(r, 8 + j), Mixed(r, h, j)), Bit(l, j))
    BY <1>5, <1>7 DEF Mixed
  <2> QED BY <1>6, <2>1, <2>2, <2>3
<1>8. \A j \in Places : j < 8 => j < 12
  BY DEF Places
<1>9. /\ \A k \in Places : k < 12 => Bit(TakeFour(p), k) = Bit(TakeNibble(s, l), k)
      /\ \A j \in Places : j < 4 =>
           /\ Bit(TakeFour(p), 12 + j) = Unlike(Bit(p, 8 + j), Mixed(s, l, j))
           /\ Bit(TakeNibble(s, l), 12 + j) = Unlike(Bit(s, 8 + j), Mixed(s, l, j))
  <2>1. \A j \in Places : j < 8 => Bit(p, j) = Bit(s, j)
    BY <1>5, <1>8
  <2> QED BY <1>1, <1>4, <1>7, <2>1, FourBits
<1>10. ASSUME NEW k \in Places PROVE Bit(TakeFour(p), k) = Bit(TakeNibble(s, l), k)
  <2>1. CASE k < 12
    BY <1>9, <2>1
  <2>2. CASE k >= 12
    <3>1. /\ k - 12 \in Places /\ k - 12 < 4 /\ 12 + (k - 12) = k
          /\ 8 + (k - 12) \in Places /\ 8 + (k - 12) < 12
      BY <2>2 DEF Places
    <3>2. Bit(p, 8 + (k - 12)) = Bit(s, 8 + (k - 12))
      BY <1>5, <3>1
    <3> QED BY <1>9, <3>1, <3>2
  <2>3. k < 12 \/ k >= 12
    BY DEF Places
  <2> QED BY <2>1, <2>2, <2>3
<1>11. TakeFour(p) \in CrcValues /\ TakeNibble(s, l) \in CrcValues
  BY <1>1, <1>4, TakeFourBits, TakeNibbleBits
<1>12. TakeFour(p) = TakeNibble(s, l)
  BY <1>10, <1>11, SameBits
<1> QED BY <1>3, <1>12

\* The whole division.
LEMMA RemainderDivides ==
  ASSUME NEW t \in Seq(Bytes)
  PROVE  PolynomialRemainder(t) = Remainder(t)
<1> DEFINE Divides(f) ==
             f = [k \in 0 .. Len(t) |-> IF k = 0 THEN 0 ELSE TakeBits(f[k - 1], t[k])]
           f == CHOOSE g : Divides(g)
<1>1. PolynomialRemainder(t) = f[Len(t)]
  BY DEF PolynomialRemainder
<1>2. PICK after : After(t, after)
  BY AfterExists
<1>3. PICK steps : Steps(t, steps) /\ Remainder(t) = steps[Len(t)]
  BY RemainderIs
<1>4. \A k \in 0 .. Len(t) : after[k] = IF k = 0 THEN 0 ELSE Update(after[k - 1], t[k])
  BY <1>2 DEF After
\* The two agree wherever the one of the table is a remainder.
<1>5. ASSUME NEW g, g[0] = 0,
             \A k \in 1 .. Len(t) : g[k] \in {Update(g[k - 1], t[k]), TakeBits(g[k - 1], t[k])}
      PROVE  \A k \in 0 .. Len(t) : g[k] = steps[k]
  <2> DEFINE Good == {k \in Nat : g[k] = steps[k]}
  <2>1. 0 \in Good
    BY <1>3, <1>5 DEF Steps
  <2>2. ASSUME NEW k \in Nat, k < Len(t), k \in Good PROVE k + 1 \in Good
    <3>1. /\ k + 1 \in 1 .. Len(t) /\ k + 1 \in 0 .. Len(t) /\ (k + 1) - 1 = k /\ k + 1 # 0
          /\ k \in 0 .. Len(t) /\ t[k + 1] \in Bytes
      BY <2>2
    <3>2. g[k] = steps[k] /\ steps[k] \in CrcValues /\ steps[k + 1] = Update(steps[k], t[k + 1])
      BY <1>3, <2>2, <3>1 DEF Steps
    <3>3. TakeBits(steps[k], t[k + 1]) = Update(steps[k], t[k + 1])
      BY <3>1, <3>2, UpdateDivides
    <3>4. g[k + 1] = Update(g[k], t[k + 1]) \/ g[k + 1] = TakeBits(g[k], t[k + 1])
      BY <1>5, <3>1
    <3> QED BY <3>2, <3>3, <3>4
  <2> HIDE DEF Good
  <2>3. Len(t) \in Nat
    OBVIOUS
  <2>4. \A k \in 0 .. Len(t) : k \in Good
    BY ONLY <2>1, <2>2, <2>3, UpTo
  <2> QED BY <2>4 DEF Good
<1>6. \A k \in 0 .. Len(t) : after[k] = steps[k]
  <2>1. after[0] = 0 /\ \A k \in 1 .. Len(t) : after[k] = Update(after[k - 1], t[k])
    BY <1>4
  <2> QED BY <1>5, <2>1
<1>7. Divides(after)
  <2>1. ASSUME NEW k \in 0 .. Len(t)
        PROVE  after[k] = IF k = 0 THEN 0 ELSE TakeBits(after[k - 1], t[k])
    <3>1. CASE k = 0
      BY <1>4, <3>1
    <3>2. CASE k # 0
      <4>1. k - 1 \in 0 .. Len(t) /\ t[k] \in Bytes
        BY <3>2
      <4>2. after[k - 1] \in CrcValues
        BY <1>3, <1>6, <4>1 DEF Steps
      <4>3. TakeBits(after[k - 1], t[k]) = Update(after[k - 1], t[k])
        BY <4>1, <4>2, UpdateDivides
      <4> QED BY <1>4, <3>2, <4>3
    <3> QED BY <3>1, <3>2
  <2>2. after = [k \in 0 .. Len(t) |-> after[k]]
    BY <1>2 DEF After
  <2> QED BY <2>1, <2>2
<1>8. Divides(f)
  BY <1>7
<1> HIDE DEF f
<1>9. \A k \in 0 .. Len(t) : f[k] = IF k = 0 THEN 0 ELSE TakeBits(f[k - 1], t[k])
  BY <1>8
<1>10. \A k \in 0 .. Len(t) : f[k] = steps[k]
  <2>1. f[0] = 0 /\ \A k \in 1 .. Len(t) : f[k] = TakeBits(f[k - 1], t[k])
    BY <1>9
  <2> QED BY <1>5, <2>1
<1>11. Len(t) \in 0 .. Len(t)
  OBVIOUS
<1> QED BY <1>1, <1>3, <1>10, <1>11

\* Theorem: whatever the text, calculate_voltronic_crc's loop over its table is
\* the division by x^16 + x^12 + x^5 + 1.
THEOREM CrcIsPolynomial == Spec => []RemainderIsPolynomial
<1>1. ASSUME CrcInv PROVE RemainderIsPolynomial
  <2>1. text \in Seq(Bytes) /\ crc = Remainder(text)
    BY <1>1, TextIsBytes DEF CrcInv
  <2> QED BY <2>1, RemainderDivides DEF RemainderIsPolynomial
<1> QED BY <1>1, CrcInvariant, PTL

\* Theorem: the two together, which is what the run checks: the comparison of
\* checksums accepts what was sent and refuses, so far, what was not.
THEOREM CrcOnlyDamageIsRefused == Spec => []OnlyDamageIsRefused
<1>1. SentIsAccepted /\ DamageIsRefused => OnlyDamageIsRefused
  BY DEF OnlyDamageIsRefused
<1> QED BY <1>1, CrcSentIsAccepted, CrcDamageIsRefused, PTL

=============================================================================
