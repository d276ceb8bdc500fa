-------------------------- MODULE RspPacketProofs --------------------------
(***************************************************************************)
(* What the stub understands of the characters it is sent, for packets of  *)
(* any length, buffers of any size and whatever pkt_buf holds behind a     *)
(* packet, and what GDB finds in the replies to its reads of memory.       *)
(*                                                                         *)
(* A number ends at the character behind it, which is either in the packet *)
(* or not looked at, so the remains of earlier packets do not matter       *)
(* (IntegerRead).  One damaged character changes the checksum              *)
(* (ChecksumDiffers).  PacketInv: either nothing on the way to the stub    *)
(* begins a packet, or the last command is on the way, whole or damaged,   *)
(* or the stub is about to end because it takes a packet for an            *)
(* acknowledgment.                                                         *)
(***************************************************************************)
EXTENDS RspPacket, FiniteSetTheorems, TLAPS

\* Induction over sets of numbers.
Facts == INSTANCE TraceLemmas

------------------------------------------------------------------------------
(* Recursion and sequences. *)

Bytes == 0..255

\* A function up to n, made of its value at zero and its steps.
Recursive(g, n, S, base, F) ==
    /\ g \in [0..n -> S]
    /\ g[0] = base
    /\ \A k \in 1..n : g[k] = F[<<k, g[k - 1]>>]

\* A function can be defined from its value at zero and its steps.
LEMMA RecursionExists ==
  ASSUME NEW n \in Nat, NEW S, NEW base \in S, NEW F \in [(1..n) \X S -> S]
  PROVE  \E g : Recursive(g, n, S, base, F)
<1> DEFINE Good(m, g) == Recursive(g, m, S, base, F)
           T == {m \in 0..n : \E g : Good(m, g)}
<1>1. 0 \in T
  <2>1. Good(0, [k \in 0..0 |-> base])
    BY DEF Recursive
  <2> HIDE DEF Good
  <2>2. \E g : Good(0, g)
    BY <2>1
  <2> QED
    BY <2>2
<1>2. ASSUME NEW m \in 0..(n - 1), m \in T
      PROVE  m + 1 \in T
  <2>1. PICK g : Good(m, g)
    BY <1>2
  <2> DEFINE h == [k \in 0..(m + 1) |-> IF k = m + 1 THEN F[<<m + 1, g[m]>>] ELSE g[k]]
  <2>2. m + 1 \in 1..n /\ m \in Nat /\ g[m] \in S /\ g[0] = base
    BY <2>1 DEF Recursive
  <2>3. F[<<m + 1, g[m]>>] \in S
    BY <2>2
  <2>4. h \in [0..(m + 1) -> S] /\ h[m + 1] = F[<<m + 1, g[m]>>] /\ \A k \in 0..m : h[k] = g[k]
    BY <2>1, <2>2, <2>3 DEF Recursive
  <2> HIDE DEF h
  <2>5. \A k \in 1..(m + 1) : h[k] = F[<<k, h[k - 1]>>]
    <3> SUFFICES ASSUME NEW k \in 1..(m + 1) PROVE h[k] = F[<<k, h[k - 1]>>]
      OBVIOUS
    <3>1. k - 1 \in 0..m /\ h[k - 1] = g[k - 1]
      BY <2>2, <2>4
    <3>2. CASE k = m + 1
      BY <2>2, <2>4, <3>1, <3>2
    <3>3. CASE k # m + 1
      BY <2>1, <2>2, <2>4, <3>1, <3>3 DEF Recursive
    <3> QED
      BY <3>2, <3>3
  <2>6. Good(m + 1, h)
    BY <2>2, <2>4, <2>5 DEF Recursive
  <2> QED
    BY <2>2, <2>6
<1> HIDE DEF T
<1>3. 0..n \subseteq T
  BY <1>1, <1>2, Facts!SetInductionUpTo
<1>4. n \in T
  BY <1>3
<1> QED
  BY <1>4 DEF T

\* Sums modulo 256 are bytes, and a byte is not changed by it.
LEMMA Mod256 == \A x \in Nat : x % 256 \in 0..255 /\ (x < 256 => x % 256 = x)
OBVIOUS

\* Numbers that are near to each other have different rests.
LEMMA RestsDiffer ==
  ASSUME NEW s \in Int, NEW t \in Int, s # t, s - t < 256, t - s < 256
  PROVE  s % 256 # t % 256
<1>1. s % 256 = s - 256 * (s \div 256) /\ t % 256 = t - 256 * (t \div 256)
  OBVIOUS
<1>2. s \div 256 \in Int /\ t \div 256 \in Int
  OBVIOUS
<1> QED
  BY <1>1, <1>2

\* The sum over the characters goes character by character.
LEMMA ChecksumIs ==
  ASSUME NEW data \in Seq(Chars)
  PROVE  \E sum \in [0..Len(data) -> Bytes] :
            /\ sum[0] = 0
            /\ \A k \in 1..Len(data) : sum[k] = (sum[k - 1] + data[k]) % 256
            /\ Checksum(data) = sum[Len(data)]
<1> DEFINE n == Len(data)
           F == [p \in (1..n) \X (Bytes) |-> (p[2] + data[p[1]]) % 256]
           Is(g) == g = [k \in 0..n |-> IF k = 0 THEN 0 ELSE (g[k - 1] + data[k]) % 256]
           sum == CHOOSE g : Is(g)
<1>0. n \in Nat /\ \A k \in 1..n : data[k] \in Chars
  OBVIOUS
<1>1. n \in Nat /\ \A k \in 1..n : data[k] \in 0..127
  BY <1>0 DEF Chars
<1>2. F \in [(1..n) \X (Bytes) -> Bytes]
  <2>1. ASSUME NEW k \in 1..n, NEW v \in Bytes
        PROVE  (v + data[k]) % 256 \in Bytes
    <3>1. PICK a \in 0..127 : a = data[k]
      BY <1>1
    <3>2. v + a \in Nat
      BY DEF Bytes
    <3> QED
      BY <3>1, <3>2, Mod256 DEF Bytes
  <2> QED
    BY <2>1
<1>r. PICK g : Recursive(g, n, Bytes, 0, F)
  <2> HIDE DEF F, n
  <2>1. 0 \in Bytes /\ n \in Nat
    BY <1>1 DEF Bytes
  <2> QED
    BY Zenon, <1>2, <2>1, RecursionExists
<1>3. g \in [0..n -> Bytes] /\ g[0] = 0 /\ \A k \in 1..n : g[k] = F[<<k, g[k - 1]>>]
  <2> HIDE DEF F, n
  <2> QED
    BY <1>r DEF Recursive
<1>4. \A k \in 1..n : g[k] = (g[k - 1] + data[k]) % 256
  <2> SUFFICES ASSUME NEW k \in 1..n PROVE g[k] = (g[k - 1] + data[k]) % 256
    OBVIOUS
  <2>1. k - 1 \in 0..n
    BY <1>1
  <2>2. <<k, g[k - 1]>> \in (1..n) \X (Bytes)
    BY <1>3, <2>1
  <2> QED
    BY <1>3, <2>2
<1>5. Is(g)
  <2>1. \A k \in 0..n : g[k] = IF k = 0 THEN 0 ELSE (g[k - 1] + data[k]) % 256
    BY <1>1, <1>3, <1>4
  <2> QED
    BY <1>3, <2>1
<1> HIDE DEF F
<1>6. Is(sum)
  BY <1>5
<1>7. Checksum(data) = sum[n]
  BY DEF Checksum
<1> HIDE DEF sum
<1>8. \A k \in 0..n : sum[k] = IF k = 0 THEN 0 ELSE (sum[k - 1] + data[k]) % 256
  BY <1>6
<1>9. \A k \in 0..n : sum[k] = g[k]
  <2> DEFINE T == {k \in 0..n : sum[k] = g[k]}
  <2>1. 0 \in T
    BY <1>1, <1>3, <1>8
  <2>2. ASSUME NEW k \in 0..(n - 1), k \in T
        PROVE  k + 1 \in T
    <3>1. k + 1 \in 1..n /\ (k + 1) - 1 = k
      BY <1>1
    <3> QED
      BY <1>4, <1>8, <2>2, <3>1
  <2> HIDE DEF T
  <2>3. 0..n \subseteq T
    BY <1>1, <2>1, <2>2, Facts!SetInductionUpTo
  <2> QED
    BY <2>3 DEF T
<1>10. Checksum(data) = g[n]
  BY <1>1, <1>7, <1>9
<1> QED
  BY <1>3, <1>4, <1>10

\* One damaged character is noticed.
LEMMA ChecksumDiffers ==
  ASSUME NEW data \in Seq(Chars), NEW place \in 1..Len(data), NEW ch \in Chars,
         ch # data[place]
  PROVE  Checksum([data EXCEPT ![place] = ch]) # Checksum(data)
<1> DEFINE d == [data EXCEPT ![place] = ch]
           n == Len(data)
<1>1. d \in Seq(Chars) /\ Len(d) = n /\ n \in Nat
      /\ d[place] = ch /\ \A k \in 1..n : k # place => d[k] = data[k]
  OBVIOUS
<1> HIDE DEF d
<1>2. PICK f \in [0..n -> Bytes] :
         /\ f[0] = 0 /\ \A k \in 1..n : f[k] = (f[k - 1] + data[k]) % 256
         /\ Checksum(data) = f[n]
  BY ChecksumIs
<1>3. PICK g \in [0..n -> Bytes] :
         /\ g[0] = 0 /\ \A k \in 1..n : g[k] = (g[k - 1] + d[k]) % 256
         /\ Checksum(d) = g[n]
  <2>1. \E g \in [0..Len(d) -> Bytes] :
           /\ g[0] = 0 /\ \A k \in 1..Len(d) : g[k] = (g[k - 1] + d[k]) % 256
           /\ Checksum(d) = g[Len(d)]
    BY <1>1, ChecksumIs
  <2> QED
    BY <1>1, <2>1
<1> DEFINE T == {k \in 0..n : IF k < place THEN f[k] = g[k] ELSE f[k] # g[k]}
<1>4. 0 \in T
  BY <1>1, <1>2, <1>3
<1>5. ASSUME NEW k \in 0..(n - 1), k \in T
      PROVE  k + 1 \in T
  <2>1. /\ k + 1 \in 1..n /\ (k + 1) - 1 = k /\ k \in 0..n /\ k + 1 \in 0..n
        /\ f[k + 1] = (f[k] + data[k + 1]) % 256
        /\ g[k + 1] = (g[k] + d[k + 1]) % 256
        /\ f[k] \in Bytes /\ g[k] \in Bytes
        /\ data[k + 1] \in Chars /\ d[k + 1] \in Chars
    <3>0. n \in Nat
      BY <1>1
    <3>1. k + 1 \in 1..n /\ (k + 1) - 1 = k /\ k \in 0..n /\ k + 1 \in 0..n
      BY <3>0
    <3>2. data[k + 1] \in Chars /\ d[k + 1] \in Chars
      BY <1>1, <3>1
    <3>3. f[k] \in Bytes /\ g[k] \in Bytes
      BY <1>2, <1>3, <3>1
    <3>4. f[k + 1] = (f[k] + data[k + 1]) % 256
      BY <1>2, <3>1
    <3>5. g[k + 1] = (g[k] + d[k + 1]) % 256
      BY <1>3, <3>1
    <3> QED
      BY <3>1, <3>2, <3>3, <3>4, <3>5
  <2>3. CASE k + 1 < place
    BY <1>1, <1>5, <2>1, <2>3
  <2>4. CASE k + 1 = place
    <3>1. f[k] = g[k] /\ d[k + 1] # data[k + 1]
      BY <1>1, <1>5, <2>1, <2>4
    <3>2. f[k + 1] # g[k + 1]
      <4>1. PICK x \in 0..255, y \in 0..255 : x = f[k] /\ y = g[k]
        BY <2>1 DEF Bytes
      <4>2. PICK a \in 0..127, b \in 0..127 : a = data[k + 1] /\ b = d[k + 1]
        BY <2>1 DEF Chars
      <4>3. x = y /\ a # b
        BY <3>1, <4>1, <4>2
      <4>4. (x + a) % 256 # (x + b) % 256
        BY <4>3, RestsDiffer
      <4> QED
        BY <2>1, <4>1, <4>2, <4>3, <4>4
    <3> QED
      BY <2>1, <2>4, <3>2
  <2>5. CASE k + 1 > place
    <3>1. f[k] # g[k] /\ d[k + 1] = data[k + 1]
      BY <1>1, <1>5, <2>1, <2>5
    <3>2. f[k + 1] # g[k + 1]
      <4>1. PICK x \in 0..255, y \in 0..255 : x = f[k] /\ y = g[k]
        BY <2>1 DEF Bytes
      <4>2. PICK a \in 0..127, b \in 0..127 : a = data[k + 1] /\ b = d[k + 1]
        BY <2>1 DEF Chars
      <4>3. x # y /\ a = b
        BY <3>1, <4>1, <4>2
      <4>4. (x + a) % 256 # (y + a) % 256
        BY <4>3, RestsDiffer
      <4> QED
        BY <2>1, <4>1, <4>2, <4>3, <4>4
    <3> QED
      BY <2>1, <2>5, <3>2
  <2> QED
    BY <2>1, <2>3, <2>4, <2>5
<1> HIDE DEF T
<1>6. 0..n \subseteq T
  BY <1>1, <1>4, <1>5, Facts!SetInductionUpTo
<1>7. n \in T
  BY <1>1, <1>6
<1> QED
  BY <1>1, <1>2, <1>3, <1>7 DEF T, d

------------------------------------------------------------------------------
(* Numbers. *)

\* A digit is written and read.
LEMMA DigitRead ==
  ASSUME NEW v \in 0..15
  PROVE  /\ GetDigit(v) \in (48..57) \cup (97..102)
         /\ DigitOf(GetDigit(v)) = v /\ GetVal(GetDigit(v), 16) = v
<1>1. CASE v < 10
  <2>1. GetDigit(v) = 48 + v /\ 48 + v \in 48..57
    BY <1>1 DEF GetDigit
  <2> QED
    BY <2>1 DEF DigitOf, GetVal
<1>2. CASE v >= 10
  <2>1. GetDigit(v) = 87 + v /\ 87 + v \in 97..102 /\ 87 + v \notin 48..57
    BY <1>2 DEF GetDigit
  <2> QED
    BY <2>1 DEF DigitOf, GetVal
<1> QED
  BY <1>1, <1>2

\* The digits of a byte.
LEMMA ByteHalves ==
  ASSUME NEW n \in Bytes
  PROVE  \E a \in 0..15, b \in 0..15 : a = n \div 16 /\ b = n % 16 /\ 16 * a + b = n
<1>1. n \in Int /\ 0 <= n /\ n <= 255
  BY DEF Bytes
<1>2. n \div 16 \in Int /\ n % 16 \in 0..15 /\ n % 16 = n - 16 * (n \div 16)
  BY <1>1
<1>3. PICK q \in Int, r \in 0..15 : q = n \div 16 /\ r = n % 16
  BY <1>2
<1>4. r = n - 16 * q
  BY <1>2, <1>3
<1>5. q \in 0..15 /\ 16 * q + r = n
  BY <1>1, <1>4
<1> QED
  BY Zenon, <1>3, <1>5

\* A byte is written with one digit or with two.
LEMMA HexOfIs ==
  ASSUME NEW n \in Bytes
  PROVE  LET h == HexOf(n)
             d == Len(h)
         IN  /\ h \in Seq(Chars \ {Dollar, Hash}) /\ d \in {1, 2}
             /\ \A k \in 1..d : h[k] \in (48..57) \cup (97..102) /\ GetVal(h[k], 16) \in 0..15
             /\ d = 1 => GetVal(h[1], 16) = n
             /\ d = 2 => 16 * GetVal(h[1], 16) + GetVal(h[2], 16) = n
<1>1. (48..57) \cup (97..102) \subseteq Chars \ {Dollar, Hash}
  BY DEF Chars, Dollar, Hash
<1>2. CASE n < 16
  <2>1. n \in 0..15
    BY <1>2 DEF Bytes
  <2>2. HexOf(n) = <<GetDigit(n)>>
    BY <1>2 DEF HexOf
  <2> HIDE DEF HexOf
  <2>3. /\ GetDigit(n) \in (48..57) \cup (97..102) /\ GetVal(GetDigit(n), 16) = n
        /\ GetDigit(n) \in Chars \ {Dollar, Hash}
    BY <1>1, <2>1, DigitRead
  <2> QED
    BY <2>1, <2>2, <2>3
<1>3. CASE n >= 16
  <2>1. HexOf(n) = <<GetDigit(n \div 16), GetDigit(n % 16)>>
    BY <1>3 DEF HexOf, Bytes
  <2>2. PICK a \in 0..15, b \in 0..15 : a = n \div 16 /\ b = n % 16 /\ 16 * a + b = n
    BY ByteHalves
  <2>3. /\ GetDigit(a) \in (48..57) \cup (97..102) /\ GetVal(GetDigit(a), 16) = a
        /\ GetDigit(a) \in Chars \ {Dollar, Hash}
    BY <1>1, DigitRead
  <2>4. /\ GetDigit(b) \in (48..57) \cup (97..102) /\ GetVal(GetDigit(b), 16) = b
        /\ GetDigit(b) \in Chars \ {Dollar, Hash}
    BY <1>1, DigitRead
  <2>5. HexOf(n) = <<GetDigit(a), GetDigit(b)>>
    BY <2>1, <2>2
  <2> HIDE DEF HexOf
  <2>6. PICK x, y : x = GetDigit(a) /\ y = GetDigit(b)
    OBVIOUS
  <2>x. /\ x \in (48..57) \cup (97..102) /\ GetVal(x, 16) = a
        /\ y \in (48..57) \cup (97..102) /\ GetVal(y, 16) = b
    BY <2>3, <2>4, <2>6
  <2>7. PICK h : h = <<x, y>>
    OBVIOUS
  <2>8. h \in Seq(Chars \ {Dollar, Hash}) /\ Len(h) = 2 /\ h[1] = x /\ h[2] = y
    BY <2>3, <2>4, <2>6, <2>7
  <2>9. HexOf(n) = h
    BY <2>5, <2>6, <2>7
  <2>10. \A k \in 1..2 : h[k] \in (48..57) \cup (97..102) /\ GetVal(h[k], 16) \in 0..15
    <3> DEFINE Digit(k) == h[k] \in (48..57) \cup (97..102) /\ GetVal(h[k], 16) \in 0..15
    <3>1. Digit(1)
      BY Zenon, <2>x, <2>8
    <3>2. Digit(2)
      BY Zenon, <2>x, <2>8
    <3>3. \A k \in 1..2 : k = 1 \/ k = 2
      OBVIOUS
    <3> HIDE DEF Digit
    <3>4. \A k \in 1..2 : Digit(k)
      BY <3>1, <3>2, <3>3
    <3> QED
      BY Zenon, <3>4 DEF Digit
  <2>11. GetVal(h[1], 16) = a /\ GetVal(h[2], 16) = b
    BY <2>x, <2>8
  <2>12. 16 * GetVal(h[1], 16) + GetVal(h[2], 16) = n
    BY Zenon, <2>2, <2>11
  <2> HIDE DEF Chars
  <2>13. Len(h) # 1
    BY <2>8
  <2> QED
    BY <2>8, <2>9, <2>10, <2>12, <2>13
<1> QED
  BY <1>2, <1>3 DEF Bytes

\* A number with something behind it that does not belong to it.
Starts(s, n) ==
    LET h == HexOf(n)
        d == Len(h)
    IN  /\ s \in Seq(Int) /\ d <= Len(s)
        /\ \A k \in 1..d : s[k] = h[k]
        /\ Len(s) > d => DigitOf(s[d + 1]) = EOF /\ s[d + 1] \notin {120, 88}

\* dbg_strtol reads it and stops behind it.
LEMMA NumberRead ==
  ASSUME NEW n \in Bytes, NEW s, Starts(s, n)
  PROVE  StrToL(s, 16) = [value |-> n, taken |-> Len(HexOf(n))]
<1>d. PICK h, d : h = HexOf(n) /\ d = Len(h)
  OBVIOUS
<1>1. /\ d \in {1, 2}
      /\ \A k \in 1..d : h[k] \in (48..57) \cup (97..102) /\ GetVal(h[k], 16) \in 0..15
      /\ d = 1 => GetVal(h[1], 16) = n
      /\ d = 2 => 16 * GetVal(h[1], 16) + GetVal(h[2], 16) = n
  BY <1>d, HexOfIs
<1>2. /\ s \in Seq(Int) /\ d <= Len(s) /\ \A k \in 1..d : s[k] = h[k]
      /\ Len(s) > d => DigitOf(s[d + 1]) = EOF /\ s[d + 1] \notin {120, 88}
  BY <1>d DEF Starts
<1>3. s # <<>> /\ Len(s) \in Nat /\ 1 \in 1..d /\ s[1] = h[1]
  BY <1>1, <1>2
<1> DEFINE signed == s # <<>> /\ s[1] \in {Plus, Minus}
           pos    == IF signed THEN 1 ELSE 0
           hex    == pos + 2 < Len(s) /\ s[pos + 1] = 48 /\ s[pos + 2] \in {120, 88}
           base   == IF hex THEN 16 ELSE 16
           first  == IF hex THEN pos + 3 ELSE pos + 1
           stops  == {k \in first..Len(s) : GetVal(s[k], base) = EOF}
           end    == IF stops = {} THEN Len(s) ELSE (CHOOSE k \in stops : \A j \in stops : k <= j) - 1
           Is(g)  == g = [k \in (first - 1)..end |->
                            IF k < first THEN 0 ELSE (g[k - 1] * base + GetVal(s[k], base)) % 2^WordBits]
           sum    == CHOOSE g : Is(g)
<1>4. ~signed
  <2>1. s[1] \in (48..57) \cup (97..102)
    BY <1>1, <1>3
  <2>2. \A x \in (48..57) \cup (97..102) : x \notin {Plus, Minus}
    BY DEF Plus, Minus
  <2> QED
    BY <2>1, <2>2
<1>5. pos = 0
  BY <1>4
<1> HIDE DEF signed, pos
<1>6. ~hex
  <2>1. CASE d = 1
    BY <1>2, <1>5, <2>1
  <2>2. CASE d = 2
    <3>0. 2 \in 1..d /\ \A x \in (48..57) \cup (97..102) : x \notin {120, 88}
      BY <2>2
    <3>1. s[2] = h[2] /\ h[2] \notin {120, 88}
      <4>1. s[2] = h[2]
        BY <1>2, <3>0
      <4>2. h[2] \in (48..57) \cup (97..102)
        BY <1>1, <3>0
      <4> QED
        BY <3>0, <4>1, <4>2
    <3>2. pos + 2 = 2
      BY <1>5
    <3>3. s[pos + 2] \notin {120, 88}
      BY <3>1, <3>2
    <3> QED
      BY <3>3
  <2> QED
    BY <1>1, <2>1, <2>2
<1>7. base = 16 /\ first = 1
  BY <1>5, <1>6
<1> HIDE DEF hex, base, first
<1>8. end = d
  <2>1. stops = {k \in 1..Len(s) : GetVal(s[k], 16) = EOF}
    BY <1>7
  <2>2. \A k \in 1..d : k \notin stops
    <3> SUFFICES ASSUME NEW k \in 1..d PROVE GetVal(s[k], 16) # EOF
      BY <2>1
    <3>1. s[k] = h[k] /\ GetVal(h[k], 16) \in 0..15
      BY <1>1, <1>2
    <3> QED
      BY <3>1 DEF EOF
  <2>3. CASE Len(s) = d
    <3>1. stops = {}
      BY <2>1, <2>2, <2>3
    <3> QED
      BY <2>3, <3>1
  <2>4. CASE Len(s) > d
    <3>1. d + 1 \in stops
      BY <1>1, <1>2, <1>3, <2>1, <2>4 DEF GetVal, EOF
    <3> HIDE DEF stops
    <3>2. stops \subseteq Nat
      BY <2>1
    <3>3. \A k \in stops : d + 1 <= k
      BY <1>1, <2>1, <2>2, <3>2
    <3>4. PICK c : c = CHOOSE k \in stops : \A j \in stops : k <= j
      OBVIOUS
    <3>5. c \in stops /\ \A j \in stops : c <= j
      BY <3>1, <3>3, <3>4
    <3>6. c <= d + 1 /\ d + 1 <= c /\ c \in Nat
      BY <3>1, <3>2, <3>3, <3>5
    <3>7. c = d + 1
      BY <1>1, <3>6
    <3>8. end = c - 1
      BY <3>1, <3>4
    <3> QED
      BY <1>1, <3>7, <3>8
  <2> QED
    BY <1>1, <1>2, <1>3, <2>3, <2>4
<1> HIDE DEF stops, end
<1>w. PICK W \in Nat : W = 2^WordBits /\ W > 255
  BY BufferAssumption
<1>9. \A g : Is(g) <=> g = [k \in 0..d |-> IF k < 1 THEN 0 ELSE (g[k - 1] * 16 + GetVal(s[k], 16)) % W]
  BY <1>7, <1>8, <1>w
<1> HIDE DEF Is
<1>10. \A v \in Nat : v < W => v % W = v
  BY <1>w
<1>a. PICK a \in 0..15, b \in 0..15 :
         /\ a = GetVal(s[1], 16) /\ (d = 1 => a = n)
         /\ d = 2 => b = GetVal(s[2], 16) /\ a * 16 + b = n
  <2>1. CASE d = 1
    <3>1. 1 \in 1..d
      BY <2>1
    <3>2. s[1] = h[1] /\ GetVal(h[1], 16) \in 0..15
      BY <1>1, <1>2, <3>1
    <3>3. GetVal(h[1], 16) = n
      BY <1>1, <2>1
    <3>4. d # 2
      BY <2>1
    <3> QED
      BY <3>2, <3>3, <3>4
  <2>2. CASE d = 2
    <3>1. PICK a \in 0..15, b \in 0..15 : a = GetVal(h[1], 16) /\ b = GetVal(h[2], 16)
      BY <1>1, <2>2
    <3>2. 16 * a + b = n /\ s[1] = h[1] /\ s[2] = h[2]
      BY <1>1, <1>2, <2>2, <3>1
    <3>3. a * 16 + b = n
      BY <3>2
    <3> QED
      BY <2>2, <3>1, <3>2, <3>3
  <2> QED
    BY <1>1, <2>1, <2>2
<1>b. (0 * 16 + a) % W = a /\ (d = 2 => (a * 16 + b) % W = n)
  <2>1. 0 * 16 + a = a /\ a \in Nat /\ a < W /\ n \in Nat /\ n < W
    BY <1>w DEF Bytes
  <2> QED
    BY <1>10, <1>a, <2>1
<1>11. Is(sum)
  <2> DEFINE g == [k \in 0..d |-> IF k = 0 THEN 0 ELSE IF k = d THEN n ELSE a]
  <2>1. \A k \in 0..d : g[k] = IF k < 1 THEN 0 ELSE (g[k - 1] * 16 + GetVal(s[k], 16)) % W
    <3>1. CASE d = 1
      BY <1>a, <1>b, <3>1
    <3>2. CASE d = 2
      <4>1. g[0] = 0 /\ g[1] = a /\ g[2] = n
        BY <3>2
      <4>2. g[1] = (g[0] * 16 + GetVal(s[1], 16)) % W
        BY <1>a, <1>b, <4>1
      <4>3. g[2] = (g[1] * 16 + GetVal(s[2], 16)) % W
        BY <1>a, <1>b, <3>2, <4>1
      <4>4. 0..d = {0, 1, 2}
        BY <3>2
      <4> HIDE DEF g
      <4> QED
        BY <4>1, <4>2, <4>3, <4>4
    <3> QED
      BY <1>1, <3>1, <3>2
  <2>2. g = [k \in 0..d |-> IF k < 1 THEN 0 ELSE (g[k - 1] * 16 + GetVal(s[k], 16)) % W]
    BY <2>1
  <2> HIDE DEF g
  <2>3. Is(g)
    BY <1>9, <2>2
  <2> QED
    BY <2>3
<1> HIDE DEF sum
<1>12. \A k \in 0..d : sum[k] = IF k < 1 THEN 0 ELSE (sum[k - 1] * 16 + GetVal(s[k], 16)) % W
  <2>1. sum = [k \in 0..d |-> IF k < 1 THEN 0 ELSE (sum[k - 1] * 16 + GetVal(s[k], 16)) % W]
    BY <1>9, <1>11
  <2> QED
    BY <2>1
<1>13. sum[d] = n
  <2>1. sum[0] = 0 /\ sum[1] = (0 * 16 + GetVal(s[1], 16)) % W
    BY <1>1, <1>12
  <2>2. CASE d = 1
    BY <1>a, <1>b, <2>1, <2>2
  <2>3. CASE d = 2
    <3>1. sum[2] = (sum[1] * 16 + GetVal(s[2], 16)) % W
      BY <1>12, <2>3
    <3> QED
      BY <1>a, <1>b, <2>1, <2>3, <3>1
  <2> QED
    BY <1>1, <2>2, <2>3
<1>14. StrToL(s, 16) = IF end < first THEN [value |-> 0, taken |-> 0]
                       ELSE [value |-> IF signed /\ s[1] = Minus THEN (2^WordBits - sum[end]) % 2^WordBits
                                       ELSE sum[end],
                             taken |-> end]
  BY DEF StrToL, signed, pos, hex, base, first, stops, end, sum, Is
<1> QED
  BY <1>1, <1>4, <1>7, <1>8, <1>13, <1>14, <1>d

------------------------------------------------------------------------------
(* The text of a command. *)

\* The characters that are not of the framing.
Plain == Chars \ {Dollar, Hash}

\* The text up to each number of a command.
Sep(k) == IF k = 1 THEN <<>> ELSE <<Comma>>
Built(c, u) ==
    /\ u \in [0..Len(c.args) -> Seq(Plain)]
    /\ u[0] = <<c.letter>>
    /\ \A k \in 1..Len(c.args) : u[k] = u[k - 1] \o Sep(k) \o HexOf(c.args[k])
    /\ Text(c) = u[Len(c.args)] \o c.tail

\* What a sequence has is in its set.
LEMMA ElementsIn ==
  ASSUME NEW S, NEW s \in Seq(S)
  PROVE  \A i \in 1..Len(s) : s[i] \in S
OBVIOUS

\* Three sequences in a row.
LEMMA ThreeInARow ==
  ASSUME NEW S, NEW a \in Seq(S), NEW b \in Seq(S), NEW c \in Seq(S)
  PROVE  LET s == a \o b \o c
         IN  /\ s \in Seq(S) /\ Len(s) = Len(a) + Len(b) + Len(c)
             /\ \A i \in 1..Len(a) : s[i] = a[i]
             /\ \A i \in 1..Len(b) : s[Len(a) + i] = b[i]
             /\ \A i \in 1..Len(c) : s[Len(a) + Len(b) + i] = c[i]
<1>d. PICK t, s : t = a \o b /\ s = t \o c
  OBVIOUS
<1>1. /\ t \in Seq(S) /\ Len(t) = Len(a) + Len(b)
      /\ \A i \in 1..Len(a) : t[i] = a[i]
      /\ \A i \in 1..Len(b) : t[Len(a) + i] = b[i]
  BY <1>d
<1>2. /\ s \in Seq(S) /\ Len(s) = Len(t) + Len(c)
      /\ \A i \in 1..Len(t) : s[i] = t[i]
      /\ \A i \in 1..Len(c) : s[Len(t) + i] = c[i]
  BY <1>1, <1>d
<1>3. /\ \A i \in 1..Len(a) : i \in 1..Len(t)
      /\ \A i \in 1..Len(b) : Len(a) + i \in 1..Len(t)
  BY <1>1
<1> QED
  BY <1>1, <1>2, <1>3, <1>d

\* A command is well formed.
LEMMA CommandIs ==
  ASSUME NEW c \in Commands
  PROVE  /\ c.letter \in Plain /\ c.args \in Seq(Bytes) /\ c.tail \in Seq(Plain)
         /\ Len(c.args) = (Len(Format(c.letter)) + 1) \div 2
         /\ c.args # <<>> /\ c.tail # <<>> =>
               DigitOf(c.tail[1]) = EOF /\ c.tail[1] \notin {120, 88}
         /\ c.letter \in {77, 88} => c.tail # <<>> /\ c.tail[1] = Colon
         /\ c.letter = 109 => Len(Text(c)) <= BufLen
BY CommandsAssumption DEF Bytes, Plain

\* The text of a command is built number by number.
LEMMA TextBuilt ==
  ASSUME NEW c \in Commands
  PROVE  \E u : Built(c, u)
<1> DEFINE n == Len(c.args)
           S == Seq(Plain)
           base == <<c.letter>>
           F == [p \in (1..n) \X S |-> p[2] \o Sep(p[1]) \o HexOf(c.args[p[1]])]
           Is(g) == g = [k \in 0..n |->
                           IF k = 0 THEN <<c.letter>>
                           ELSE g[k - 1] \o (IF k = 1 THEN <<>> ELSE <<Comma>>) \o HexOf(c.args[k])]
           upto == CHOOSE g : Is(g)
<1>1. n \in Nat /\ \A k \in 1..n : c.args[k] \in Bytes
  BY CommandIs
<1>2. base \in S
  BY CommandIs
<1>3. \A k \in 1..n : Sep(k) \in S /\ HexOf(c.args[k]) \in S
  <2>1. Comma \in Plain
    BY DEF Comma, Plain, Chars, Dollar, Hash
  <2>2. \A k \in 1..n : Sep(k) \in S
    BY <2>1 DEF Sep
  <2>3. \A k \in 1..n : HexOf(c.args[k]) \in S
    BY <1>1, HexOfIs DEF Plain
  <2> QED
    BY <2>2, <2>3
<1>4. F \in [(1..n) \X S -> S]
  <2>1. ASSUME NEW k \in 1..n, NEW x \in S
        PROVE  x \o Sep(k) \o HexOf(c.args[k]) \in S
    BY <1>3
  <2> QED
    BY <2>1
<1>r. PICK u : Recursive(u, n, S, base, F)
  <2> HIDE DEF F, n, S, base
  <2>1. n \in Nat
    BY <1>1
  <2> QED
    BY Zenon, <1>2, <1>4, <2>1, RecursionExists
<1>5. u \in [0..n -> S] /\ u[0] = base /\ \A k \in 1..n : u[k] = F[<<k, u[k - 1]>>]
  <2> HIDE DEF F, n, S, base
  <2> QED
    BY <1>r DEF Recursive
<1>6. \A k \in 1..n : u[k] = u[k - 1] \o Sep(k) \o HexOf(c.args[k])
  <2> SUFFICES ASSUME NEW k \in 1..n PROVE u[k] = u[k - 1] \o Sep(k) \o HexOf(c.args[k])
    OBVIOUS
  <2>1. k - 1 \in 0..n
    BY <1>1
  <2>2. <<k, u[k - 1]>> \in (1..n) \X S
    BY <1>5, <2>1
  <2>3. F[<<k, u[k - 1]>>] = u[k - 1] \o Sep(k) \o HexOf(c.args[k])
    BY <2>2
  <2> QED
    BY <1>5, <2>3
<1>7. Is(u)
  <2>1. \A k \in 0..n : u[k] = IF k = 0 THEN <<c.letter>>
                              ELSE u[k - 1] \o (IF k = 1 THEN <<>> ELSE <<Comma>>) \o HexOf(c.args[k])
    <3> SUFFICES ASSUME NEW k \in 0..n
                 PROVE  u[k] = IF k = 0 THEN <<c.letter>>
                               ELSE u[k - 1] \o (IF k = 1 THEN <<>> ELSE <<Comma>>) \o HexOf(c.args[k])
      OBVIOUS
    <3>1. CASE k = 0
      BY <1>5, <3>1
    <3>2. CASE k # 0
      <4>1. k \in 1..n
        BY <1>1, <3>2
      <4>2. u[k] = u[k - 1] \o Sep(k) \o HexOf(c.args[k])
        BY <1>6, <4>1
      <4> QED
        BY Zenon, <3>2, <4>2 DEF Sep
    <3> QED
      BY <3>1, <3>2
  <2> QED
    BY <1>5, <2>1
<1> HIDE DEF F
<1>8. Is(upto)
  BY <1>7
<1>9. Text(c) = upto[n] \o c.tail
  BY DEF Text
<1> HIDE DEF upto
<1>10. \A k \in 0..n : upto[k] = IF k = 0 THEN <<c.letter>>
                               ELSE upto[k - 1] \o Sep(k) \o HexOf(c.args[k])
  BY <1>8 DEF Sep
<1>11. \A k \in 0..n : upto[k] = u[k]
  <2> DEFINE T == {k \in 0..n : upto[k] = u[k]}
  <2>1. 0 \in T
    BY <1>1, <1>5, <1>10
  <2>2. ASSUME NEW k \in 0..(n - 1), k \in T
        PROVE  k + 1 \in T
    <3>1. k + 1 \in 1..n /\ (k + 1) - 1 = k /\ k + 1 # 0 /\ k + 1 \in 0..n
      BY <1>1
    <3>2. upto[k + 1] = upto[k] \o Sep(k + 1) \o HexOf(c.args[k + 1])
      BY <1>10, <3>1
    <3>3. u[k + 1] = u[k] \o Sep(k + 1) \o HexOf(c.args[k + 1])
      BY <1>6, <3>1
    <3> QED
      BY <2>2, <3>1, <3>2, <3>3
  <2> HIDE DEF T
  <2>3. 0..n \subseteq T
    BY <1>1, <2>1, <2>2, Facts!SetInductionUpTo
  <2> QED
    BY <2>3 DEF T
<1>12. Text(c) = u[n] \o c.tail
  <2>1. n \in 0..n
    BY <1>1
  <2>2. upto[n] = u[n]
    BY <1>11, <2>1
  <2> QED
    BY Zenon, <1>9, <2>2
<1> QED
  BY <1>5, <1>6, <1>12 DEF Built

\* Where the numbers of a command end in its text, and what is around them.
Laid(c, t, e) ==
    /\ e \in [0..Len(c.args) -> Nat]
    /\ e[0] = 1
    /\ \A k \in 0..Len(c.args) : e[k] <= Len(t)
    /\ \A k \in 1..Len(c.args) :
          /\ e[k] = e[k - 1] + Len(Sep(k)) + Len(HexOf(c.args[k]))
          /\ k > 1 => t[e[k - 1] + 1] = Comma
          /\ \A i \in 1..Len(HexOf(c.args[k])) :
                t[e[k - 1] + Len(Sep(k)) + i] = HexOf(c.args[k])[i]
    /\ Len(t) = e[Len(c.args)] + Len(c.tail)
    /\ c.tail # <<>> => t[e[Len(c.args)] + 1] = c.tail[1]

LEMMA TextLaid ==
  ASSUME NEW c \in Commands
  PROVE  /\ Text(c) \in Seq(Plain) /\ Len(Text(c)) >= 1 /\ Text(c)[1] = c.letter
         /\ \E e : Laid(c, Text(c), e)
<1>n. PICK n, t : n = Len(c.args) /\ t = Text(c)
  OBVIOUS
<1>u. PICK u : Built(c, u)
  BY TextBuilt
<1>1. /\ n \in Nat /\ u \in [0..n -> Seq(Plain)] /\ u[0] = <<c.letter>>
      /\ \A k \in 1..n : u[k] = u[k - 1] \o Sep(k) \o HexOf(c.args[k])
      /\ t = u[n] \o c.tail
  <2>1. n \in Nat
    BY <1>n, CommandIs
  <2> QED
    BY <1>n, <1>u, <2>1 DEF Built
<1>2. c.letter \in Plain /\ c.tail \in Seq(Plain) /\ \A k \in 1..n : c.args[k] \in Bytes
  BY <1>n, CommandIs
<1>3. /\ t \in Seq(Plain) /\ Len(t) = Len(u[n]) + Len(c.tail)
      /\ \A i \in 1..Len(u[n]) : t[i] = u[n][i]
      /\ c.tail # <<>> => t[Len(u[n]) + 1] = c.tail[1]
  <2>1. u[n] \in Seq(Plain)
    BY <1>1
  <2>2. c.tail # <<>> => 1 \in 1..Len(c.tail)
    BY <1>2
  <2> QED
    BY <1>1, <1>2, <2>1, <2>2
<1> DEFINE Grown(k, p, d, m) ==
              /\ p = Len(u[k - 1]) /\ d = Len(HexOf(c.args[k])) /\ m = Len(Sep(k))
              /\ Len(u[k]) = p + m + d
              /\ \A i \in 1..p : u[k][i] = u[k - 1][i]
              /\ k > 1 => m = 1 /\ u[k][p + 1] = Comma
              /\ \A i \in 1..d : u[k][p + m + i] = HexOf(c.args[k])[i]
<1>4. ASSUME NEW k \in 1..n
      PROVE  \E p \in Nat, d \in {1, 2}, m \in {0, 1} : Grown(k, p, d, m)
  <2>1. k - 1 \in 0..n /\ u[k - 1] \in Seq(Plain)
    BY <1>1
  <2>2. Sep(k) \in Seq(Plain) /\ Len(Sep(k)) = (IF k = 1 THEN 0 ELSE 1) /\ (k > 1 => Sep(k)[1] = Comma)
    <3>1. Comma \in Plain
      BY DEF Comma, Plain, Chars, Dollar, Hash
    <3> QED
      BY <3>1 DEF Sep
  <2>3. HexOf(c.args[k]) \in Seq(Plain) /\ Len(HexOf(c.args[k])) \in {1, 2}
    BY <1>2, HexOfIs DEF Plain
  <2>4. PICK a, b, h : a = u[k - 1] /\ b = Sep(k) /\ h = HexOf(c.args[k])
    OBVIOUS
  <2>5. a \in Seq(Plain) /\ b \in Seq(Plain) /\ h \in Seq(Plain) /\ u[k] = a \o b \o h
    BY <1>1, <2>1, <2>2, <2>3, <2>4
  <2>w. PICK w : w = a \o b \o h
    OBVIOUS
  <2>x. /\ Len(w) = Len(a) + Len(b) + Len(h)
        /\ \A i \in 1..Len(a) : w[i] = a[i]
        /\ \A i \in 1..Len(b) : w[Len(a) + i] = b[i]
        /\ \A i \in 1..Len(h) : w[Len(a) + Len(b) + i] = h[i]
    BY <2>5, <2>w, ThreeInARow
  <2>6. /\ Len(u[k]) = Len(a) + Len(b) + Len(h)
        /\ \A i \in 1..Len(a) : u[k][i] = a[i]
        /\ \A i \in 1..Len(b) : u[k][Len(a) + i] = b[i]
        /\ \A i \in 1..Len(h) : u[k][Len(a) + Len(b) + i] = h[i]
    BY Zenon, <2>5, <2>w, <2>x
  <2>7. k > 1 => u[k][Len(a) + 1] = Comma
    <3>1. k > 1 => 1 \in 1..Len(b)
      BY <2>2, <2>4
    <3> QED
      BY <2>2, <2>4, <2>6, <3>1
  <2>8. Len(a) \in Nat /\ Len(h) \in {1, 2} /\ Len(b) \in {0, 1} /\ (k > 1 => Len(b) = 1)
    BY <2>2, <2>3, <2>4, <2>5
  <2>9. PICK p \in Nat, d \in {1, 2}, m \in {0, 1} : p = Len(a) /\ d = Len(h) /\ m = Len(b)
    BY <2>8
  <2>10. /\ Len(u[k]) = p + m + d
         /\ \A i \in 1..p : u[k][i] = a[i]
         /\ k > 1 => m = 1 /\ u[k][p + 1] = Comma
         /\ \A i \in 1..d : u[k][p + m + i] = h[i]
    BY <2>6, <2>7, <2>8, <2>9
  <2>11. p = Len(u[k - 1]) /\ d = Len(HexOf(c.args[k])) /\ m = Len(Sep(k))
    BY <2>4, <2>9
  <2>12. \A i \in 1..p : u[k][i] = u[k - 1][i]
    BY Zenon, <2>4, <2>10
  <2>13. \A i \in 1..d : u[k][p + m + i] = HexOf(c.args[k])[i]
    BY Zenon, <2>4, <2>10
  <2>14. Grown(k, p, d, m)
    BY Zenon, <2>10, <2>11, <2>12, <2>13
  <2> HIDE DEF Grown
  <2> QED
    BY <2>14
<1> DEFINE Fits1(k) == Len(u[k]) <= Len(t) /\ \A i \in 1..Len(u[k]) : t[i] = u[k][i]
           T == {j \in 0..n : Fits1(n - j)}
<1>5. \A k \in 0..n : u[k] \in Seq(Plain) /\ Len(u[k]) \in Nat
  BY <1>1
<1>6. 0 \in T
  <2>1. n - 0 = n /\ n \in 0..n
    BY <1>1
  <2>a. PICK p \in Nat, q \in Nat : p = Len(u[n]) /\ q = Len(c.tail)
    BY <1>2, <1>5, <2>1
  <2>b. p <= p + q
    OBVIOUS
  <2>2. Len(u[n]) <= Len(t)
    BY <1>3, <2>a, <2>b
  <2> QED
    BY <1>1, <1>3, <2>1, <2>2
<1>7. ASSUME NEW j \in 0..(n - 1), j \in T
      PROVE  j + 1 \in T
  <2>1. PICK k \in 1..n : k = n - j
    BY <1>1
  <2>2. n - (j + 1) = k - 1 /\ j + 1 \in 0..n /\ k - 1 \in 0..n
    BY <1>1, <2>1
  <2>3. Fits1(k)
    BY <1>7, <2>1
  <2>a. PICK p \in Nat, d \in {1, 2}, m \in {0, 1} :
           /\ p = Len(u[k - 1]) /\ Len(u[k]) = p + m + d
           /\ \A i \in 1..p : u[k][i] = u[k - 1][i]
    BY <1>4
  <2>l. PICK l \in Nat : l = Len(t)
    <3>1. t \in Seq(Plain)
      BY <1>3
    <3>2. Len(t) \in Nat
      BY <3>1
    <3> QED
      BY <3>2
  <2>4. \A i \in 1..Len(u[k - 1]) : u[k][i] = u[k - 1][i]
    BY <2>a
  <2>5. Len(u[k - 1]) <= Len(t)
    <3>1. p + m + d <= l
      BY <2>3, <2>a, <2>l
    <3> QED
      BY <2>a, <2>l, <3>1
  <2>6. \A i \in 1..Len(u[k - 1]) : i \in 1..Len(u[k])
    BY <2>a
  <2>7. Fits1(k - 1)
    BY <2>3, <2>4, <2>5, <2>6
  <2> QED
    BY <2>2, <2>7
<1> HIDE DEF T, Fits1
<1>8. 0..n \subseteq T
  BY <1>1, <1>6, <1>7, Facts!SetInductionUpTo
<1>9. ASSUME NEW k \in 0..n
      PROVE  Len(u[k]) <= Len(t) /\ \A i \in 1..Len(u[k]) : t[i] = u[k][i]
  <2>1. n - k \in 0..n /\ n - (n - k) = k
    BY <1>1
  <2> QED
    BY <1>8, <2>1 DEF T, Fits1
<1>10. Len(t) >= 1 /\ t[1] = c.letter
  <2>a. PICK l : l = c.letter
    OBVIOUS
  <2>b. u[0] = <<l>>
    BY <1>1, <2>a
  <2>1. 0 \in 0..n
    BY <1>1
  <2>2. Len(u[0]) = 1 /\ u[0][1] = l /\ 1 \in 1..Len(u[0])
    BY <2>b
  <2>3. Len(u[0]) <= Len(t) /\ t[1] = u[0][1]
    BY <1>9, <2>1, <2>2
  <2>4. t \in Seq(Plain)
    BY <1>3
  <2>5. Len(t) \in Nat
    BY <2>4
  <2> QED
    BY <2>2, <2>3, <2>5, <2>a
<1> DEFINE e == [k \in 0..n |-> Len(u[k])]
<1>11. Laid(c, t, e)
  <2>1. e \in [0..n -> Nat]
    BY <1>5
  <2>2. e[0] = 1
    <3>a. PICK l : l = c.letter
      OBVIOUS
    <3>1. u[0] = <<l>> /\ 0 \in 0..n
      BY <1>1, <3>a
    <3>2. Len(u[0]) = 1
      BY <3>1
    <3> QED
      BY <3>1, <3>2
  <2>3. \A k \in 0..n : e[k] <= Len(t)
    BY <1>9
  <2>4. ASSUME NEW k \in 1..n
        PROVE  /\ e[k] = e[k - 1] + Len(Sep(k)) + Len(HexOf(c.args[k]))
               /\ k > 1 => t[e[k - 1] + 1] = Comma
               /\ \A i \in 1..Len(HexOf(c.args[k])) :
                     t[e[k - 1] + Len(Sep(k)) + i] = HexOf(c.args[k])[i]
    <3>1. k \in 0..n /\ k - 1 \in 0..n
      BY <1>1
    <3>2. PICK p \in Nat, d \in {1, 2}, m \in {0, 1} :
             /\ p = Len(u[k - 1]) /\ d = Len(HexOf(c.args[k])) /\ m = Len(Sep(k))
             /\ Len(u[k]) = p + m + d
             /\ k > 1 => m = 1 /\ u[k][p + 1] = Comma
             /\ \A i \in 1..d : u[k][p + m + i] = HexOf(c.args[k])[i]
      BY <1>4
    <3>3. e[k] = p + m + d /\ e[k - 1] = p
      BY <3>1, <3>2
    <3>q. PICK q \in Nat : q = p + m + d
      OBVIOUS
    <3>t. \A i \in 1..q : t[i] = u[k][i]
      BY <1>9, <3>1, <3>2, <3>q
    <3>4. k > 1 => t[p + 1] = Comma
      <4>a. k > 1 => m = 1
        BY <3>2
      <4>1. k > 1 => p + 1 \in 1..q
        BY <3>q, <4>a
      <4> QED
        BY <3>2, <3>t, <4>1
    <3>5. \A i \in 1..d : t[p + m + i] = HexOf(c.args[k])[i]
      <4>1. \A i \in 1..d : p + m + i \in 1..q
        BY <3>q
      <4> QED
        BY <3>2, <3>t, <4>1
    <3> HIDE DEF e
    <3> QED
      BY <3>2, <3>3, <3>4, <3>5
  <2>5. e[n] = Len(u[n])
    BY <1>1
  <2> HIDE DEF e
  <2> QED
    BY <1>n, <1>3, <2>1, <2>2, <2>3, <2>4, <2>5 DEF Laid
<1> QED
  BY <1>n, <1>3, <1>10, <1>11
------------------------------------------------------------------------------
(* Taking a packet apart. *)

\* What dbg_main expects of a command: its numbers, a comma between two of
\* them, and a colon behind the last for M and X.
LEMMA Places ==
  ASSUME NEW c \in Commands
  PROVE  LET F == Format(c.letter)
             n == Len(c.args)
         IN  /\ Len(F) \in 0..5 /\ n \in 0..3 /\ n = (Len(F) + 1) \div 2
             /\ \A m \in 1..Len(F) : \E j \in 1..n :
                  \/ m = 2 * j - 1 /\ F[m] = Integer
                  \/ m = 2 * j /\ j < n /\ F[m] = Comma
                  \/ m = 2 * j /\ j = n /\ c.letter \in {77, 88} /\ F[m] = Colon
<1>n. PICK F, n, l : F = Format(c.letter) /\ n = Len(c.args) /\ l = c.letter
  OBVIOUS
<1> DEFINE Fine == \A m \in 1..Len(F) : \E j \in 1..n :
                      \/ m = 2 * j - 1 /\ F[m] = Integer
                      \/ m = 2 * j /\ j < n /\ F[m] = Comma
                      \/ m = 2 * j /\ j = n /\ l \in {77, 88} /\ F[m] = Colon
<1>1. n = (Len(F) + 1) \div 2
  BY <1>n, CommandIs
<1>f. F = Format(l)
  BY <1>n
<1>2. CASE l = 109
  <2>1. F = <<Integer, Comma, Integer>>
    BY <1>2, <1>f DEF Format
  <2>2. Len(F) = 3 /\ F[1] = Integer /\ F[2] = Comma /\ F[3] = Integer
    BY <2>1
  <2>3. n = 2
    BY <1>1, <2>2
  <2>4. Fine
    BY <2>2, <2>3
  <2> QED
    BY <1>1, <1>n, <2>2, <2>3, <2>4
<1>3. CASE l \in {77, 88}
  <2>1. F = <<Integer, Comma, Integer, Colon>>
    BY <1>3, <1>f DEF Format
  <2>2. Len(F) = 4 /\ F[1] = Integer /\ F[2] = Comma /\ F[3] = Integer /\ F[4] = Colon
    BY <2>1
  <2>3. n = 2
    BY <1>1, <2>2
  <2>4. Fine
    BY <1>3, <2>2, <2>3
  <2> QED
    BY <1>1, <1>n, <2>2, <2>3, <2>4
<1>4. CASE l \in {90, 122}
  <2>1. F = <<Integer, Comma, Integer, Comma, Integer>>
    BY <1>4, <1>f DEF Format
  <2>2. Len(F) = 5 /\ F[1] = Integer /\ F[2] = Comma /\ F[3] = Integer /\ F[4] = Comma /\ F[5] = Integer
    BY <2>1
  <2>3. n = 3
    BY <1>1, <2>2
  <2>4. Fine
    BY <2>2, <2>3
  <2> QED
    BY <1>1, <1>n, <2>2, <2>3, <2>4
<1>5. CASE l = 112
  <2>1. F = <<Integer>>
    BY <1>5, <1>f DEF Format
  <2>2. Len(F) = 1 /\ F[1] = Integer
    BY <2>1
  <2>3. n = 1
    BY <1>1, <2>2
  <2>4. Fine
    BY <2>2, <2>3
  <2> QED
    BY <1>1, <1>n, <2>2, <2>3, <2>4
<1>6. CASE l \notin {109, 77, 88, 90, 122, 112}
  <2>1. F = <<>>
    BY <1>6, <1>f DEF Format
  <2>2. Len(F) = 0
    BY <2>1
  <2>3. n = 0
    BY <1>1, <2>2
  <2>4. Fine
    BY <2>2, <2>3
  <2> QED
    BY <1>1, <1>n, <2>2, <2>3, <2>4
<1> QED
  BY <1>2, <1>3, <1>4, <1>5, <1>6

\* The buffer holds the text, and the text fits.
Holds(b, t) ==
    /\ b \in [0..(BufLen - 1) -> Chars]
    /\ Len(t) <= BufLen
    /\ \A i \in 1..Len(t) : b[i - 1] = t[i]

\* Where dbg_main is after m steps.
At(c, e, m) ==
    [ok |-> TRUE,
     next |-> e[(m + 1) \div 2] + (IF m > 0 /\ m % 2 = 0 THEN 1 ELSE 0),
     args |-> SubSeq(c.args, 1, (m + 1) \div 2),
     letter |-> c.letter]

\* A number is read up to what is behind it in the packet.
LEMMA IntegerRead ==
  ASSUME NEW c \in Commands, NEW t \in Seq(Plain), NEW e, Laid(c, t, e), NEW b, Holds(b, t),
         NEW j \in 1..Len(c.args)
  PROVE  ExpectInteger(b, Len(t), At(c, e, 2 * j - 2)) = At(c, e, 2 * j - 1)
<1>n. PICK n \in Nat, l \in Nat : n = Len(c.args) /\ l = Len(t)
  <2>1. Len(c.args) \in Nat /\ Len(t) \in Nat
    BY CommandIs
  <2> QED
    BY <2>1
<1>v. PICK v \in Bytes : v = c.args[j]
  BY CommandIs
<1>1. PICK q \in Nat, m \in {0, 1}, d \in {1, 2}, x \in Nat :
         /\ q = e[j - 1] /\ x = e[j] /\ m = Len(Sep(j)) /\ d = Len(HexOf(v))
         /\ m = (IF j = 1 THEN 0 ELSE 1)
         /\ x = q + m + d /\ x <= l
         /\ \A i \in 1..d : t[q + m + i] = HexOf(v)[i]
  <2>1. j - 1 \in 0..n /\ j \in 0..n /\ j \in 1..n
    BY <1>n
  <2>2. e[j - 1] \in Nat /\ e[j] \in Nat /\ e[j] <= l
    BY <1>n, <2>1 DEF Laid
  <2>3. Len(Sep(j)) \in {0, 1} /\ Len(Sep(j)) = (IF j = 1 THEN 0 ELSE 1)
    BY DEF Sep
  <2>4. Len(HexOf(v)) \in {1, 2}
    BY HexOfIs
  <2>5. /\ e[j] = e[j - 1] + Len(Sep(j)) + Len(HexOf(v))
        /\ \A i \in 1..Len(HexOf(v)) : t[e[j - 1] + Len(Sep(j)) + i] = HexOf(v)[i]
    BY <1>v DEF Laid
  <2> QED
    BY <2>2, <2>3, <2>4, <2>5
<1>2. At(c, e, 2 * j - 2).next = q + m
  <2>1. (2 * j - 2 + 1) \div 2 = j - 1 /\ (2 * j - 2) % 2 = 0 /\ (2 * j - 2 > 0 <=> j # 1)
    BY <1>n
  <2> QED
    BY <1>1, <2>1 DEF At
<1>s. PICK s : s = Remaining(b, q + m, l)
  OBVIOUS
<1>3. /\ s \in Seq(Int) /\ Len(s) = l - (q + m)
      /\ \A i \in 1..(l - (q + m)) : s[i] = t[q + m + i]
  <2>1. ~(q + m > l)
    BY <1>1
  <2>2. s = [k \in 1..(l - (q + m)) |-> b[q + m + k - 1]]
    BY <1>s, <2>1 DEF Remaining
  <2>3. PICK r \in Nat : r = l - (q + m)
    BY <2>1
  <2>4. \A i \in 1..r : q + m + i \in 1..l /\ q + m + i - 1 = (q + m + i) - 1
    BY <2>3
  <2>5. \A i \in 1..r : b[q + m + i - 1] = t[q + m + i]
    BY <1>n, <2>4 DEF Holds
  <2>6. \A i \in 1..r : t[q + m + i] \in Int
    <3>1. \A i \in 1..l : t[i] \in Plain
      BY <1>n
    <3>2. Plain \subseteq Int
      BY DEF Plain, Chars, Dollar, Hash
    <3> QED
      BY <2>4, <3>1, <3>2
  <2>7. s = [k \in 1..r |-> t[q + m + k]]
    BY <2>2, <2>3, <2>5
  <2>8. s \in Seq(Int)
    <3>1. s \in [1..r -> Int]
      BY <2>6, <2>7
    <3> QED
      BY <3>1
  <2>9. Len(s) = r /\ \A i \in 1..r : s[i] = t[q + m + i]
    BY <2>7
  <2> QED
    BY <2>3, <2>8, <2>9
<1>4. Len(s) > d => DigitOf(s[d + 1]) = EOF /\ s[d + 1] \notin {120, 88}
  <2> SUFFICES ASSUME Len(s) > d
               PROVE  DigitOf(s[d + 1]) = EOF /\ s[d + 1] \notin {120, 88}
    OBVIOUS
  <2>1. s[d + 1] = t[x + 1] /\ x + 1 <= l
    <3>0. l - (q + m) > d
      BY <1>3
    <3>1. d + 1 \in 1..(l - (q + m)) /\ q + m + (d + 1) = x + 1 /\ x + 1 <= l
      <4>1. x = q + m + d
        BY <1>1
      <4> QED
        BY <3>0, <4>1
    <3> QED
      BY <1>3, <3>1
  <2>2. CASE j < n
    <3>1. j + 1 \in 1..n /\ j + 1 > 1 /\ (j + 1) - 1 = j
      BY <2>2
    <3>2. t[e[(j + 1) - 1] + 1] = Comma
      BY <1>n, <3>1 DEF Laid
    <3>3. t[x + 1] = Comma
      BY <1>1, <3>1, <3>2
    <3> QED
      BY <2>1, <3>3 DEF Comma, DigitOf, EOF
  <2>3. CASE j = n
    <3>1. l = x + Len(c.tail) /\ (c.tail # <<>> => t[x + 1] = c.tail[1])
      BY <1>1, <1>n, <2>3 DEF Laid
    <3>2. c.tail # <<>>
      <4>1. c.tail = <<>> => Len(c.tail) = 0
        OBVIOUS
      <4> QED
        BY <2>1, <3>1, <4>1
    <3>3. c.args # <<>>
      OBVIOUS
    <3>4. DigitOf(c.tail[1]) = EOF /\ c.tail[1] \notin {120, 88}
      BY Zenon, <3>2, <3>3, CommandIs
    <3>5. t[x + 1] = c.tail[1]
      BY Zenon, <3>1, <3>2
    <3> QED
      BY Zenon, <2>1, <3>4, <3>5
  <2> QED
    BY <1>n, <2>2, <2>3
<1>5. Starts(s, v)
  <2>1. d <= Len(s)
    BY <1>1, <1>3
  <2>2. \A k \in 1..d : s[k] = HexOf(v)[k]
    <3>1. \A k \in 1..d : k \in 1..(l - (q + m))
      BY <1>1
    <3> QED
      BY <1>1, <1>3, <3>1
  <2> QED
    BY <1>1, <1>3, <1>4, <2>1, <2>2 DEF Starts
<1>6. StrToL(s, 16) = [value |-> v, taken |-> d]
  BY <1>1, <1>5, NumberRead
<1>7. ExpectInteger(b, l, At(c, e, 2 * j - 2)) =
         [At(c, e, 2 * j - 2) EXCEPT !.args = Append(@, v), !.next = @ + d]
  <2>1. PICK p, r : p = At(c, e, 2 * j - 2) /\ r = StrToL(Remaining(b, p.next, l), 16)
    OBVIOUS
  <2>2. r = [value |-> v, taken |-> d]
    BY <1>2, <1>6, <1>s, <2>1
  <2>3. r.value = v /\ r.taken = d /\ d # 0
    BY <2>2
  <2>4. ExpectInteger(b, l, p) = IF r.taken = 0 THEN [p EXCEPT !.ok = FALSE]
                                 ELSE [p EXCEPT !.args = Append(@, r.value), !.next = @ + r.taken]
    BY <2>1 DEF ExpectInteger
  <2>5. ExpectInteger(b, l, p) = [p EXCEPT !.args = Append(@, v), !.next = @ + d]
    BY <2>3, <2>4
  <2> QED
    BY <2>1, <2>5
<1>8. (2 * j - 2 + 1) \div 2 = j - 1 /\ (2 * j - 1 + 1) \div 2 = j /\ (2 * j - 1) % 2 = 1
  BY <1>n
<1>9. Append(SubSeq(c.args, 1, j - 1), v) = SubSeq(c.args, 1, j)
  <2>1. c.args \in Seq(Bytes) /\ j \in 1..Len(c.args)
    BY CommandIs
  <2> QED
    BY <1>v, <2>1
<1>10. q + m + d = x
  BY <1>1
<1>11. At(c, e, 2 * j - 1) = [ok |-> TRUE, next |-> x + 0, args |-> SubSeq(c.args, 1, j), letter |-> c.letter]
  BY <1>1, <1>8 DEF At
<1>12. At(c, e, 2 * j - 2) = [ok |-> TRUE, next |-> q + m, args |-> SubSeq(c.args, 1, j - 1), letter |-> c.letter]
  BY <1>2, <1>8 DEF At
<1>13. x + 0 = q + m + d
  BY <1>1
<1>14. PICK a, a2, z, z2 : /\ a = SubSeq(c.args, 1, j - 1) /\ a2 = SubSeq(c.args, 1, j)
                          /\ z = q + m /\ z2 = q + m + d
  OBVIOUS
<1>15. a2 = Append(a, v) /\ z2 = z + d
  BY <1>9, <1>14
<1>16. At(c, e, 2 * j - 2) = [ok |-> TRUE, next |-> z, args |-> a, letter |-> c.letter]
  BY <1>12, <1>14
<1>17. [At(c, e, 2 * j - 2) EXCEPT !.args = Append(@, v), !.next = @ + d] =
          [ok |-> TRUE, next |-> z2, args |-> a2, letter |-> c.letter]
  <2>1. PICK p, k, o : p = At(c, e, 2 * j - 2) /\ k = c.letter /\ o = TRUE
    OBVIOUS
  <2>2. p = [ok |-> o, next |-> z, args |-> a, letter |-> k]
    BY <1>16, <2>1
  <2>3. p.args = a /\ p.next = z
    BY <2>2
  <2>4. [p EXCEPT !.args = a2, !.next = z2] = [ok |-> o, next |-> z2, args |-> a2, letter |-> k]
    <3>1. PICK w : w = [p EXCEPT !.args = a2]
      OBVIOUS
    <3>2. w = [ok |-> o, next |-> z, args |-> a2, letter |-> k]
      BY <2>2, <3>1
    <3>3. [w EXCEPT !.next = z2] = [ok |-> o, next |-> z2, args |-> a2, letter |-> k]
      BY <3>2
    <3>4. [p EXCEPT !.args = a2, !.next = z2] = [w EXCEPT !.next = z2]
      BY <3>1
    <3> QED
      BY <3>3, <3>4
  <2> QED
    BY <1>15, <2>1, <2>3, <2>4
<1>18. At(c, e, 2 * j - 1) = [ok |-> TRUE, next |-> z2, args |-> a2, letter |-> c.letter]
  BY <1>11, <1>13, <1>14
<1> QED
  BY <1>7, <1>17, <1>18, <1>n

\* The comma or the colon behind it is there.
LEMMA SeparatorRead ==
  ASSUME NEW c \in Commands, NEW t \in Seq(Plain), NEW e, Laid(c, t, e), NEW b, Holds(b, t),
         NEW j \in 1..Len(c.args), NEW ch,
         \/ j < Len(c.args) /\ ch = Comma
         \/ j = Len(c.args) /\ ch = Colon /\ c.letter \in {77, 88}
  PROVE  ExpectSeparator(b, At(c, e, 2 * j - 1), ch) = At(c, e, 2 * j)
<1>n. PICK n \in Nat, l \in Nat : n = Len(c.args) /\ l = Len(t)
  <2>1. Len(c.args) \in Nat /\ Len(t) \in Nat
    BY CommandIs
  <2> QED
    BY <2>1
<1>1. PICK x \in Nat : x = e[j]
  <2>1. j \in 0..n
    BY <1>n
  <2> QED
    BY <1>n, <2>1 DEF Laid
<1>2. x + 1 <= l /\ t[x + 1] = ch
  <2>1. CASE j < n
    <3>1. j + 1 \in 1..n /\ j + 1 > 1 /\ (j + 1) - 1 = j /\ j + 1 \in 0..n /\ j + 1 # 1
      BY <2>1
    <3>2. t[x + 1] = Comma
      BY <1>1, <1>n, <3>1 DEF Laid
    <3>3. PICK m \in {1}, d \in {1, 2} : m = Len(Sep(j + 1)) /\ d = Len(HexOf(c.args[j + 1]))
      <4>1. Len(Sep(j + 1)) = 1
        BY <3>1 DEF Sep
      <4>2. c.args[j + 1] \in Bytes
        BY <1>n, <3>1, CommandIs
      <4>3. Len(HexOf(c.args[j + 1])) \in {1, 2}
        BY <4>2, HexOfIs
      <4> QED
        BY <4>1, <4>3
    <3>4. PICK y \in Nat : y = e[j + 1]
      BY <1>n, <3>1 DEF Laid
    <3>5. y = x + m + d /\ y <= l
      BY <1>1, <1>n, <3>1, <3>3, <3>4 DEF Laid
    <3> QED
      BY <1>n, <2>1, <3>2, <3>5
  <2>2. CASE j = n
    <3>1. c.tail # <<>> /\ c.tail[1] = Colon /\ c.tail \in Seq(Plain) /\ ch = Colon
      BY <1>n, <2>2, CommandIs
    <3>2. l = x + Len(c.tail) /\ t[x + 1] = c.tail[1]
      BY <1>1, <1>n, <2>2, <3>1 DEF Laid
    <3>3. Len(c.tail) \in Nat /\ Len(c.tail) > 0
      BY <3>1
    <3> QED
      BY <3>1, <3>2, <3>3
  <2> QED
    BY <1>n, <2>1, <2>2
<1>3. x \in DOMAIN b /\ b[x] = ch
  <2>1. x + 1 \in 1..l /\ (x + 1) - 1 = x
    BY <1>2
  <2>2. b[x] = t[x + 1]
    BY <1>n, <2>1 DEF Holds
  <2>3. x \in 0..(BufLen - 1)
    BY <1>2, <1>n, BufferAssumption DEF Holds
  <2> QED
    BY <1>2, <2>2, <2>3 DEF Holds
<1>4. /\ (2 * j - 1 + 1) \div 2 = j /\ (2 * j - 1) % 2 = 1
      /\ (2 * j + 1) \div 2 = j /\ (2 * j) % 2 = 0 /\ 2 * j > 0
  BY <1>n
<1>5. At(c, e, 2 * j - 1) = [ok |-> TRUE, next |-> x + 0, args |-> SubSeq(c.args, 1, j), letter |-> c.letter]
  BY <1>1, <1>4 DEF At
<1>6. At(c, e, 2 * j) = [ok |-> TRUE, next |-> x + 1, args |-> SubSeq(c.args, 1, j), letter |-> c.letter]
  BY <1>1, <1>4 DEF At
<1>7. x + 0 = x
  OBVIOUS
<1>8. PICK a, k : a = SubSeq(c.args, 1, j) /\ k = c.letter
  OBVIOUS
<1>9. PICK p : p = [ok |-> TRUE, next |-> x, args |-> a, letter |-> k]
  OBVIOUS
<1>10. At(c, e, 2 * j - 1) = p /\ p.next = x
  BY <1>5, <1>7, <1>8, <1>9
<1>11. ExpectSeparator(b, p, ch) = [p EXCEPT !.next = @ + 1]
  BY <1>3, <1>10 DEF ExpectSeparator
<1>12. [p EXCEPT !.next = @ + 1] = [ok |-> TRUE, next |-> x + 1, args |-> a, letter |-> k]
  <2>1. PICK y, o : y = x + 1 /\ o = TRUE
    OBVIOUS
  <2>2. p = [ok |-> o, next |-> x, args |-> a, letter |-> k]
    BY <1>9, <2>1
  <2>3. [p EXCEPT !.next = y] = [ok |-> o, next |-> y, args |-> a, letter |-> k]
    BY <2>2
  <2> QED
    BY <1>10, <2>1, <2>3
<1> QED
  BY <1>6, <1>8, <1>10, <1>11, <1>12

\* dbg_main understands a command, whatever is behind it in the buffer.
LEMMA ParsedText ==
  ASSUME NEW c \in Commands, NEW b, Holds(b, Text(c))
  PROVE  LET p == Parse(b, Len(Text(c)))
         IN  p.ok /\ p.letter = c.letter /\ p.args = c.args
<1>t. PICK t, l : t = Text(c) /\ l = Len(t)
  OBVIOUS
<1>1. t \in Seq(Plain) /\ l >= 1 /\ t[1] = c.letter /\ Holds(b, t)
  BY <1>t, TextLaid
<1>2. PICK e : Laid(c, t, e)
  BY <1>t, TextLaid
<1>3. b[0] = c.letter
  <2>1. l \in Nat
    BY <1>1, <1>t
  <2>2. 1 \in 1..l /\ 1 - 1 = 0
    BY <1>1, <2>1
  <2> QED
    BY <1>1, <1>t, <2>2 DEF Holds
<1>f. PICK F, L, n : F = Format(c.letter) /\ L = Len(F) /\ n = Len(c.args)
  OBVIOUS
<1>4. /\ L \in 0..5 /\ n \in 0..3 /\ n = (L + 1) \div 2
      /\ \A m \in 1..L : \E j \in 1..n :
           \/ m = 2 * j - 1 /\ F[m] = Integer
           \/ m = 2 * j /\ j < n /\ F[m] = Comma
           \/ m = 2 * j /\ j = n /\ c.letter \in {77, 88} /\ F[m] = Colon
  BY <1>f, Places
<1>5. ASSUME NEW m \in 1..L
      PROVE  Expect(b, l, At(c, e, m - 1), F[m]) = At(c, e, m)
  <2>1. PICK j \in 1..n :
           \/ m = 2 * j - 1 /\ F[m] = Integer
           \/ m = 2 * j /\ j < n /\ F[m] = Comma
           \/ m = 2 * j /\ j = n /\ c.letter \in {77, 88} /\ F[m] = Colon
    BY <1>4
  <2>2. At(c, e, m - 1).ok
    BY DEF At
  <2>3. CASE m = 2 * j - 1 /\ F[m] = Integer
    <3>1. m - 1 = 2 * j - 2
      BY <1>4, <2>3
    <3>2. ExpectInteger(b, l, At(c, e, 2 * j - 2)) = At(c, e, 2 * j - 1)
      BY <1>1, <1>2, <1>f, <1>t, IntegerRead
    <3> QED
      BY <2>2, <2>3, <3>1, <3>2 DEF Expect
  <2>4. CASE m = 2 * j /\ F[m] # Integer /\
             (\/ j < n /\ F[m] = Comma
              \/ j = n /\ c.letter \in {77, 88} /\ F[m] = Colon)
    <3>1. m - 1 = 2 * j - 1
      BY <2>4
    <3>2. ExpectSeparator(b, At(c, e, 2 * j - 1), F[m]) = At(c, e, 2 * j)
      BY <1>1, <1>2, <1>f, <2>4, SeparatorRead
    <3> QED
      BY <2>2, <2>4, <3>1, <3>2 DEF Expect
  <2> QED
    BY <2>1, <2>3, <2>4 DEF Integer, Comma, Colon
<1>6. At(c, e, 0) = [ok |-> TRUE, next |-> 1, args |-> <<>>, letter |-> c.letter]
  <2>1. (0 + 1) \div 2 = 0 /\ ~(0 > 0) /\ e[0] = 1 /\ SubSeq(c.args, 1, 0) = <<>>
    <3>1. e[0] = 1
      BY <1>2 DEF Laid
    <3>2. SubSeq(c.args, 1, 0) = <<>>
      BY CommandIs
    <3> QED
      BY <3>1, <3>2
  <2>2. 1 + 0 = 1
    OBVIOUS
  <2> QED
    BY <2>1, <2>2 DEF At
<1> DEFINE Is(g) == g = [k \in 0..L |->
                           IF k = 0 THEN [ok |-> TRUE, next |-> 1, args |-> <<>>, letter |-> c.letter]
                           ELSE Expect(b, l, g[k - 1], F[k])]
           parsed == CHOOSE g : Is(g)
<1>7. Is([k \in 0..L |-> At(c, e, k)])
  <2> DEFINE g == [k \in 0..L |-> At(c, e, k)]
  <2>1. \A k \in 0..L : g[k] = IF k = 0 THEN [ok |-> TRUE, next |-> 1, args |-> <<>>, letter |-> c.letter]
                              ELSE Expect(b, l, g[k - 1], F[k])
    <3> SUFFICES ASSUME NEW k \in 0..L
                 PROVE  g[k] = IF k = 0 THEN [ok |-> TRUE, next |-> 1, args |-> <<>>, letter |-> c.letter]
                              ELSE Expect(b, l, g[k - 1], F[k])
      OBVIOUS
    <3>1. g[k] = At(c, e, k)
      OBVIOUS
    <3>2. CASE k = 0
      BY <1>6, <3>1, <3>2
    <3>3. CASE k # 0
      <4>1. k \in 1..L /\ k - 1 \in 0..L
        BY <1>4, <3>3
      <4>2. g[k - 1] = At(c, e, k - 1)
        BY <4>1
      <4>3. Expect(b, l, At(c, e, k - 1), F[k]) = At(c, e, k)
        BY <1>5, <4>1
      <4> HIDE DEF g
      <4> QED
        BY <3>1, <3>3, <4>2, <4>3
    <3> QED
      BY <3>2, <3>3
  <2> QED
    BY <2>1
<1>8. Is(parsed)
  BY <1>7
<1>9. Parse(b, l) = parsed[L]
  BY <1>3, <1>f DEF Parse
<1> HIDE DEF parsed
<1>10. \A k \in 0..L : parsed[k] = IF k = 0 THEN [ok |-> TRUE, next |-> 1, args |-> <<>>, letter |-> c.letter]
                                 ELSE Expect(b, l, parsed[k - 1], F[k])
  BY <1>8
<1> HIDE DEF Is
<1>11. \A k \in 0..L : parsed[k] = At(c, e, k)
  <2> DEFINE T == {k \in 0..L : parsed[k] = At(c, e, k)}
  <2>1. 0 \in T
    <3>1. 0 \in 0..L
      BY <1>4
    <3>2. parsed[0] = [ok |-> TRUE, next |-> 1, args |-> <<>>, letter |-> c.letter]
      BY <1>10, <3>1
    <3> QED
      BY <1>6, <3>1, <3>2
  <2>2. ASSUME NEW k \in 0..(L - 1), k \in T
        PROVE  k + 1 \in T
    <3>1. k + 1 \in 1..L /\ (k + 1) - 1 = k /\ k + 1 # 0 /\ k + 1 \in 0..L
      BY <1>4
    <3>2. parsed[k + 1] = Expect(b, l, parsed[k], F[k + 1])
      BY <1>10, <3>1
    <3>3. Expect(b, l, At(c, e, k), F[k + 1]) = At(c, e, k + 1)
      BY <1>5, <3>1
    <3> QED
      BY <2>2, <3>1, <3>2, <3>3
  <2> HIDE DEF T
  <2>3. 0..L \subseteq T
    BY <1>4, <2>1, <2>2, Facts!SetInductionUpTo
  <2> QED
    BY <2>3 DEF T
<1>12. Parse(b, l) = At(c, e, L)
  BY <1>4, <1>9, <1>11
<1>13. At(c, e, L).ok /\ At(c, e, L).letter = c.letter /\ At(c, e, L).args = SubSeq(c.args, 1, n)
  BY <1>4 DEF At
<1>14. SubSeq(c.args, 1, n) = c.args
  BY <1>f, CommandIs
<1> QED
  BY <1>12, <1>13, <1>14, <1>t
------------------------------------------------------------------------------
(* The invariant. *)

\* What GDB has sent, and what the stub can have understood of it.
Sent  == {[letter |-> c.letter, args |-> c.args, text |-> Text(c)] : c \in Commands}
Taken == {[letter |-> c.letter, args |-> c.args] : c \in Commands}

UnderstoodUpTo(n) ==
    /\ Len(taken) = Cardinality(Fitting(n))
    /\ \A k \in Fitting(n) :
          taken[Cardinality(Fitting(k))] = [letter |-> sent[k].letter, args |-> sent[k].args]

\* The packet GDB has been sent answers a read of memory.
Answers(command, packet) ==
    LET addr == command.args[1]
        len  == command.args[2]
    IN  /\ packet = Framed(Body(packet))
        /\ IF len <= DataLen
           THEN BytesOf(Body(packet)) = [k \in 1..len |-> Memory[(addr + k - 1) % 2^WordBits]]
           ELSE Body(packet) = Error0

\* The characters w are the packet of t, whole or with one of them damaged.
OnTheWay(w, t) ==
    /\ Len(w) = Len(t) + 4
    /\ w[1] = Dollar /\ w[Len(t) + 2] = Hash
    /\ \A i \in 2..(Len(t) + 1) : w[i] \in Plain
    /\ w[Len(t) + 3] \in Plain /\ w[Len(t) + 4] \in Plain
    /\ DecHex(w[Len(t) + 3], w[Len(t) + 4]) = Checksum(t)
    /\ \/ SubSeq(w, 2, Len(t) + 1) = t
       \/ Checksum(SubSeq(w, 2, Len(t) + 1)) # Checksum(t)

\* Nothing on the way begins a packet: every command is understood, and the
\* last reply is the answer to the last of them.
Quiet ==
    /\ \A i \in 1..Len(input) : input[i] # Dollar
    /\ UnderstoodUpTo(Len(sent))
    /\ sent # <<>> /\ sent[Len(sent)].letter = 109 =>
          stub # "signal" /\ Answers(sent[Len(sent)], reply)

\* The last command is on the way.
Pending ==
    /\ stub = "receive" /\ sent # <<>>
    /\ UnderstoodUpTo(Len(sent) - 1)
    /\ OnTheWay(input, sent[Len(sent)].text)

\* The stub is going to take a packet for an acknowledgment.
Doomed == stub \in {"signal", "ack"} /\ input # <<>> /\ input[1] = Dollar

PacketInv ==
    /\ buf \in [0..(BufLen - 1) -> Chars]
    /\ input \in Seq(Chars)
    /\ sent \in Seq(Sent)
    /\ taken \in Seq(Taken)
    /\ stub \in {"receive", "signal", "ack", "exited"}
    /\ stub = "exited" \/ Quiet \/ Pending \/ Doomed

------------------------------------------------------------------------------
(* Packets. *)

\* Bytes are written with two digits each, from which they can be read.
LEMMA EncHexIs ==
  ASSUME NEW bytes \in Seq(Bytes)
  PROVE  LET h == EncHex(bytes)
         IN  /\ h \in Seq(Plain) /\ Len(h) = 2 * Len(bytes)
             /\ \A k \in 1..Len(bytes) : DecHex(h[2 * k - 1], h[2 * k]) = bytes[k]
<1>h. PICK n, h : n \in Nat /\ n = Len(bytes) /\ h = EncHex(bytes)
  <2>1. Len(bytes) \in Nat
    OBVIOUS
  <2> QED
    BY <2>1
<1> n \in Nat
  BY <1>h
<1>1. \A k \in 1..n : bytes[k] \in Bytes
  BY <1>h
<1> DEFINE digit(i) == IF i % 2 = 1 THEN GetDigit(bytes[(i + 1) \div 2] \div 16) ELSE GetDigit(bytes[i \div 2] % 16)
<1>2. h = [i \in 1..(2 * n) |-> digit(i)]
  BY <1>h DEF EncHex
<1>3. ASSUME NEW k \in 1..n
      PROVE  /\ 2 * k - 1 \in 1..(2 * n) /\ 2 * k \in 1..(2 * n)
             /\ digit(2 * k - 1) \in Plain /\ digit(2 * k) \in Plain
             /\ DecHex(digit(2 * k - 1), digit(2 * k)) = bytes[k]
  <2>0. PICK v \in Bytes : v = bytes[k]
    BY <1>1
  <2>1. PICK a \in 0..15, b \in 0..15 : a = v \div 16 /\ b = v % 16 /\ 16 * a + b = v
    BY ByteHalves
  <2>2. /\ 2 * k - 1 \in 1..(2 * n) /\ 2 * k \in 1..(2 * n)
        /\ (2 * k - 1) % 2 = 1 /\ (2 * k) % 2 = 0
        /\ (2 * k - 1 + 1) \div 2 = k /\ (2 * k) \div 2 = k
    OBVIOUS
  <2>3. digit(2 * k - 1) = GetDigit(a) /\ digit(2 * k) = GetDigit(b)
    BY <2>0, <2>1, <2>2
  <2>4. /\ GetDigit(a) \in (48..57) \cup (97..102) /\ GetVal(GetDigit(a), 16) = a
        /\ GetDigit(b) \in (48..57) \cup (97..102) /\ GetVal(GetDigit(b), 16) = b
    BY DigitRead
  <2>5. (48..57) \cup (97..102) \subseteq Plain
    BY DEF Plain, Chars, Dollar, Hash
  <2>6. DecHex(GetDigit(a), GetDigit(b)) = v
    BY <2>1, <2>4 DEF DecHex
  <2> HIDE DEF digit
  <2>7. GetDigit(a) \in Plain /\ GetDigit(b) \in Plain
    BY Zenon, <2>4, <2>5
  <2>8. digit(2 * k - 1) \in Plain /\ digit(2 * k) \in Plain
    BY Zenon, <2>3, <2>7
  <2>9. DecHex(digit(2 * k - 1), digit(2 * k)) = bytes[k]
    BY Zenon, <2>0, <2>3, <2>6
  <2> QED
    BY Zenon, <2>2, <2>8, <2>9
<1> HIDE DEF digit
<1>4. \A i \in 1..(2 * n) : digit(i) \in Plain
  <2> SUFFICES ASSUME NEW i \in 1..(2 * n) PROVE digit(i) \in Plain
    OBVIOUS
  <2>1. \E k \in 1..n : i = 2 * k - 1 \/ i = 2 * k
    <3>1. (i + 1) \div 2 \in 1..n /\ (i = 2 * ((i + 1) \div 2) - 1 \/ i = 2 * ((i + 1) \div 2))
      OBVIOUS
    <3> QED
      BY <3>1
  <2> QED
    BY <1>3, <2>1
<1>5. h \in [1..(2 * n) -> Plain]
  BY <1>2, <1>4
<1>6. h \in Seq(Plain) /\ Len(h) = 2 * n
  BY <1>5
<1>7. \A k \in 1..n : DecHex(h[2 * k - 1], h[2 * k]) = bytes[k]
  BY <1>2, <1>3
<1> QED
  BY <1>6, <1>7, <1>h

\* The checksum is a byte.
LEMMA ChecksumByte ==
  ASSUME NEW t \in Seq(Plain)
  PROVE  Checksum(t) \in Bytes
<1>1. t \in Seq(Chars) /\ Len(t) \in Nat
  BY DEF Plain
<1> QED
  BY <1>1, ChecksumIs

\* A packet is on the way as it is framed.
LEMMA FramedIs ==
  ASSUME NEW t \in Seq(Plain)
  PROVE  /\ Framed(t) \in Seq(Chars) /\ OnTheWay(Framed(t), t) /\ Body(Framed(t)) = t
<1>1. PICK x, z, e : x = <<Dollar>> /\ z = <<Hash>> /\ e = EncHex(<<Checksum(t)>>)
  OBVIOUS
<1>n. PICK n \in Nat : n = Len(t)
  <2>1. Len(t) \in Nat
    OBVIOUS
  <2> QED
    BY <2>1
<1>2. /\ x \in Seq(Chars) /\ Len(x) = 1 /\ x[1] = Dollar
      /\ z \in Seq(Chars) /\ Len(z) = 1 /\ z[1] = Hash
  BY <1>1 DEF Chars, Dollar, Hash
<1>t. t \in Seq(Chars)
  BY DEF Plain
<1>3. /\ e \in Seq(Plain) /\ Len(e) = 2 /\ DecHex(e[1], e[2]) = Checksum(t)
  <2>1. PICK s : s = Checksum(t)
    OBVIOUS
  <2>2. PICK q : q = <<s>>
    OBVIOUS
  <2>3. q \in Seq(Bytes) /\ Len(q) = 1 /\ q[1] = s
    BY <2>1, <2>2, ChecksumByte
  <2>4. e = EncHex(q)
    BY <1>1, <2>1, <2>2
  <2>5. e \in Seq(Plain) /\ Len(e) = 2 * 1 /\ \A k \in 1..1 : DecHex(e[2 * k - 1], e[2 * k]) = q[k]
    BY <2>3, <2>4, EncHexIs
  <2>6. DecHex(e[2 * 1 - 1], e[2 * 1]) = q[1]
    BY <2>5
  <2>7. 2 * 1 - 1 = 1 /\ 2 * 1 = 2
    OBVIOUS
  <2> QED
    BY <2>1, <2>3, <2>5, <2>6, <2>7
<1>e. e \in Seq(Chars)
  BY <1>3 DEF Plain
<1>4. PICK u : u = x \o t \o z
  OBVIOUS
<1>5. /\ u \in Seq(Chars) /\ Len(u) = n + 2 /\ u[1] = Dollar /\ u[n + 2] = Hash
      /\ \A i \in 1..n : u[i + 1] = t[i]
  <2>1. /\ u \in Seq(Chars) /\ Len(u) = Len(x) + Len(t) + Len(z)
        /\ \A i \in 1..Len(x) : u[i] = x[i]
        /\ \A i \in 1..Len(t) : u[Len(x) + i] = t[i]
        /\ \A i \in 1..Len(z) : u[Len(x) + Len(t) + i] = z[i]
    <3>1. x \in Seq(Chars) /\ z \in Seq(Chars)
      BY <1>2
    <3>2. u \in Seq(Chars)
      BY <1>4, <1>t, <3>1
    <3>3. /\ Len(u) = Len(x) + Len(t) + Len(z)
          /\ \A i \in 1..Len(x) : u[i] = x[i]
          /\ \A i \in 1..Len(t) : u[Len(x) + i] = t[i]
          /\ \A i \in 1..Len(z) : u[Len(x) + Len(t) + i] = z[i]
      BY <1>4, <1>t, <3>1, ThreeInARow
    <3> QED
      BY <3>2, <3>3
  <2>2. Len(u) = 1 + n + 1 /\ u[1] = x[1] /\ u[1 + n + 1] = z[1] /\ \A i \in 1..n : u[1 + i] = t[i]
    BY <1>2, <1>n, <2>1
  <2>3. 1 + n + 1 = n + 2 /\ \A i \in 1..n : 1 + i = i + 1
    OBVIOUS
  <2> QED
    BY <1>2, <2>1, <2>2, <2>3
<1>6. PICK w : w = Framed(t)
  OBVIOUS
<1>7. w = u \o e
  BY <1>1, <1>4, <1>6 DEF Framed
<1>8. /\ w \in Seq(Chars) /\ Len(w) = n + 4
      /\ \A i \in 1..(n + 2) : w[i] = u[i]
      /\ w[n + 3] = e[1] /\ w[n + 4] = e[2]
  <2>1. /\ w \in Seq(Chars) /\ Len(w) = Len(u) + Len(e)
        /\ \A i \in 1..Len(u) : w[i] = u[i]
        /\ \A i \in 1..Len(e) : w[Len(u) + i] = e[i]
    <3>1. u \in Seq(Chars)
      BY <1>5
    <3> QED
      BY <1>7, <1>e, <3>1
  <2>2. w[n + 2 + 1] = e[1] /\ w[n + 2 + 2] = e[2] /\ Len(w) = n + 2 + 2
    BY <1>3, <1>5, <2>1
  <2>3. n + 2 + 1 = n + 3 /\ n + 2 + 2 = n + 4
    OBVIOUS
  <2> QED
    BY <1>5, <2>1, <2>2, <2>3
<1>9. /\ w[1] = Dollar /\ w[n + 2] = Hash /\ \A i \in 1..n : w[i + 1] = t[i]
  <2>1. 1 \in 1..(n + 2) /\ n + 2 \in 1..(n + 2) /\ \A i \in 1..n : i + 1 \in 1..(n + 2)
    OBVIOUS
  <2> QED
    BY <1>5, <1>8, <2>1
<1>10. \A i \in 2..(n + 1) : w[i] \in Plain
  <2> SUFFICES ASSUME NEW i \in 2..(n + 1) PROVE w[i] \in Plain
    OBVIOUS
  <2>1. i - 1 \in 1..n /\ (i - 1) + 1 = i
    OBVIOUS
  <2>2. t[i - 1] \in Plain
    BY <1>n, <2>1
  <2> QED
    BY <1>9, <2>1, <2>2
<1>11. SubSeq(w, 2, n + 1) = t
  <2>1. PICK d : d = SubSeq(w, 2, n + 1)
    OBVIOUS
  <2>2. d \in Seq(Chars) /\ Len(d) = n /\ \A i \in 1..n : d[i] = w[i + 1]
    <3>1. \A i \in 2..(n + 1) : w[i] \in Chars
      BY <1>10 DEF Plain
    <3>2. d = [i \in 1..n |-> w[i + 1]]
      BY <1>8, <2>1
    <3>3. \A i \in 1..n : w[i + 1] \in Chars
      BY <3>1
    <3>4. d \in [1..n -> Chars]
      BY <3>2, <3>3
    <3> QED
      BY <3>2, <3>4
  <2>3. \A i \in 1..n : d[i] = t[i]
    BY <1>9, <2>2
  <2>4. d = t
    BY <1>n, <1>t, <2>2, <2>3
  <2> QED
    BY <2>1, <2>4
<1>12. OnTheWay(w, t)
  <2>1. e[1] \in Plain /\ e[2] \in Plain
    <3>1. e \in Seq(Plain) /\ Len(e) = 2
      BY <1>3
    <3>2. \A i \in 1..Len(e) : e[i] \in Plain
      BY <3>1, ElementsIn
    <3>3. 1 \in 1..2 /\ 2 \in 1..2
      OBVIOUS
    <3> QED
      BY Zenon, <3>1, <3>2, <3>3
  <2>2. Len(w) = n + 4 /\ w[n + 3] \in Plain /\ w[n + 4] \in Plain
        /\ DecHex(w[n + 3], w[n + 4]) = Checksum(t)
    BY <1>3, <1>8, <2>1
  <2> QED
    BY <1>9, <1>10, <1>11, <1>n, <2>2 DEF OnTheWay
<1>13. Body(w) = t
  <2>1. Len(w) - 3 = n + 1
    BY <1>8
  <2> QED
    BY <1>11, <2>1 DEF Body
<1> QED
  BY <1>6, <1>8, <1>12, <1>13

\* A damaged packet has the checksum of what GDB sent, which is not that of
\* the damaged text.
LEMMA DamagedIs ==
  ASSUME NEW t \in Seq(Plain), NEW place \in 1..Len(t)
  PROVE  LET w == [Framed(t) EXCEPT ![place + 1] = 55]
         IN  w \in Seq(Chars) /\ OnTheWay(w, t)
<1>a. PICK n \in Nat : n = Len(t)
  <2>1. Len(t) \in Nat
    OBVIOUS
  <2> QED
    BY <2>1
<1>b. PICK p \in 1..n : p = place
  BY <1>a
<1>c. PICK f : f = Framed(t)
  OBVIOUS
<1>n. n = Len(t) /\ f = Framed(t) /\ p = place
  BY <1>a, <1>b, <1>c
<1>p. p \in 1..n
  OBVIOUS
<1>1. /\ f \in Seq(Chars) /\ Len(f) = n + 4 /\ f[1] = Dollar /\ f[n + 2] = Hash
      /\ \A i \in 2..(n + 1) : f[i] \in Plain
      /\ f[n + 3] \in Plain /\ f[n + 4] \in Plain
      /\ DecHex(f[n + 3], f[n + 4]) = Checksum(t)
  BY <1>n, FramedIs DEF OnTheWay
<1>2. \A i \in 1..n : f[i + 1] = t[i]
  <2>1. SubSeq(f, 2, n + 1) = t
    <3>1. Body(f) = t /\ Len(f) - 3 = n + 1
      BY <1>1, <1>n, FramedIs
    <3> QED
      BY <3>1 DEF Body
  <2>2. \A i \in 1..n : SubSeq(f, 2, n + 1)[i] = f[i + 1]
    BY <1>1
  <2> QED
    BY <2>1, <2>2
<1>w. PICK w : w = [f EXCEPT ![p + 1] = 55]
  OBVIOUS
<1>55. 55 \in Plain /\ 55 \in Chars
  BY DEF Plain, Chars, Dollar, Hash
<1>3. /\ w \in Seq(Chars) /\ Len(w) = n + 4 /\ w[p + 1] = 55
      /\ \A i \in 1..(n + 4) : i # p + 1 => w[i] = f[i]
  <2>1. p + 1 \in 1..(n + 4)
    BY <1>p
  <2> QED
    BY <1>1, <1>55, <1>w, <2>1
<1>4. /\ w[1] = Dollar /\ w[n + 2] = Hash
      /\ \A i \in 2..(n + 1) : w[i] \in Plain
      /\ w[n + 3] = f[n + 3] /\ w[n + 4] = f[n + 4]
  <2>1. /\ 1 \in 1..(n + 4) /\ 1 # p + 1 /\ n + 2 \in 1..(n + 4) /\ n + 2 # p + 1
        /\ n + 3 \in 1..(n + 4) /\ n + 3 # p + 1 /\ n + 4 \in 1..(n + 4) /\ n + 4 # p + 1
    BY <1>p
  <2>2. \A i \in 2..(n + 1) : w[i] \in Plain
    <3> SUFFICES ASSUME NEW i \in 2..(n + 1) PROVE w[i] \in Plain
      OBVIOUS
    <3>1. i \in 1..(n + 4)
      OBVIOUS
    <3> QED
      BY <1>1, <1>3, <1>55, <3>1
  <2> QED
    BY <1>1, <1>3, <2>1, <2>2
<1>5. PICK d : d = [t EXCEPT ![p] = 55]
  OBVIOUS
<1>t. t \in Seq(Chars)
  BY DEF Plain
<1>6. d \in Seq(Chars) /\ Len(d) = n /\ d[p] = 55 /\ \A i \in 1..n : i # p => d[i] = t[i]
  BY <1>5, <1>55, <1>n, <1>p, <1>t
<1>7. SubSeq(w, 2, n + 1) = d
  <2>1. PICK q : q = SubSeq(w, 2, n + 1)
    OBVIOUS
  <2>2. q = [i \in 1..n |-> w[i + 1]]
    BY <1>3, <2>1
  <2>3. ASSUME NEW i \in 1..n PROVE w[i + 1] = d[i]
    <3>1. i + 1 \in 1..(n + 4) /\ (i + 1 = p + 1 <=> i = p)
      BY <1>p
    <3> QED
      BY <1>2, <1>3, <1>6, <3>1
  <2>4. d = [i \in 1..n |-> d[i]]
    BY <1>6
  <2>5. q = d
    BY <2>2, <2>3, <2>4
  <2> QED
    BY <2>1, <2>5
<1>8. d = t \/ Checksum(d) # Checksum(t)
  <2>1. CASE t[p] = 55
    <3>1. d = t
      BY <1>5, <1>6, <1>n, <1>t, <2>1
    <3> QED
      BY <3>1
  <2>2. CASE t[p] # 55
    BY <1>5, <1>55, <1>n, <1>p, <1>t, <2>2, ChecksumDiffers
  <2> QED
    BY <2>1, <2>2
<1>9. OnTheWay(w, t)
  BY <1>1, <1>3, <1>4, <1>7, <1>8, <1>n DEF OnTheWay
<1> QED
  BY <1>3, <1>9, <1>n, <1>w

\* What the stub finds in the packet.
LEMMA PartsOf ==
  ASSUME NEW t \in Seq(Plain), input \in Seq(Chars), OnTheWay(input, t)
  PROVE  /\ input # <<>> /\ Head(input) = Dollar
         /\ Data \in Seq(Plain) /\ Len(Data) = Len(t)
         /\ Data = t \/ Checksum(Data) # Checksum(t)
         /\ DecHex(Digits[1], Digits[2]) = Checksum(t)
         /\ Rest = <<>>
<1>n. PICK n, w : n \in Nat /\ n = Len(t) /\ w = input
  <2>1. Len(t) \in Nat
    OBVIOUS
  <2> QED
    BY <2>1
<1> n \in Nat
  BY <1>n
<1>1. /\ w \in Seq(Chars) /\ Len(w) = n + 4 /\ w[1] = Dollar /\ w[n + 2] = Hash
      /\ \A i \in 2..(n + 1) : w[i] \in Plain
      /\ DecHex(w[n + 3], w[n + 4]) = Checksum(t)
      /\ SubSeq(w, 2, n + 1) = t \/ Checksum(SubSeq(w, 2, n + 1)) # Checksum(t)
  BY <1>n DEF OnTheWay
<1>2. Before(w, Hash) = n + 1
  <2> DEFINE I == {i \in 1..Len(w) : w[i] = Hash}
  <2>1. n + 2 \in I
    BY <1>1
  <2>2. \A i \in I : n + 2 <= i
    <3> SUFFICES ASSUME NEW i \in I, i < n + 2 PROVE FALSE
      BY <1>1
    <3>1. CASE i = 1
      BY <1>1, <3>1 DEF Dollar, Hash
    <3>2. CASE i \in 2..(n + 1)
      BY <1>1, <3>2 DEF Plain
    <3> QED
      BY <3>1, <3>2
  <2>3. PICK c : c = CHOOSE x \in I : \A y \in I : x <= y
    OBVIOUS
  <2>4. c \in I /\ \A y \in I : c <= y
    BY <2>1, <2>2, <2>3
  <2>5. c = n + 2
    BY <1>1, <2>1, <2>2, <2>4
  <2>6. SelectInSeq(w, LAMBDA x : x = Hash) = c
    BY <2>1, <2>3 DEF SelectInSeq, Min
  <2>7. Hash \in ToSet(w)
    <3>1. n + 2 \in DOMAIN w
      BY <1>1
    <3> QED
      BY <1>1, <3>1 DEF ToSet
  <2> QED
    BY <2>5, <2>6, <2>7 DEF Before
<1>3. Data = SubSeq(w, 2, n + 1) /\ Digits = SubSeq(w, n + 3, n + 4) /\ Rest = SubSeq(w, n + 5, Len(w))
  <2>1. n + 1 + 2 = n + 3 /\ n + 1 + 3 = n + 4 /\ n + 1 + 4 = n + 5
    OBVIOUS
  <2> QED
    BY <1>2, <1>n, <2>1 DEF Data, Digits, Rest
<1>4. Data \in Seq(Plain) /\ Len(Data) = n
  <2>1. SubSeq(w, 2, n + 1) = [i \in 1..n |-> w[i + 1]]
    BY <1>1
  <2>2. \A i \in 1..n : w[i + 1] \in Plain
    <3>1. \A i \in 1..n : i + 1 \in 2..(n + 1)
      OBVIOUS
    <3> QED
      BY <1>1, <3>1
  <2>3. PICK q : q = SubSeq(w, 2, n + 1)
    OBVIOUS
  <2>4. q \in [1..n -> Plain]
    BY <2>1, <2>2, <2>3
  <2>5. q \in Seq(Plain) /\ Len(q) = n
    BY <2>4
  <2> QED
    BY <1>3, <2>3, <2>5
<1>5. Digits[1] = w[n + 3] /\ Digits[2] = w[n + 4]
  <2>1. PICK q : q = SubSeq(w, n + 3, n + 4)
    OBVIOUS
  <2>2. q = [i \in 1..2 |-> w[n + 3 + i - 1]]
    BY <1>1, <2>1
  <2>3. q[1] = w[n + 3] /\ q[2] = w[n + 4]
    BY <2>2
  <2> QED
    BY <1>3, <2>1, <2>3
<1>6. Rest = <<>>
  BY <1>1, <1>3
<1>7. w # <<>> /\ Head(w) = Dollar
  BY <1>1
<1> QED
  BY <1>1, <1>3, <1>4, <1>5, <1>6, <1>7, <1>n
------------------------------------------------------------------------------
(* Replies. *)

\* What is written over the buffer can be read there.
LEMMA OverwriteIs ==
  ASSUME NEW b \in [0..(BufLen - 1) -> Chars], NEW text \in Seq(Plain)
  PROVE  /\ Overwrite(b, text) \in [0..(BufLen - 1) -> Chars]
         /\ Len(text) <= BufLen => Holds(Overwrite(b, text), text)
<1>n. PICK n \in Nat : n = Len(text)
  <2>1. Len(text) \in Nat
    OBVIOUS
  <2> QED
    BY <2>1
<1>B. PICK B \in Nat : B = BufLen
  BY BufferAssumption
<1>1. \A i \in 1..n : text[i] \in Chars
  <2>1. \A i \in 1..n : text[i] \in Plain
    BY <1>n, ElementsIn
  <2> QED
    BY <2>1 DEF Plain
<1>2. PICK o : o = Overwrite(b, text)
  OBVIOUS
<1>3. o = [i \in 0..(B - 1) |-> IF i < n THEN text[i + 1] ELSE b[i]]
  BY <1>2, <1>B, <1>n DEF Overwrite
<1>4. o \in [0..(B - 1) -> Chars]
  <2> SUFFICES ASSUME NEW i \in 0..(B - 1)
               PROVE  (IF i < n THEN text[i + 1] ELSE b[i]) \in Chars
    BY <1>3
  <2>1. CASE i < n
    <3>1. i + 1 \in 1..n
      BY <2>1
    <3> QED
      BY <1>1, <2>1, <3>1
  <2>2. CASE ~(i < n)
    BY <1>B, <2>2
  <2> QED
    BY <2>1, <2>2
<1>5. ASSUME n <= B PROVE \A i \in 1..n : o[i - 1] = text[i]
  <2> SUFFICES ASSUME NEW i \in 1..n PROVE o[i - 1] = text[i]
    OBVIOUS
  <2>1. i - 1 \in 0..(B - 1) /\ i - 1 < n /\ (i - 1) + 1 = i
    BY <1>5
  <2> QED
    BY <1>3, <2>1
<1> QED
  BY <1>2, <1>4, <1>5, <1>B, <1>n DEF Holds

\* The replies that are always the same.
LEMMA FixedReplies ==
  /\ Signal \in Seq(Plain) /\ Error0 \in Seq(Plain) /\ Error1 \in Seq(Plain)
  /\ <<79, 75>> \in Seq(Plain) /\ <<>> \in Seq(Plain)
<1>1. {83, 48, 53, 69, 49, 79, 75} \subseteq Plain
  BY DEF Plain, Chars, Dollar, Hash
<1> QED
  BY <1>1 DEF Signal, Error0, Error1

\* dbg_mem_read sends the bytes at the addresses, as many as asked for.
LEMMA MemReadIs ==
  ASSUME NEW addr \in Bytes, NEW len \in Bytes
  PROVE  /\ MemRead(addr, len) \in Seq(Plain)
         /\ IF len <= DataLen
            THEN BytesOf(MemRead(addr, len)) = [k \in 1..len |-> Memory[(addr + k - 1) % 2^WordBits]]
            ELSE MemRead(addr, len) = Error0
<1>a. addr \in Nat /\ len \in Nat
  BY DEF Bytes
<1>d. DataLen \in Nat /\ BufLen \in Nat /\ 2 * DataLen <= BufLen
  BY BufferAssumption
<1>1. CASE len <= DataLen
  <2>1. ~(len > DataLen) /\ ~(2 * len > BufLen)
    BY <1>1, <1>a, <1>d
  <2>2. PICK q : q = [k \in 1..len |-> Memory[(addr + k - 1) % 2^WordBits]]
    OBVIOUS
  <2>3. MemRead(addr, len) = EncHex(q)
    BY <2>1, <2>2 DEF MemRead
  <2>4. \A k \in 1..len : Memory[(addr + k - 1) % 2^WordBits] \in Bytes
    <3>1. PICK W \in Nat : W = 2^WordBits /\ W > 255
      BY BufferAssumption
    <3>2. Memory \in [0..(W - 1) -> Bytes]
      BY <3>1, ContentsAssumption DEF Bytes
    <3>3. \A x \in Nat : x % W \in 0..(W - 1)
      BY <3>1
    <3>4. \A k \in 1..len : addr + k - 1 \in Nat
      BY <1>a
    <3> QED
      BY <3>1, <3>2, <3>3, <3>4
  <2>5. q \in [1..len -> Bytes]
    BY <2>2, <2>4
  <2>6. q \in Seq(Bytes) /\ Len(q) = len /\ q = [k \in 1..len |-> q[k]]
    BY <1>a, <2>5
  <2>7. PICK h : h = EncHex(q)
    OBVIOUS
  <2>8. h \in Seq(Plain) /\ Len(h) = 2 * len /\ \A k \in 1..len : DecHex(h[2 * k - 1], h[2 * k]) = q[k]
    BY <2>6, <2>7, EncHexIs
  <2>9. Len(h) \div 2 = len
    BY <1>a, <2>8
  <2>10. BytesOf(h) = [k \in 1..len |-> DecHex(h[2 * k - 1], h[2 * k])]
    BY <2>9 DEF BytesOf
  <2>11. BytesOf(h) = q
    BY <2>6, <2>8, <2>10
  <2> QED
    BY <1>1, <2>2, <2>3, <2>7, <2>8, <2>11
<1>2. CASE ~(len <= DataLen)
  <2>1. len > DataLen
    BY <1>2, <1>a, <1>d
  <2>2. MemRead(addr, len) = Error0
    BY <2>1 DEF MemRead
  <2> QED
    BY <1>2, <2>2, FixedReplies
<1> QED
  BY <1>1, <1>2

\* The reply to a command.
LEMMA ReplyIs ==
  ASSUME NEW c \in Commands, NEW p, p.ok, p.letter = c.letter, p.args = c.args
  PROVE  /\ ReplyTo(p) \in Seq(Plain)
         /\ c.letter = 109 => Answers(c, Framed(ReplyTo(p)))
<1>l. PICK l, r : l = c.letter /\ r = ReplyTo(p)
  OBVIOUS
<1>1. r = CASE l = 109       -> MemRead(p.args[1], p.args[2])
            [] l \in {77, 88} -> Error1
            [] l = 112       -> RegisterRead(p.args[1])
            [] l = 63        -> Signal
            [] l \in {90, 122} -> <<79, 75>>
            [] OTHER         -> <<>>
  BY <1>l DEF ReplyTo
<1>2. CASE l = 109
  <2>1. Format(109) = <<Integer, Comma, Integer>>
    BY DEF Format
  <2>2. Len(c.args) = 2
    <3>1. Len(Format(109)) = 3
      BY <2>1
    <3>2. Len(c.args) = (Len(Format(109)) + 1) \div 2
      BY <1>2, <1>l, CommandIs
    <3>3. (3 + 1) \div 2 = 2
      OBVIOUS
    <3> QED
      BY Zenon, <3>1, <3>2, <3>3
  <2>3. PICK addr \in Bytes, len \in Bytes : addr = c.args[1] /\ len = c.args[2]
    <3>1. c.args \in Seq(Bytes)
      BY CommandIs
    <3>2. \A i \in 1..Len(c.args) : c.args[i] \in Bytes
      BY <3>1, ElementsIn
    <3>3. 1 \in 1..2 /\ 2 \in 1..2
      OBVIOUS
    <3> QED
      BY <2>2, <3>2, <3>3
  <2>4. r = MemRead(addr, len)
    BY <1>1, <1>2, <2>3
  <2>5. /\ r \in Seq(Plain)
        /\ IF len <= DataLen
           THEN BytesOf(r) = [k \in 1..len |-> Memory[(addr + k - 1) % 2^WordBits]]
           ELSE r = Error0
    BY <2>4, MemReadIs
  <2>6. Body(Framed(r)) = r
    BY <2>5, FramedIs
  <2>7. Answers(c, Framed(r))
    BY <2>3, <2>5, <2>6 DEF Answers
  <2> QED
    BY <1>l, <2>5, <2>7
<1>3. CASE l = 112
  <2>1. PICK n : n = p.args[1]
    OBVIOUS
  <2>2. r = RegisterRead(n)
    BY <1>1, <1>3, <2>1
  <2>3. CASE n \in DOMAIN Registers
    <3>1. Registers[n] \in Seq(Bytes)
      BY <2>3, ContentsAssumption DEF Bytes
    <3>2. r = EncHex(Registers[n])
      BY <2>2, <2>3 DEF RegisterRead
    <3> QED
      BY <1>3, <1>l, <3>1, <3>2, EncHexIs
  <2>4. CASE n \notin DOMAIN Registers
    <3>1. r = Error0
      BY <2>2, <2>4 DEF RegisterRead
    <3> QED
      BY <1>3, <1>l, <3>1, FixedReplies
  <2> QED
    BY <2>3, <2>4
<1>4. CASE l \notin {109, 112}
  <2>1. r \in {Error1, Signal, <<79, 75>>, <<>>}
    BY <1>1, <1>4
  <2> QED
    BY <1>4, <1>l, <2>1, FixedReplies
<1> QED
  BY <1>2, <1>3, <1>4
------------------------------------------------------------------------------
(* The commands that fit. *)

\* One command more.
LEMMA FittingIs ==
  ASSUME NEW n \in Nat
  PROVE  /\ IsFiniteSet(Fitting(n)) /\ Fitting(n) \subseteq 1..n
         /\ \A k \in 0..n : Fitting(k) \subseteq Fitting(n)
         /\ \A k \in Fitting(n) : Cardinality(Fitting(k)) \in 1..Cardinality(Fitting(n))
         /\ Len(sent[n + 1].text) <= BufLen =>
               /\ Fitting(n + 1) = Fitting(n) \cup {n + 1}
               /\ Cardinality(Fitting(n + 1)) = Cardinality(Fitting(n)) + 1
         /\ ~(Len(sent[n + 1].text) <= BufLen) => Fitting(n + 1) = Fitting(n)
<1>1. \A m \in Nat : Fitting(m) \subseteq 1..m /\ IsFiniteSet(Fitting(m)) /\ Cardinality(Fitting(m)) \in Nat
  <2> SUFFICES ASSUME NEW m \in Nat
               PROVE  Fitting(m) \subseteq 1..m /\ IsFiniteSet(Fitting(m)) /\ Cardinality(Fitting(m)) \in Nat
    OBVIOUS
  <2>1. Fitting(m) \subseteq 1..m
    BY DEF Fitting
  <2>2. IsFiniteSet(1..m)
    BY FS_Interval
  <2>3. IsFiniteSet(Fitting(m))
    BY <2>1, <2>2, FS_Subset
  <2> QED
    BY <2>1, <2>3, FS_CardinalityType
<1>2. \A k \in 0..n : Fitting(k) \subseteq Fitting(n)
  BY DEF Fitting
<1>3. ASSUME NEW k \in Fitting(n)
      PROVE  Cardinality(Fitting(k)) \in 1..Cardinality(Fitting(n))
  <2>1. k \in 1..n /\ k \in Fitting(k)
    BY DEF Fitting
  <2>2. k \in 0..n /\ k \in Nat
    BY <2>1
  <2>3. Cardinality(Fitting(k)) # 0
    BY <1>1, <2>1, <2>2, FS_EmptySet
  <2>4. Cardinality(Fitting(k)) <= Cardinality(Fitting(n))
    BY <1>1, <1>2, <2>2, FS_Subset
  <2>5. Cardinality(Fitting(k)) \in Nat /\ Cardinality(Fitting(n)) \in Nat
    BY <1>1, <2>2
  <2> QED
    BY <2>3, <2>4, <2>5
<1>4. ASSUME Len(sent[n + 1].text) <= BufLen
      PROVE  /\ Fitting(n + 1) = Fitting(n) \cup {n + 1}
             /\ Cardinality(Fitting(n + 1)) = Cardinality(Fitting(n)) + 1
  <2>1. Fitting(n + 1) = Fitting(n) \cup {n + 1}
    BY <1>4 DEF Fitting
  <2>2. n + 1 \notin Fitting(n)
    BY DEF Fitting
  <2> QED
    BY <1>1, <2>1, <2>2, FS_AddElement
<1>5. ~(Len(sent[n + 1].text) <= BufLen) => Fitting(n + 1) = Fitting(n)
  BY DEF Fitting
<1> QED
  BY <1>1, <1>2, <1>3, <1>4, <1>5

\* The commands sent before do not change.
LEMMA SentStays ==
  ASSUME NEW n \in Nat, \A k \in 1..n : sent'[k] = sent[k], taken' = taken
  PROVE  UnderstoodUpTo(n) => UnderstoodUpTo(n)'
<1>1. \A m \in 0..n : Fitting(m)' = Fitting(m)
  BY DEF Fitting
<1>2. Fitting(n)' = Fitting(n)
  BY <1>1
<1>3. \A k \in Fitting(n) : k \in 1..n /\ Fitting(k)' = Fitting(k)
  <2>1. \A k \in Fitting(n) : k \in 1..n /\ k \in 0..n
    BY FittingIs
  <2> QED
    BY <1>1, <2>1
<1> QED
  BY <1>2, <1>3 DEF UnderstoodUpTo

\* What GDB has sent.
LEMMA SentIs ==
  ASSUME sent \in Seq(Sent), NEW k \in 1..Len(sent)
  PROVE  \E c \in Commands :
            /\ sent[k].letter = c.letter /\ sent[k].args = c.args /\ sent[k].text = Text(c)
            /\ Text(c) \in Seq(Plain)
<1>1. sent[k] \in Sent
  OBVIOUS
<1>2. PICK c \in Commands : sent[k] = [letter |-> c.letter, args |-> c.args, text |-> Text(c)]
  BY <1>1 DEF Sent
<1>3. Text(c) \in Seq(Plain)
  BY TextLaid
<1> QED
  BY <1>2, <1>3

------------------------------------------------------------------------------
(* Steps. *)

\* A packet on the way begins with its start.
LEMMA PendingStarts ==
  ASSUME PacketInv, Pending
  PROVE  /\ input # <<>> /\ Head(input) = Dollar
         /\ \E c \in Commands :
              /\ sent[Len(sent)].letter = c.letter /\ sent[Len(sent)].args = c.args
              /\ sent[Len(sent)].text = Text(c) /\ Text(c) \in Seq(Plain)
              /\ Data \in Seq(Plain) /\ Len(Data) = Len(Text(c))
              /\ Data = Text(c) \/ Checksum(Data) # Checksum(Text(c))
              /\ DecHex(Digits[1], Digits[2]) = Checksum(Text(c))
              /\ Rest = <<>>
<1>1. sent \in Seq(Sent) /\ sent # <<>> /\ input \in Seq(Chars) /\ OnTheWay(input, sent[Len(sent)].text)
  BY DEF PacketInv, Pending
<1>2. Len(sent) \in 1..Len(sent)
  BY <1>1
<1>3. PICK c \in Commands :
         /\ sent[Len(sent)].letter = c.letter /\ sent[Len(sent)].args = c.args
         /\ sent[Len(sent)].text = Text(c)
         /\ Text(c) \in Seq(Plain)
  BY <1>1, <1>2, SentIs
<1>4. OnTheWay(input, Text(c))
  BY <1>1, <1>3
<1> HIDE DEF Data, Digits, Rest
<1> QED
  BY <1>1, <1>3, <1>4, PartsOf

LEMMA SignalStep ==
  ASSUME PacketInv, SendSignal
  PROVE  PacketInv'
<1>1. /\ stub = "signal" /\ stub' = "ack" /\ input' = Append(input, Plus)
      /\ buf' = Overwrite(buf, Signal) /\ sent' = sent /\ taken' = taken
  BY DEF SendSignal
<1>2. /\ buf \in [0..(BufLen - 1) -> Chars] /\ input \in Seq(Chars) /\ sent \in Seq(Sent)
      /\ taken \in Seq(Taken) /\ (Quiet \/ Doomed)
  BY <1>1 DEF PacketInv, Pending
<1>3. buf' \in [0..(BufLen - 1) -> Chars]
  BY <1>1, <1>2, OverwriteIs, FixedReplies
<1>p. Plus \in Chars /\ Plus # Dollar
  BY DEF Plus, Chars, Dollar
<1>4. /\ input' \in Seq(Chars) /\ Len(input') = Len(input) + 1
      /\ \A i \in 1..Len(input) : input'[i] = input[i]
      /\ input'[Len(input) + 1] = Plus
  BY <1>1, <1>2, <1>p
<1>5. CASE Quiet
  <2>1. \A i \in 1..Len(input') : input'[i] # Dollar
    <3>1. Len(input) \in Nat
      BY <1>2
    <3>2. \A i \in 1..Len(input') : i \in 1..Len(input) \/ i = Len(input) + 1
      BY <1>4, <3>1
    <3> QED
      BY <1>4, <1>5, <1>p, <3>2 DEF Quiet
  <2>2. UnderstoodUpTo(Len(sent))'
    <3>1. Len(sent) \in Nat
      BY <1>2
    <3>2. UnderstoodUpTo(Len(sent))
      BY <1>5 DEF Quiet
    <3>3. \A k \in 1..Len(sent) : sent'[k] = sent[k]
      BY <1>1
    <3>4. Fitting(Len(sent))' = Fitting(Len(sent)) /\ \A k : Fitting(k)' = Fitting(k)
      BY <1>1 DEF Fitting
    <3> QED
      BY <1>1, <3>2, <3>4 DEF UnderstoodUpTo
  <2>3. sent' # <<>> => sent'[Len(sent')].letter # 109
    BY <1>1, <1>5 DEF Quiet
  <2>4. Quiet'
    BY <1>1, <2>1, <2>2, <2>3 DEF Quiet
  <2> QED
    BY <1>1, <1>2, <1>3, <1>4, <2>4 DEF PacketInv
<1>6. CASE Doomed
  <2>1. 1 \in 1..Len(input) /\ input[1] = Dollar
    BY <1>2, <1>6 DEF Doomed
  <2>2. input'[1] = Dollar /\ input' # <<>>
    BY <1>2, <1>4, <2>1
  <2>3. Doomed'
    BY <1>1, <2>2 DEF Doomed
  <2> QED
    BY <1>1, <1>2, <1>3, <1>4, <2>3 DEF PacketInv
<1> QED
  BY <1>2, <1>5, <1>6

LEMMA AckStep ==
  ASSUME PacketInv, ReceiveAck
  PROVE  PacketInv'
<1>1. /\ stub = "ack" /\ input # <<>> /\ input' = Tail(input)
      /\ stub' = (IF Head(input) \in {Plus, Minus} THEN "receive" ELSE "exited")
      /\ buf' = buf /\ sent' = sent /\ taken' = taken /\ reply' = reply
  BY DEF ReceiveAck
<1>2. /\ buf \in [0..(BufLen - 1) -> Chars] /\ input \in Seq(Chars) /\ sent \in Seq(Sent)
      /\ taken \in Seq(Taken) /\ (Quiet \/ Doomed)
  BY <1>1 DEF PacketInv, Pending
<1>3. /\ input' \in Seq(Chars) /\ Head(input) = input[1]
      /\ \A i \in 1..Len(input') : i + 1 \in 1..Len(input) /\ input'[i] = input[i + 1]
  BY <1>1, <1>2
<1>4. stub' \in {"receive", "exited"}
  BY <1>1
<1>5. CASE Quiet
  <2>1. \A i \in 1..Len(input') : input'[i] # Dollar
    BY <1>3, <1>5 DEF Quiet
  <2>2. UnderstoodUpTo(Len(sent))'
    <3>1. UnderstoodUpTo(Len(sent))
      BY <1>5 DEF Quiet
    <3>2. \A k : Fitting(k)' = Fitting(k)
      BY <1>1 DEF Fitting
    <3> QED
      BY <1>1, <3>1, <3>2 DEF UnderstoodUpTo
  <2>3. sent' # <<>> /\ sent'[Len(sent')].letter = 109 => Answers(sent'[Len(sent')], reply')
    BY <1>1, <1>5 DEF Quiet
  <2>4. Quiet'
    BY <1>1, <1>4, <2>1, <2>2, <2>3 DEF Quiet
  <2> QED
    BY <1>1, <1>2, <1>3, <1>4, <2>4 DEF PacketInv
<1>6. CASE Doomed
  <2>1. stub' = "exited"
    BY <1>1, <1>3, <1>6 DEF Doomed, Dollar, Plus, Minus
  <2> QED
    BY <1>1, <1>2, <1>3, <2>1 DEF PacketInv
<1> QED
  BY <1>2, <1>5, <1>6
LEMMA SkipStep ==
  ASSUME PacketInv, SkipToStart
  PROVE  PacketInv'
<1>1. /\ stub = "receive" /\ input # <<>> /\ Head(input) # Dollar
      /\ input' = SubSeq(input, Before(input, Dollar) + 1, Len(input))
      /\ buf' = buf /\ stub' = stub /\ sent' = sent /\ taken' = taken /\ reply' = reply
  BY DEF SkipToStart
<1>2. ~Pending
  BY <1>1, PendingStarts
<1>3. /\ buf \in [0..(BufLen - 1) -> Chars] /\ input \in Seq(Chars) /\ sent \in Seq(Sent)
      /\ taken \in Seq(Taken) /\ Quiet
  BY <1>1, <1>2 DEF PacketInv, Doomed
<1>4. input' = <<>>
  <2>1. Dollar \notin ToSet(input)
    <3>1. DOMAIN input = 1..Len(input)
      BY <1>3
    <3> QED
      BY <1>3, <3>1 DEF ToSet, Quiet
  <2>2. Before(input, Dollar) = Len(input)
    BY <2>1 DEF Before
  <2>3. SubSeq(input, Len(input) + 1, Len(input)) = <<>>
    BY <1>3
  <2> QED
    BY <1>1, <2>2, <2>3
<1>5. UnderstoodUpTo(Len(sent))'
  <2>1. UnderstoodUpTo(Len(sent))
    BY <1>3 DEF Quiet
  <2>2. \A k : Fitting(k)' = Fitting(k)
    BY <1>1 DEF Fitting
  <2> QED
    BY <1>1, <2>1, <2>2 DEF UnderstoodUpTo
<1>6. sent' # <<>> /\ sent'[Len(sent')].letter = 109 => Answers(sent'[Len(sent')], reply')
  BY <1>1, <1>3 DEF Quiet
<1>7. \A i \in 1..Len(input') : input'[i] # Dollar
  <2>1. Len(input') = 0
    BY <1>4
  <2> QED
    BY <2>1
<1>8. Quiet'
  BY <1>1, <1>5, <1>6, <1>7 DEF Quiet
<1>9. input' \in Seq(Chars)
  BY <1>4
<1> QED
  BY <1>1, <1>3, <1>8, <1>9 DEF PacketInv

\* Only the last command, which is on the way, is received.
LEMMA Received ==
  ASSUME PacketInv, Receives
  PROVE  Pending
<1>1. stub = "receive" /\ input # <<>> /\ Head(input) = Dollar
  BY DEF Receives
<1>2. ~Quiet
  <2>1. input \in Seq(Chars)
    BY DEF PacketInv
  <2>2. 1 \in 1..Len(input) /\ input[1] = Dollar
    BY <1>1, <2>1
  <2> QED
    BY <2>2 DEF Quiet
<1> QED
  BY <1>1, <1>2 DEF PacketInv, Doomed

\* What is sent is unchanged, and so is what is understood.
LEMMA NothingTaken ==
  ASSUME sent' = sent, taken' = taken, NEW n \in Nat
  PROVE  UnderstoodUpTo(n)' <=> UnderstoodUpTo(n)
<1>1. \A k : Fitting(k)' = Fitting(k)
  BY DEF Fitting
<1> QED
  BY <1>1 DEF UnderstoodUpTo

LEMMA OverflowStep ==
  ASSUME PacketInv, Overflow
  PROVE  PacketInv'
<1>1. /\ Receives /\ ~Fits(Data)
      /\ buf' = Overwrite(buf, SubSeq(Data, 1, BufLen))
      /\ input' = SubSeq(input, BufLen + 3, Len(input))
      /\ stub' = "signal" /\ sent' = sent /\ taken' = taken
  BY DEF Overflow, Receives
<1>2. Pending
  BY <1>1, Received
<1>3. /\ buf \in [0..(BufLen - 1) -> Chars] /\ input \in Seq(Chars) /\ sent \in Seq(Sent)
      /\ taken \in Seq(Taken)
  BY DEF PacketInv
<1>4. PICK c \in Commands :
         /\ sent[Len(sent)].letter = c.letter /\ sent[Len(sent)].text = Text(c) /\ Text(c) \in Seq(Plain)
         /\ Data \in Seq(Plain) /\ Len(Data) = Len(Text(c))
  BY <1>2, PendingStarts
<1>n. PICK n \in Nat : n = Len(Text(c))
  <2>1. Len(Text(c)) \in Nat
    BY <1>4
  <2> QED
    BY <2>1
<1>B. PICK B \in Nat : B = BufLen /\ B >= 4
  BY BufferAssumption
<1>5. ~(n <= B)
  BY <1>1, <1>4, <1>B, <1>n DEF Fits
<1>6. buf' \in [0..(BufLen - 1) -> Chars]
  <2>1. PICK d : d = Data
    OBVIOUS
  <2>2. d \in Seq(Plain) /\ Len(d) = n
    BY <1>4, <1>n, <2>1
  <2>3. SubSeq(d, 1, B) \in Seq(Plain)
    BY <1>5, <2>2
  <2>4. SubSeq(Data, 1, BufLen) \in Seq(Plain)
    BY <1>B, <2>1, <2>3
  <2> QED
    BY <1>1, <1>3, <2>4, OverwriteIs
<1>7. /\ Len(input) = n + 4 /\ input[n + 2] = Hash
      /\ \A i \in 2..(n + 1) : input[i] \in Plain
      /\ input[n + 3] \in Plain /\ input[n + 4] \in Plain
  BY <1>2, <1>4, <1>n DEF Pending, OnTheWay
<1>8. \A i \in 2..(n + 4) : input[i] # Dollar
  <2> SUFFICES ASSUME NEW i \in 2..(n + 4) PROVE input[i] # Dollar
    OBVIOUS
  <2>1. i \in 2..(n + 1) \/ i = n + 2 \/ i = n + 3 \/ i = n + 4
    OBVIOUS
  <2>2. Hash # Dollar /\ Dollar \notin Plain
    BY DEF Hash, Dollar, Plain
  <2> QED
    BY <1>7, <2>1, <2>2
<1>9. input' \in Seq(Chars) /\ \A i \in 1..Len(input') : input'[i] # Dollar
  <2>1. input' = SubSeq(input, B + 3, n + 4)
    BY <1>1, <1>7, <1>B
  <2>2. PICK m \in Nat : m = n + 2 - B
    BY <1>5
  <2>3. SubSeq(input, B + 3, n + 4) = [i \in 1..m |-> input[B + 3 + i - 1]]
    BY <1>3, <1>7, <2>2
  <2>4. \A i \in 1..m : B + 3 + i - 1 \in 2..(n + 4) /\ B + 3 + i - 1 \in 1..Len(input)
    BY <1>7, <2>2
  <2>5. \A i \in 1..m : input[B + 3 + i - 1] # Dollar /\ input[B + 3 + i - 1] \in Chars
    <3>1. \A i \in 1..Len(input) : input[i] \in Chars
      BY <1>3, ElementsIn
    <3>2. PICK g : g = [i \in 1..m |-> B + 3 + i - 1]
      OBVIOUS
    <3>3. \A i \in 1..m : g[i] \in 2..(n + 4) /\ g[i] \in 1..Len(input) /\ g[i] = B + 3 + i - 1
      BY <2>4, <3>2
    <3>4. \A i \in 1..m : input[g[i]] # Dollar /\ input[g[i]] \in Chars
      BY Zenon, <1>8, <3>1, <3>3
    <3> QED
      BY <3>3, <3>4
  <2>6. PICK w : w = [i \in 1..m |-> input[B + 3 + i - 1]]
    OBVIOUS
  <2>7. w \in [1..m -> Chars] /\ \A i \in 1..m : w[i] # Dollar
    BY <2>5, <2>6
  <2>8. w \in Seq(Chars) /\ Len(w) = m
    BY <2>7
  <2> QED
    BY <2>1, <2>3, <2>6, <2>7, <2>8
<1>l. PICK l \in Nat : l = Len(sent) - 1
  <2>1. sent \in Seq(Sent) /\ sent # <<>>
    BY <1>2, <1>3 DEF Pending
  <2>2. Len(sent) - 1 \in Nat
    BY <2>1
  <2> QED
    BY <2>2
<1>L. Len(sent) = l + 1 /\ Len(sent) \in Nat
  <2>1. Len(sent) \in Nat
    BY <1>3
  <2> QED
    BY <1>l, <2>1
<1>10. UnderstoodUpTo(Len(sent))
  <2>1. UnderstoodUpTo(l)
    BY <1>2, <1>l DEF Pending
  <2>2. Fitting(l + 1) = Fitting(l)
    <3>1. ~(Len(sent[l + 1].text) <= BufLen)
      BY <1>4, <1>5, <1>B, <1>L, <1>n
    <3> QED
      BY <3>1, FittingIs
  <2>3. UnderstoodUpTo(l + 1)
    BY <2>1, <2>2 DEF UnderstoodUpTo
  <2> QED
    BY <1>L, <2>3
<1>11. UnderstoodUpTo(Len(sent))'
  <2>1. UnderstoodUpTo(l + 1)'
    BY <1>1, <1>10, <1>L, NothingTaken
  <2> QED
    BY <1>1, <1>L, <2>1
<1>12. sent[Len(sent)].letter # 109
  <2>1. c.letter = 109 => Len(Text(c)) <= BufLen
    BY CommandIs
  <2> QED
    BY <1>4, <1>5, <1>B, <1>n, <2>1
<1>13. Quiet'
  BY <1>1, <1>9, <1>11, <1>12 DEF Quiet
<1> QED
  BY <1>1, <1>3, <1>6, <1>9, <1>13 DEF PacketInv

LEMMA RefuseStep ==
  ASSUME PacketInv, Refuse
  PROVE  PacketInv'
<1>1. /\ Receives
      /\ buf' = Overwrite(buf, Data)
      /\ input' = Rest \o Framed(Last(sent).text)
      /\ stub' = "signal" /\ sent' = sent /\ taken' = taken
  BY DEF Refuse, Receives
<1>2. Pending
  BY <1>1, Received
<1>3. /\ buf \in [0..(BufLen - 1) -> Chars] /\ sent \in Seq(Sent) /\ taken \in Seq(Taken)
  BY DEF PacketInv
<1>4. PICK c \in Commands :
         /\ sent[Len(sent)].text = Text(c) /\ Text(c) \in Seq(Plain)
         /\ Data \in Seq(Plain) /\ Rest = <<>>
  BY <1>2, PendingStarts
<1>5. buf' \in [0..(BufLen - 1) -> Chars]
  BY <1>1, <1>3, <1>4, OverwriteIs
<1>6. PICK w : w = Framed(Text(c))
  OBVIOUS
<1>7. w \in Seq(Chars) /\ OnTheWay(w, Text(c))
  BY <1>4, <1>6, FramedIs
<1>8. w # <<>> /\ w[1] = Dollar
  <2>1. Len(w) = Len(Text(c)) + 4 /\ w[1] = Dollar /\ Len(Text(c)) \in Nat
    BY <1>4, <1>7 DEF OnTheWay
  <2>2. Len(w) # 0
    BY <2>1
  <2> QED
    BY <2>1, <2>2
<1>9. input' = w
  <2>1. Rest \o w = w
    BY <1>4, <1>7
  <2> QED
    BY <1>1, <1>4, <1>6, <2>1 DEF Last
<1>10. Doomed'
  BY <1>1, <1>8, <1>9 DEF Doomed
<1> QED
  BY <1>1, <1>3, <1>5, <1>7, <1>9, <1>10 DEF PacketInv

\* A command that fits is understood, and answered.
LEMMA ExecuteStep ==
  ASSUME PacketInv, Execute
  PROVE  PacketInv'
<1> DEFINE b == Overwrite(buf, Data)
           p == Parse(b, Len(Data))
<1>1. /\ Receives /\ Fits(Data) /\ DecHex(Digits[1], Digits[2]) = Checksum(Data)
      /\ taken' = Append(taken, Understood(p))
      /\ reply' = Framed(ReplyTo(p))
      /\ buf' = (IF UsesBuffer(p) THEN Overwrite(b, ReplyTo(p)) ELSE b)
      /\ input' = Append(Rest, Plus)
      /\ stub' = "ack" /\ sent' = sent
  BY DEF Execute, Receives
<1>2. Pending
  BY <1>1, Received
<1>3. /\ buf \in [0..(BufLen - 1) -> Chars] /\ sent \in Seq(Sent) /\ taken \in Seq(Taken)
  BY DEF PacketInv
<1>4. PICK c \in Commands :
         /\ sent[Len(sent)].letter = c.letter /\ sent[Len(sent)].args = c.args
         /\ sent[Len(sent)].text = Text(c) /\ Text(c) \in Seq(Plain)
         /\ Data = Text(c) \/ Checksum(Data) # Checksum(Text(c))
         /\ DecHex(Digits[1], Digits[2]) = Checksum(Text(c))
         /\ Rest = <<>>
  BY <1>2, PendingStarts
<1>5. Data = Text(c)
  BY <1>1, <1>4
<1>6. Len(Text(c)) <= BufLen
  BY <1>1, <1>5 DEF Fits
<1>7. b \in [0..(BufLen - 1) -> Chars] /\ Holds(b, Text(c))
  BY <1>3, <1>4, <1>5, <1>6, OverwriteIs
<1> HIDE DEF b
<1>8. p.ok /\ p.letter = c.letter /\ p.args = c.args
  BY <1>5, <1>7, ParsedText
<1> HIDE DEF p
<1>9. /\ ReplyTo(p) \in Seq(Plain)
      /\ c.letter = 109 => Answers(c, Framed(ReplyTo(p)))
  BY <1>8, ReplyIs
<1>10. buf' \in [0..(BufLen - 1) -> Chars]
  BY <1>1, <1>7, <1>9, OverwriteIs
<1>11. PICK u : u = [letter |-> c.letter, args |-> c.args]
  OBVIOUS
<1>12. u \in Taken /\ Understood(p) = u
  BY <1>8, <1>11 DEF Taken, Understood
<1>13. taken' = Append(taken, u) /\ taken' \in Seq(Taken)
  BY <1>1, <1>12, <1>3
<1>14. input' \in Seq(Chars) /\ \A i \in 1..Len(input') : input'[i] # Dollar
  <2>1. input' = <<Plus>>
    BY <1>1, <1>4
  <2>2. Plus \in Chars /\ Plus # Dollar
    BY DEF Plus, Chars, Dollar
  <2> QED
    BY <2>1, <2>2
<1>l. PICK l \in Nat : l = Len(sent) - 1
  <2>1. sent \in Seq(Sent) /\ sent # <<>>
    BY <1>2, <1>3 DEF Pending
  <2>2. Len(sent) - 1 \in Nat
    BY <2>1
  <2> QED
    BY <2>2
<1>L. Len(sent) = l + 1 /\ Len(sent) \in Nat
  <2>1. Len(sent) \in Nat
    BY <1>3
  <2> QED
    BY <1>l, <2>1
<1>15. UnderstoodUpTo(l)
  BY <1>2, <1>l DEF Pending
<1>16. /\ Fitting(l + 1) = Fitting(l) \cup {l + 1}
       /\ Cardinality(Fitting(l + 1)) = Cardinality(Fitting(l)) + 1
       /\ \A k \in Fitting(l) : Cardinality(Fitting(k)) \in 1..Cardinality(Fitting(l))
  BY <1>4, <1>6, <1>L, FittingIs
<1>17. PICK m \in Nat : m = Len(taken) /\ m = Cardinality(Fitting(l))
  <2>1. Len(taken) \in Nat
    BY <1>3
  <2> QED
    BY <1>15, <2>1 DEF UnderstoodUpTo
<1>18. Len(taken') = m + 1 /\ taken'[m + 1] = u /\ \A i \in 1..m : taken'[i] = taken[i]
  <2>1. PICK q \in Seq(Taken) : q = taken
    BY <1>3
  <2>2. Len(q) = m
    BY <1>17, <2>1
  <2>3. PICK q2 : q2 = Append(q, u)
    OBVIOUS
  <2>4. Len(q2) = m + 1 /\ q2[m + 1] = u /\ \A i \in 1..m : q2[i] = q[i]
    BY <1>12, <2>2, <2>3
  <2> QED
    BY <1>13, <2>1, <2>3, <2>4
<1>19. ASSUME NEW k \in Fitting(l + 1)
       PROVE  taken'[Cardinality(Fitting(k))] = [letter |-> sent[k].letter, args |-> sent[k].args]
  <2>1. CASE k = l + 1
    <3>1. sent[k].letter = c.letter /\ sent[k].args = c.args
      BY <1>4, <1>L, <2>1
    <3>2. Cardinality(Fitting(k)) = m + 1
      BY <1>16, <1>17, <2>1
    <3> QED
      BY <1>11, <1>18, <3>1, <3>2
  <2>2. CASE k \in Fitting(l)
    <3>1. Cardinality(Fitting(k)) \in 1..m
      BY <1>16, <1>17, <2>2
    <3>2. taken[Cardinality(Fitting(k))] = [letter |-> sent[k].letter, args |-> sent[k].args]
      BY <1>15, <2>2 DEF UnderstoodUpTo
    <3> QED
      BY <1>18, <3>1, <3>2
  <2> QED
    BY <1>16, <2>1, <2>2
<1>20. UnderstoodUpTo(Len(sent))'
  <2>1. \A k : Fitting(k)' = Fitting(k)
    BY <1>1 DEF Fitting
  <2>2. Len(taken') = Cardinality(Fitting(l + 1))
    BY <1>16, <1>17, <1>18
  <2>3. UnderstoodUpTo(l + 1)'
    BY <1>1, <1>19, <2>1, <2>2 DEF UnderstoodUpTo
  <2> QED
    BY <1>1, <1>L, <2>3
<1>21. sent[Len(sent)].letter = 109 => Answers(sent[Len(sent)], reply')
  <2>1. Answers(c, reply') => Answers(sent[Len(sent)], reply')
    BY <1>4 DEF Answers
  <2> QED
    BY <1>1, <1>4, <1>9, <2>1
<1>22. Quiet'
  BY <1>1, <1>14, <1>20, <1>21 DEF Quiet
<1> QED
  BY <1>1, <1>3, <1>10, <1>13, <1>14, <1>22 DEF PacketInv

LEMMA SendStep ==
  ASSUME PacketInv, NEW c \in Commands, NEW place \in 0..Len(Text(c)), SendCommand(c, place)
  PROVE  PacketInv'
<1>t. PICK t, s : /\ t = Text(c)
                  /\ s = [letter |-> c.letter, args |-> c.args, text |-> Text(c)]
  OBVIOUS
<1>1. /\ stub = "receive" /\ input = <<>>
      /\ sent' = Append(sent, s)
      /\ input' = (IF place = 0 THEN Framed(t) ELSE [Framed(t) EXCEPT ![place + 1] = 55])
      /\ buf' = buf /\ stub' = stub /\ taken' = taken
  BY <1>t DEF SendCommand
<1>2. ~Pending
  BY <1>1, PendingStarts
<1>3. /\ buf \in [0..(BufLen - 1) -> Chars] /\ sent \in Seq(Sent) /\ taken \in Seq(Taken) /\ Quiet
  BY <1>1, <1>2 DEF PacketInv, Doomed
<1>4. t \in Seq(Plain)
  BY <1>t, TextLaid
<1>5. input' \in Seq(Chars) /\ OnTheWay(input', t)
  <2>1. CASE place = 0
    BY <1>1, <1>4, <2>1, FramedIs
  <2>2. CASE place # 0
    <3>1. Len(t) \in Nat
      BY <1>4
    <3>2. place \in 1..Len(t)
      BY <1>t, <2>2, <3>1
    <3>3. PICK w : w = [Framed(t) EXCEPT ![place + 1] = 55]
      OBVIOUS
    <3>4. w \in Seq(Chars) /\ OnTheWay(w, t)
      BY <1>4, <3>2, <3>3, DamagedIs
    <3>5. input' = w
      BY <1>1, <2>2, <3>3
    <3> QED
      BY <3>4, <3>5
  <2> QED
    BY <2>1, <2>2
<1>6. s \in Sent /\ s.text = t
  BY <1>t DEF Sent
<1>l. PICK l \in Nat : l = Len(sent)
  <2>1. Len(sent) \in Nat
    BY <1>3
  <2> QED
    BY <2>1
<1>7. /\ sent' \in Seq(Sent) /\ Len(sent') = l + 1 /\ sent' # <<>> /\ sent'[l + 1] = s
      /\ \A k \in 1..l : sent'[k] = sent[k]
  BY <1>1, <1>3, <1>6, <1>l
<1>8. UnderstoodUpTo(l)'
  <2>1. UnderstoodUpTo(l)
    BY <1>3, <1>l DEF Quiet
  <2> QED
    BY <1>1, <1>7, <2>1, SentStays
<1>9. Pending'
  <2>1. Len(sent') - 1 = l
    BY <1>7
  <2>2. UnderstoodUpTo(Len(sent) - 1)'
    BY <1>8, <2>1
  <2>3. OnTheWay(input', sent'[Len(sent')].text)
    BY <1>5, <1>6, <1>7
  <2> QED
    BY <1>1, <1>7, <2>2, <2>3 DEF Pending
<1> QED
  BY <1>1, <1>3, <1>5, <1>7, <1>9 DEF PacketInv

------------------------------------------------------------------------------
(* The theorems. *)

LEMMA PacketInitially ==
  ASSUME PacketInit
  PROVE  PacketInv
<1>1. /\ buf \in Garbage /\ input = <<Plus>> /\ stub = "signal"
      /\ sent = <<>> /\ taken = <<>>
  BY DEF PacketInit
<1>2. buf \in [0..(BufLen - 1) -> Chars]
  BY <1>1, BufferAssumption
<1>3. input \in Seq(Chars) /\ \A i \in 1..Len(input) : input[i] # Dollar
  <2>1. Plus \in Chars /\ Plus # Dollar
    BY DEF Plus, Chars, Dollar
  <2> QED
    BY <1>1, <2>1
<1>4. UnderstoodUpTo(0)
  <2>1. Fitting(0) = {}
    BY DEF Fitting
  <2>2. Len(taken) = 0
    BY <1>1
  <2> QED
    BY <2>1, <2>2, FS_EmptySet DEF UnderstoodUpTo
<1>5. Quiet
  <2>1. Len(sent) = 0
    BY <1>1
  <2> QED
    BY <1>1, <1>3, <1>4, <2>1 DEF Quiet
<1>6. sent \in Seq(Sent) /\ taken \in Seq(Taken)
  BY <1>1
<1> QED
  BY <1>1, <1>2, <1>3, <1>5, <1>6 DEF PacketInv

\* Every step keeps what is on the way apart from what is understood.
LEMMA PacketStep == PacketInv /\ [PacketNext]_packetVars => PacketInv'
<1> SUFFICES ASSUME PacketInv, [PacketNext]_packetVars
             PROVE  PacketInv'
  OBVIOUS
<1>1. CASE PacketNext
  BY <1>1, SignalStep, AckStep, SkipStep, OverflowStep, RefuseStep, ExecuteStep, SendStep
     DEF PacketNext
<1>2. CASE UNCHANGED packetVars
  <2>1. /\ buf' = buf /\ input' = input /\ stub' = stub /\ sent' = sent /\ taken' = taken
        /\ reply' = reply
    BY <1>2 DEF packetVars
  <2>2. \A k : Fitting(k)' = Fitting(k)
    BY <2>1 DEF Fitting
  <2>3. \A n : UnderstoodUpTo(n)' <=> UnderstoodUpTo(n)
    BY <2>1, <2>2 DEF UnderstoodUpTo
  <2>4. (Quiet' <=> Quiet) /\ (Pending' <=> Pending) /\ (Doomed' <=> Doomed)
    BY <2>1, <2>3 DEF Quiet, Pending, Doomed
  <2> QED
    BY <2>1, <2>4 DEF PacketInv
<1> QED
  BY <1>1, <1>2

\* Whatever pkt_buf holds and whatever is damaged on the way, nothing on the
\* way begins a packet, or the last command is on the way, or the stub is
\* about to end.
THEOREM PacketInvariant == PacketSpec => []PacketInv
<1>1. PacketInit => PacketInv
  BY PacketInitially
<1> QED
  BY <1>1, PacketStep, PTL DEF PacketSpec

\* The stub understands the commands that GDB sends, all that fit in pkt_buf
\* and no others (gdbstub.cc:356, 828).
THEOREM PacketsUnderstood == PacketSpec => []UnderstoodAsSent
<1>1. PacketInv => UnderstoodAsSent
  <2> SUFFICES ASSUME PacketInv, Idle
               PROVE  UnderstoodUpTo(Len(sent))
    BY DEF UnderstoodAsSent, UnderstoodUpTo
  <2>1. ~Pending
    BY PendingStarts DEF Idle
  <2> QED
    BY <2>1 DEF PacketInv, Idle, Doomed, Quiet
<1> QED
  BY <1>1, PacketInvariant, PTL

\* The reply to a read of memory holds the bytes at the addresses GDB asked
\* for (gdbstub.cc:556).
THEOREM MemoryReadsAnswered == PacketSpec => []ReadsAnswered
<1>1. PacketInv => ReadsAnswered
  <2> SUFFICES ASSUME PacketInv, Idle, sent # <<>>, sent[Len(sent)].letter = 109
               PROVE  Answers(sent[Len(sent)], reply)
    BY DEF ReadsAnswered, Answers, Last
  <2>1. ~Pending
    BY PendingStarts DEF Idle
  <2> QED
    BY <2>1 DEF PacketInv, Idle, Doomed, Quiet
<1> QED
  BY <1>1, PacketInvariant, PTL
=============================================================================
