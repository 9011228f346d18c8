---------------------------- MODULE Sha256C_proof ----------------------------
(***************************************************************************)
(* For every message and both widths of an unsigned long: the software     *)
(* reference computes SHA-256, and prints its digest without the zeros     *)
(* that a word begins with.                                                *)
(***************************************************************************)
EXTENDS Sha256C, NaturalsInduction, SequenceTheorems, TLAPS

USE NativeAssumption

\* Words have 32 bits.
LEMMA Bits == Bit = 0 .. 31 /\ Word = SUBSET (0 .. 31)
  BY DEF Bit, Word

LEMMA MaskWord == ASSUME NEW x PROVE Mask(x) \in Word /\ (x \in Word => Mask(x) = x)
  BY Bits DEF Mask

\* The low 32 bits of a sum depend on the low bits of its terms alone.
LEMMA MaskSum ==
  ASSUME Native \in Natives, NEW x, NEW y
  PROVE  Mask(Sum(x, y)) = Mask(x) ++ Mask(y)
<1>1. Sum(x, y) = Long!sum(x, y)
  BY DEF Sum, Long!++
<1>2. Mask(x) ++ Mask(y) = sum(Mask(x), Mask(y))
  BY DEF ++
<1>3. ASSUME NEW p \in 0 .. 31
      PROVE  p \in Long!sum(x, y) <=> p \in sum(Mask(x), Mask(y))
  <2>1. p \in Long!Bit /\ p \in Bit
    BY Bits DEF Long!Bit
  <2>2. /\ p \in x <=> p \in Mask(x)
        /\ p \in y <=> p \in Mask(y)
        /\ \A j \in 0 .. p - 1 : (j \in x <=> j \in Mask(x)) /\ (j \in y <=> j \in Mask(y))
    BY DEF Mask
  <2> DEFINE C1 == \E j \in 0 .. p - 1 : /\ j \in x /\ j \in y
                                        /\ \A m \in j + 1 .. p - 1 : m \in x \/ m \in y
             C2 == \E j \in 0 .. p - 1 : /\ j \in Mask(x) /\ j \in Mask(y)
                                        /\ \A m \in j + 1 .. p - 1 : m \in Mask(x) \/ m \in Mask(y)
  <2>3. C1 <=> C2
    BY <2>2
  <2>4. p \in Long!sum(x, y) <=> ((p \in x) # (p \in y)) # C1
    BY <2>1 DEF Long!sum
  <2>5. p \in sum(Mask(x), Mask(y)) <=> ((p \in Mask(x)) # (p \in Mask(y))) # C2
    BY <2>1 DEF sum
  <2>6. C1 \in BOOLEAN /\ C2 \in BOOLEAN
    OBVIOUS
  <2> HIDE DEF C1, C2
  <2>7. C1 = C2
    BY <2>3, <2>6
  <2>8. (p \in x) = (p \in Mask(x)) /\ (p \in y) = (p \in Mask(y))
    BY <2>2
  <2> QED BY <2>4, <2>5, <2>7, <2>8, Zenon
<1>4. \A p \in sum(Mask(x), Mask(y)) : p \in 0 .. 31
  BY Bits DEF sum
<1> HIDE DEF sum
<1>5. \A p : p \in Mask(Sum(x, y)) <=> p \in sum(Mask(x), Mask(y))
  BY <1>1, <1>3, <1>4 DEF Mask
<1> QED BY <1>2, <1>5

LEMMA MaskXor ==
  ASSUME NEW x, NEW y PROVE Mask(Long!Xor(x, y)) = Xor(Mask(x), Mask(y))
  BY DEF Mask, Long!Xor, Xor

\* On a word the software's rotation is one, but for bits beyond the word.
LEMMA MaskRotate ==
  ASSUME Native \in Natives, NEW x \in Word, NEW n \in 1 .. 31
  PROVE  /\ Mask(rotright(x, n)) = rotate_right(x, n)
         /\ Mask(shfright(x, n)) = shift_right(x, n)
<1>1. \A b \in x : b \in 0 .. 31
  BY Bits
<1>2. ASSUME NEW p \in 0 .. 31
      PROVE  /\ p \in Shr(x, n) <=> p + n \in x
             /\ p \in Shl(x, 32 - n) <=> p - (32 - n) \in x
  <2>1. p \in Long!Bit
    BY DEF Long!Bit
  <2>2. p \in {b - n : b \in x} <=> p + n \in x
    BY <1>1
  <2>3. p \in {b + (32 - n) : b \in x} <=> p - (32 - n) \in x
    BY <1>1
  <2> QED BY <2>1, <2>2, <2>3 DEF Shr, Shl
<1>3. ASSUME NEW p \in 0 .. 31
      PROVE  (p + n) % WordBits \in x <=> p + n \in x \/ p - (32 - n) \in x
  <2>1. CASE p + n < 32
    <3>1. (p + n) % WordBits = p + n
      BY <2>1
    <3>2. p - (32 - n) \notin x
      BY <1>1, <2>1
    <3> QED BY <3>1, <3>2
  <2>2. CASE p + n >= 32
    <3>1. (p + n) % WordBits = p + n - 32
      BY <2>2
    <3>2. p + n \notin x
      BY <1>1, <2>2
    <3> QED BY <3>1, <3>2
  <2> QED BY <2>1, <2>2
<1>4. \A p \in 0 .. 31 : p \in rotright(x, n) <=> (p + n) % WordBits \in x
  BY <1>2, <1>3 DEF rotright
<1>5. \A p \in 0 .. 31 : p \in shfright(x, n) <=> p + n \in x
  BY <1>2 DEF shfright
<1> QED BY <1>4, <1>5, Bits DEF Mask, rotate_right, shift_right

\* The functions of the software are those of the package, on words.
LEMMA Functions ==
  ASSUME Native \in Natives, NEW x \in Word, NEW y \in Word, NEW z \in Word
  PROVE  /\ Mask(Sig0(x)) = sig0(x) /\ Mask(Sig1(x)) = sig1(x)
         /\ Mask(Ep0(x)) = ep0(x) /\ Mask(Ep1(x)) = ep1(x)
         /\ Mask(CMaj(x, y, z)) = Maj(x, y, z)
         /\ Mask(CCh(x, y, z)) = Ch(x, y, z)
<1>1. Mask(Sig0(x)) = sig0(x) /\ Mask(Sig1(x)) = sig1(x)
  BY MaskXor, MaskRotate DEF Sig0, Sig1, sig0, sig1
<1>2. Mask(Ep0(x)) = ep0(x) /\ Mask(Ep1(x)) = ep1(x)
  BY MaskXor, MaskRotate DEF Ep0, Ep1, ep0, ep1
<1>3. Mask(CMaj(x, y, z)) = Maj(x, y, z)
  BY Bits DEF Mask, CMaj, Maj, Long!Xor, Xor, And
<1>4. Mask(CCh(x, y, z)) = Ch(x, y, z)
  <2>1. \A p : p \in Mask(CCh(x, y, z)) <=> p \in Ch(x, y, z)
    <3>1. \A p \in 0 .. 31 : p \in Long!Bit
      BY DEF Long!Bit
    <3>2. \A p \in 0 .. 31 : p \in Mask(CCh(x, y, z)) <=> p \in Ch(x, y, z)
      BY <3>1, Bits DEF Mask, CCh, Ch, Long!Xor, Xor, And, Long!Not, Not
    <3>3. Ch(x, y, z) \subseteq 0 .. 31 /\ Mask(CCh(x, y, z)) \subseteq 0 .. 31
      BY Bits DEF Mask, Ch, Xor, And
    <3> QED BY <3>2, <3>3
  <2> QED BY <2>1
<1> QED BY <1>1, <1>2, <1>3, <1>4

LEMMA WordOps == ASSUME NEW x, NEW y PROVE x ++ y \in Word
<1>1. \A a, b : sum(a, b) \subseteq Bit
  BY DEF sum
<1>2. x ++ y \subseteq Bit
  BY <1>1 DEF ++
<1> QED BY <1>2 DEF Word

LEMMA HexWord == ASSUME NEW hi, NEW lo PROVE Hex(hi, lo) \in Word
  BY DEF Hex, Word

\* The round constants and the initial registers are words.
LEMMA ConstantWord == ASSUME NEW t \in 0 .. 63 PROVE constants[t] \in Word
  BY HexWord DEF constants

LEMMA InitRegsType == InitRegs \in Regs
  BY HexWord DEF InitRegs, Regs, INIT_A, INIT_B, INIT_C, INIT_D, INIT_E,
                 INIT_F, INIT_G, INIT_H

-----------------------------------------------------------------------------
\* One turn of the loop is one round, although its sums are not masked.
LEMMA CompressIsRound ==
  ASSUME Native \in Natives, regs \in Regs, i \in 0 .. 63, W[i] \in Word, Compress
  PROVE  regs' = Round(regs, constants[i], W[i]) /\ regs' \in Regs
<1> DEFINE t1 == regs.h ++ ep1(regs.e) ++ Ch(regs.e, regs.f, regs.g) ++ constants[i] ++ W[i]
           t2 == ep0(regs.a) ++ Maj(regs.a, regs.b, regs.c)
<1>1. /\ regs.a \in Word /\ regs.b \in Word /\ regs.c \in Word /\ regs.d \in Word
      /\ regs.e \in Word /\ regs.f \in Word /\ regs.g \in Word /\ regs.h \in Word
  BY DEF Regs
<1>2. Mask(T1) = t1
  <2>1. /\ Mask(regs.h) = regs.h /\ Mask(Ep1(regs.e)) = ep1(regs.e)
        /\ Mask(CCh(regs.e, regs.f, regs.g)) = Ch(regs.e, regs.f, regs.g)
        /\ Mask(constants[i]) = constants[i] /\ Mask(W[i]) = W[i]
    <3>1. Mask(Ep1(regs.e)) = ep1(regs.e)
          /\ Mask(CCh(regs.e, regs.f, regs.g)) = Ch(regs.e, regs.f, regs.g)
      BY <1>1, Functions
    <3>2. Mask(regs.h) = regs.h /\ Mask(constants[i]) = constants[i] /\ Mask(W[i]) = W[i]
      BY <1>1, MaskWord, ConstantWord
    <3> QED BY <3>1, <3>2
  <2> DEFINE s1 == Sum(regs.h, Ep1(regs.e))
             s2 == Sum(s1, CCh(regs.e, regs.f, regs.g))
             s3 == Sum(s2, constants[i])
  <2>2. T1 = Sum(s3, W[i])
    BY DEF T1
  <2>3. Mask(s1) = regs.h ++ ep1(regs.e)
    BY <2>1, MaskSum
  <2>4. Mask(s2) = Mask(s1) ++ Ch(regs.e, regs.f, regs.g)
    BY <2>1, MaskSum
  <2>5. Mask(s3) = Mask(s2) ++ constants[i]
    BY <2>1, MaskSum
  <2>6. Mask(Sum(s3, W[i])) = Mask(s3) ++ W[i]
    BY <2>1, MaskSum
  <2> QED BY <2>2, <2>3, <2>4, <2>5, <2>6
<1>3. Mask(T2) = t2
  <2>1. /\ Mask(Ep0(regs.a)) = ep0(regs.a)
        /\ Mask(CMaj(regs.a, regs.b, regs.c)) = Maj(regs.a, regs.b, regs.c)
    BY <1>1, Functions
  <2> QED BY <2>1, MaskSum DEF T2
<1>4. newE = regs.d ++ t1
  BY <1>1, <1>2, MaskSum, MaskWord DEF newE
<1>5. Mask(Sum(T1, T2)) = t1 ++ t2
  BY <1>2, <1>3, MaskSum
<1>6. regs' = [h |-> regs.g, g |-> regs.f, f |-> regs.e, e |-> regs.d ++ t1,
               d |-> regs.c, c |-> regs.b, b |-> regs.a, a |-> t1 ++ t2]
  BY <1>4, <1>5 DEF Compress
<1>7. t1 ++ t2 \in Word /\ regs.d ++ t1 \in Word
  BY WordOps
<1> HIDE DEF t1, t2
<1>8. Round(regs, constants[i], W[i]) =
        [h |-> regs.g, g |-> regs.f, f |-> regs.e, e |-> regs.d ++ t1,
         d |-> regs.c, c |-> regs.b, b |-> regs.a, a |-> t1 ++ t2]
  BY DEF Round, t1, t2
<1> QED BY <1>1, <1>6, <1>7, <1>8 DEF Regs

\* The word that the other loop adds.
LEMMA NewWord ==
  ASSUME Native \in Natives, i \in 16 .. 63, \A t \in 0 .. i - 1 : W[t] \in Word
  PROVE  newWord = sig1(W[i - 2]) ++ W[i - 7] ++ sig0(W[i - 15]) ++ W[i - 16]
<1>1. /\ W[i - 2] \in Word /\ W[i - 7] \in Word /\ W[i - 15] \in Word /\ W[i - 16] \in Word
  OBVIOUS
<1>2. /\ Mask(Sig1(W[i - 2])) = sig1(W[i - 2]) /\ Mask(W[i - 7]) = W[i - 7]
      /\ Mask(Sig0(W[i - 15])) = sig0(W[i - 15]) /\ Mask(W[i - 16]) = W[i - 16]
  BY <1>1, MaskWord, Functions
<1> DEFINE s1 == Sum(Sig1(W[i - 2]), W[i - 7])
           s2 == Sum(s1, Sig0(W[i - 15]))
<1>3. newWord = Mask(Sum(s2, W[i - 16]))
  BY DEF newWord
<1>4. Mask(s1) = sig1(W[i - 2]) ++ W[i - 7]
  BY <1>2, MaskSum
<1>5. Mask(s2) = Mask(s1) ++ sig0(W[i - 15])
  BY <1>2, MaskSum
<1>6. Mask(Sum(s2, W[i - 16])) = Mask(s2) ++ W[i - 16]
  BY <1>2, MaskSum
<1> QED BY <1>3, <1>4, <1>5, <1>6

-----------------------------------------------------------------------------
\* A message of at most 55 bytes and its padding fill the 64 bytes that are read.
Short == Len(message) <= 55

\* Nothing is left of a short length above bit 8.
LEMMA ShortLength ==
  ASSUME NEW n \in 0 .. 55, NEW q \in 9 .. 29 PROVE ((8 * n) \div 2^q) % 2 # 1
<1> DEFINE power(p) == 2^p
<1>1. /\ power(9) = 512 /\ power(10) = 1024 /\ power(11) = 2048 /\ power(12) = 4096
      /\ power(13) = 8192 /\ power(14) = 16384 /\ power(15) = 32768 /\ power(16) = 65536
      /\ power(17) = 131072 /\ power(18) = 262144 /\ power(19) = 524288
      /\ power(20) = 1048576 /\ power(21) = 2097152 /\ power(22) = 4194304
      /\ power(23) = 8388608 /\ power(24) = 16777216 /\ power(25) = 33554432
      /\ power(26) = 67108864 /\ power(27) = 134217728 /\ power(28) = 268435456
      /\ power(29) = 536870912
  OBVIOUS
<1> HIDE DEF power
<1>2. power(q) \in Nat /\ power(q) > 440
  <2>1. \/ q = 9 \/ q = 10 \/ q = 11 \/ q = 12 \/ q = 13 \/ q = 14 \/ q = 15
        \/ q = 16 \/ q = 17 \/ q = 18 \/ q = 19 \/ q = 20 \/ q = 21 \/ q = 22
        \/ q = 23 \/ q = 24 \/ q = 25 \/ q = 26 \/ q = 27 \/ q = 28 \/ q = 29
    OBVIOUS
  <2> QED BY <1>1, <2>1
<1>3. \A p \in Nat : p > 440 => (8 * n) \div p = 0
  OBVIOUS
<1>4. (8 * n) \div power(q) = 0
  BY <1>2, <1>3
<1>5. ((8 * n) \div power(q)) % 2 # 1
  BY <1>4
<1> QED BY <1>5, Zenon DEF power

\* The bytes of the reference, one case after the other.
LEMMA PaddedBytes ==
  ASSUME NEW m \in Seq(SUBSET (0 .. 7)), Len(m) <= 55, NEW k \in 0 .. 63
  PROVE  /\ k < Len(m) => PaddedByte(m, k) = m[k + 1]
         /\ k = Len(m) => PaddedByte(m, k) = {7}
         /\ k > Len(m) /\ k <= 61 => PaddedByte(m, k) = {}
         /\ k > 61 => PaddedByte(m, k) =
                          {b \in 0 .. 7 : ((8 * Len(m)) \div 2^(8 * (63 - k) + b)) % 2 = 1}
         /\ PaddedByte(m, k) \subseteq 0 .. 7
<1>1. Len(m) \in Nat /\ \A n \in 1 .. Len(m) : m[n] \subseteq 0 .. 7
  OBVIOUS
<1> DEFINE count == {b \in 0 .. 7 : ((8 * Len(m)) \div 2^(8 * (63 - k) + b)) % 2 = 1}
           P == CASE k < Len(m)           -> m[k + 1]
                  [] k = Len(m)           -> {7}
                  [] k > Len(m) /\ k < 62 -> {}
                  [] k > 61               -> count
<1>9. PaddedByte(m, k) = P
  BY DEF PaddedByte
<1> HIDE DEF count
<1>2. k < Len(m) => PaddedByte(m, k) = m[k + 1]
  <2>1. k < Len(m) => ~(k = Len(m)) /\ ~(k > Len(m)) /\ ~(k > 61)
    BY <1>1
  <2> QED BY <1>9, <2>1, Zenon
<1>3. k = Len(m) => PaddedByte(m, k) = {7}
  BY <1>1, <1>9
<1>4. k > Len(m) /\ k <= 61 => PaddedByte(m, k) = {}
  <2>1. k > Len(m) /\ k <= 61 => ~(k = Len(m)) /\ ~(k < Len(m)) /\ ~(k > 61) /\ k < 62
    BY <1>1
  <2> QED BY <1>9, <2>1, Zenon
<1>5. k > 61 => PaddedByte(m, k) =
                   {b \in 0 .. 7 : ((8 * Len(m)) \div 2^(8 * (63 - k) + b)) % 2 = 1}
  BY <1>1, <1>9 DEF count
<1>6. k < Len(m) => k + 1 \in 1 .. Len(m)
  BY <1>1
<1>7. k < Len(m) \/ k = Len(m) \/ (k > Len(m) /\ k <= 61) \/ k > 61
  BY <1>1
<1>8. PaddedByte(m, k) \subseteq 0 .. 7
  <2>1. k < Len(m) => PaddedByte(m, k) \subseteq 0 .. 7
    BY <1>1, <1>2, <1>6
  <2>2. k > 61 => PaddedByte(m, k) \subseteq 0 .. 7
    BY <1>5
  <2> QED BY <1>3, <1>4, <1>7, <2>1, <2>2
<1> QED BY <1>2, <1>3, <1>4, <1>5, <1>8

\* Two, and four, sequences after each other.
LEMMA Concat2 ==
  ASSUME NEW S, NEW s \in Seq(S), NEW u \in Seq(S)
  PROVE  /\ s \o u \in Seq(S) /\ Len(s \o u) = Len(s) + Len(u)
         /\ Len(s) \in Nat /\ Len(u) \in Nat
         /\ \A n \in 1 .. Len(s) : (s \o u)[n] = s[n]
         /\ \A n \in 1 .. Len(u) : (s \o u)[Len(s) + n] = u[n]
<1>1. Len(s) \in Nat /\ Len(u) \in Nat
  OBVIOUS
<1>2. /\ s \o u \in Seq(S) /\ Len(s \o u) = Len(s) + Len(u)
      /\ \A n \in 1 .. Len(s) + Len(u) :
            (s \o u)[n] = IF n <= Len(s) THEN s[n] ELSE u[n - Len(s)]
  BY ConcatProperties
<1> DEFINE v == s \o u
<1> HIDE DEF v
<1>3. \A n \in 1 .. Len(s) : v[n] = s[n]
  BY <1>1, <1>2 DEF v
<1>4. ASSUME NEW n \in 1 .. Len(u) PROVE v[Len(s) + n] = u[n]
  <2>1. Len(s) + n \in 1 .. Len(s) + Len(u) /\ ~(Len(s) + n <= Len(s)) /\ Len(s) + n - Len(s) = n
    BY <1>1
  <2> QED BY <1>2, <2>1 DEF v
<1> QED BY <1>1, <1>2, <1>3, <1>4 DEF v

LEMMA Concat4 ==
  ASSUME NEW S, NEW a \in Seq(S), NEW b \in Seq(S), NEW c \in Seq(S), NEW d \in Seq(S),
         NEW t, t = a \o b \o c \o d
  PROVE  /\ Len(t) = Len(a) + Len(b) + Len(c) + Len(d)
         /\ \A n \in 1 .. Len(a) : t[n] = a[n]
         /\ \A n \in 1 .. Len(b) : t[Len(a) + n] = b[n]
         /\ \A n \in 1 .. Len(c) : t[Len(a) + Len(b) + n] = c[n]
         /\ \A n \in 1 .. Len(d) : t[Len(a) + Len(b) + Len(c) + n] = d[n]
<1> DEFINE ab == a \o b
           abc == ab \o c
<1>1. /\ ab \in Seq(S) /\ Len(ab) = Len(a) + Len(b)
      /\ \A n \in 1 .. Len(a) : ab[n] = a[n]
      /\ \A n \in 1 .. Len(b) : ab[Len(a) + n] = b[n]
  BY Concat2
<1> HIDE DEF ab
<1>2. /\ abc \in Seq(S) /\ Len(abc) = Len(ab) + Len(c)
      /\ \A n \in 1 .. Len(ab) : abc[n] = ab[n]
      /\ \A n \in 1 .. Len(c) : abc[Len(ab) + n] = c[n]
  <2>1. ab \in Seq(S)
    BY <1>1
  <2> QED BY <2>1, Concat2
<1> HIDE DEF abc
<1>3. /\ Len(abc \o d) = Len(abc) + Len(d)
      /\ \A n \in 1 .. Len(abc) : (abc \o d)[n] = abc[n]
      /\ \A n \in 1 .. Len(d) : (abc \o d)[Len(abc) + n] = d[n]
  <2>1. abc \in Seq(S)
    BY <1>2
  <2> QED BY <2>1, Concat2
<1>4. t = abc \o d
  BY DEF abc, ab
<1>5. Len(a) \in Nat /\ Len(b) \in Nat /\ Len(c) \in Nat /\ Len(d) \in Nat
  OBVIOUS
<1>6. /\ Len(t) = Len(abc) + Len(d)
      /\ \A n \in 1 .. Len(abc) : t[n] = abc[n]
      /\ \A n \in 1 .. Len(d) : t[Len(abc) + n] = d[n]
  BY <1>3, <1>4
<1>7. /\ Len(ab) = Len(a) + Len(b) /\ Len(abc) = Len(a) + Len(b) + Len(c)
  BY <1>1, <1>2
<1>8. ASSUME NEW n \in 1 .. Len(a) PROVE t[n] = a[n]
  BY <1>1, <1>2, <1>5, <1>6, <1>7
<1>9. ASSUME NEW n \in 1 .. Len(b) PROVE t[Len(a) + n] = b[n]
  <2>1. Len(a) + n \in 1 .. Len(ab) /\ Len(a) + n \in 1 .. Len(abc)
    BY <1>5, <1>7
  <2> QED BY <1>1, <1>2, <1>6, <2>1
<1>10. ASSUME NEW n \in 1 .. Len(c) PROVE t[Len(a) + Len(b) + n] = c[n]
  <2>1. Len(ab) + n \in 1 .. Len(abc) /\ Len(ab) + n = Len(a) + Len(b) + n
    BY <1>5, <1>7
  <2> QED BY <1>2, <1>6, <2>1
<1> QED BY <1>6, <1>7, <1>8, <1>9, <1>10

\* The bytes that the first stage puts together.
LEMMA PadBytes ==
  ASSUME message \in Seq(SUBSET (0 .. 7)), Pad
  PROVE  /\ Len(block') >= 64
         /\ Short => \A k \in 0 .. 63 : block'[k + 1] = PaddedByte(message, k)
<1> DEFINE S     == SUBSET (0 .. 7)
           L     == Len(message)
           zeros == IF zeroBytes > 0 THEN zeroBytes ELSE 0
           Z     == [n \in 1 .. zeros |-> {}]
           B     == [n \in 1 .. 8 |-> lengthByte(n - 1)]
           one   == << {7} >>
<1>1. L \in Nat /\ length = 8 * L
  BY DEF length
<1>2. zeros = IF L <= 55 THEN 55 - L ELSE 0
  <2> HIDE DEF L
  <2>1. CASE L <= 55
    <3>1. 447 - 8 * L - 7 = 8 * (55 - L) /\ ~(447 - 8 * L - 7 < 0)
      BY <1>1, <2>1
    <3>2. (8 * (55 - L)) \div 8 = 55 - L
      BY <1>1, <2>1
    <3>3. zeroBytes = 55 - L
      BY <1>1, <3>1, <3>2 DEF zeroBytes, Quot
    <3> QED BY <1>1, <2>1, <3>3
  <2>2. CASE L > 55
    <3>1. -(447 - 8 * L - 7) = 8 * (L - 55) /\ 447 - 8 * L - 7 < 0
      BY <1>1, <2>2
    <3>2. (8 * (L - 55)) \div 8 = L - 55
      BY <1>1, <2>2
    <3>3. zeroBytes = -(L - 55)
      BY <1>1, <3>1, <3>2 DEF zeroBytes, Quot
    <3> QED BY <1>1, <2>2, <3>3
  <2> QED BY <1>1, <2>1, <2>2
<1>3. block' = message \o one \o Z \o B
  BY DEF Pad
<1> HIDE DEF zeros
<1>4. Z \in Seq(S) /\ Len(Z) = zeros /\ \A n \in 1 .. zeros : Z[n] = {}
  <2>1. zeros \in Nat
    BY <1>1, <1>2
  <2> QED BY <2>1
<1>5. B \in Seq(S) /\ Len(B) = 8 /\ \A n \in 1 .. 8 : B[n] = lengthByte(n - 1)
  BY DEF lengthByte
<1>6. one \in Seq(S) /\ Len(one) = 1 /\ one[1] = {7}
  OBVIOUS
<1> HIDE DEF Z, B, one, S
<1>7. /\ Len(block') = L + 1 + zeros + 8
      /\ \A n \in 1 .. L : block'[n] = message[n]
      /\ \A n \in 1 .. 1 : block'[L + n] = one[n]
      /\ \A n \in 1 .. zeros : block'[L + 1 + n] = Z[n]
      /\ \A n \in 1 .. 8 : block'[L + 1 + zeros + n] = B[n]
  <2>1. message \in Seq(S)
    BY DEF S
  <2>2. Z \in Seq(S) /\ B \in Seq(S) /\ one \in Seq(S)
    BY <1>4, <1>5, <1>6
  <2>3. /\ Len(block') = Len(message) + Len(one) + Len(Z) + Len(B)
        /\ \A n \in 1 .. Len(message) : block'[n] = message[n]
        /\ \A n \in 1 .. Len(one) : block'[Len(message) + n] = one[n]
        /\ \A n \in 1 .. Len(Z) : block'[Len(message) + Len(one) + n] = Z[n]
        /\ \A n \in 1 .. Len(B) : block'[Len(message) + Len(one) + Len(Z) + n] = B[n]
    BY <1>3, <2>1, <2>2, Concat4
  <2>4. Len(message) = L /\ Len(one) = 1 /\ Len(Z) = zeros /\ Len(B) = 8
    BY <1>4, <1>5, <1>6
  <2> QED BY <2>3, <2>4
<1> HIDE DEF L
<1>8. ASSUME Short, NEW k \in 0 .. 63 PROVE block'[k + 1] = PaddedByte(message, k)
  <2>0. zeros = 55 - L /\ L \in 0 .. 55 /\ L = Len(message)
    <3>1. L = Len(message)
      BY DEF L
    <3>2. L <= 55
      BY <1>8, <3>1 DEF Short
    <3>3. L \in Nat
      BY <1>1
    <3>4. zeros = IF L <= 55 THEN 55 - L ELSE 0
      BY <1>2
    <3>5. zeros = 55 - L
      BY <3>2, <3>4
    <3>6. L \in 0 .. 55
      BY <3>2, <3>3
    <3> QED BY <3>1, <3>5, <3>6
  <2>5. Len(message) <= 55
    BY <1>8 DEF Short
  <2>6. k < L => PaddedByte(message, k) = message[k + 1]
    BY <2>5, PaddedBytes DEF L
  <2>7. k = L => PaddedByte(message, k) = {7}
    BY <2>5, PaddedBytes DEF L
  <2>8. k > L /\ k <= 61 => PaddedByte(message, k) = {}
    BY <2>5, PaddedBytes DEF L
  <2>9. k > 61 => PaddedByte(message, k) =
                    {b \in 0 .. 7 : ((8 * L) \div 2^(8 * (63 - k) + b)) % 2 = 1}
    BY <2>5, PaddedBytes DEF L
  <2>1. CASE k < L
    <3>1. \A n \in 1 .. L : block'[n] = message[n]
      BY <1>7
    <3>2. k + 1 \in 1 .. L
      BY <2>0, <2>1
    <3> QED BY <2>1, <2>6, <3>1, <3>2
  <2>2. CASE k = L
    <3>1. block'[L + 1] = {7}
      BY <1>6, <1>7
    <3> QED BY <2>2, <2>7, <3>1
  <2>3. CASE k > L /\ k < 56
    <3>1. k - L \in 1 .. zeros /\ k + 1 = L + 1 + (k - L)
      BY <2>0, <2>3
    <3>2. block'[k + 1] = {}
      BY <1>4, <1>7, <3>1
    <3> QED BY <2>0, <2>3, <2>8, <3>2
  <2>4. CASE k >= 56
    <3>1. k - 55 \in 1 .. 8 /\ k + 1 = L + 1 + zeros + (k - 55) /\ k - 55 - 1 = k - 56
      BY <2>0, <2>4
    <3>2. block'[k + 1] = lengthByte(k - 56)
      <4>1. \A n \in 1 .. 8 : block'[L + 1 + zeros + n] = lengthByte(n - 1)
        BY <1>5, <1>7
      <4> QED BY <3>1, <4>1
    <3>3. lengthByte(k - 56) = {b \in 0 .. 7 : 8 * (63 - k) + b \in lengthBits}
      <4>1. 7 - (k - 56) = 63 - k
        BY <2>4
      <4> QED BY <4>1 DEF lengthByte
    <3>4. lengthBits = {n \in 0 .. 29 : ((8 * L) \div 2^n) % 2 = 1}
      BY <1>1 DEF lengthBits, L
    <3>5. CASE k > 61
      <4>1. \A b \in 0 .. 7 : 8 * (63 - k) + b \in 0 .. 29
        BY <3>5
      <4>2. PaddedByte(message, k) = {b \in 0 .. 7 : ((8 * L) \div 2^(8 * (63 - k) + b)) % 2 = 1}
        BY <2>9, <3>5
      <4> QED BY <3>2, <3>3, <3>4, <4>1, <4>2
    <3>6. CASE k <= 61
      <4>1. ASSUME NEW b \in 0 .. 7 PROVE 8 * (63 - k) + b \notin lengthBits
        <5>1. 8 * (63 - k) + b \in 9 .. 29 \/ 8 * (63 - k) + b \notin 0 .. 29
          BY <3>6
        <5>2. \A q \in 9 .. 29 : ((8 * L) \div 2^q) % 2 # 1
          BY <2>0, ShortLength
        <5> QED BY <3>4, <5>1, <5>2
      <4>2. PaddedByte(message, k) = {}
        <5>1. L \in 0 .. 55
          BY <2>0
        <5>2. k > L
          BY <2>4, <5>1
        <5> QED BY <2>8, <3>6, <5>2
      <4> QED BY <3>2, <3>3, <4>1, <4>2
    <3> QED BY <3>5, <3>6
  <2> QED BY <2>0, <2>1, <2>2, <2>3, <2>4
<1>9. Len(block') >= 64
  BY <1>1, <1>2, <1>7
<1> QED BY <1>8, <1>9

\* The words of the block, of which the first 64 bytes are read.
LEMMA BlockWords ==
  ASSUME Native \in Natives, \A k \in 0 .. 63 : block[k + 1] = PaddedByte(message, k),
         message \in Seq(SUBSET (0 .. 7)), Short, NEW t \in 0 .. 15
  PROVE  Mask(bigEndian(t)) = PaddedWords(message)[t]
<1> DEFINE byte(j) == PaddedByte(message, 4 * t + j)
           part(j) == {8 * (3 - j) + b : b \in byte(j)}
<1>1. ASSUME NEW j \in 0 .. 3
      PROVE  byte(j) \subseteq 0 .. 7 /\ block[4 * t + j + 1] = byte(j)
  <2>1. 4 * t + j \in 0 .. 63
    OBVIOUS
  <2> QED BY <2>1, PaddedBytes DEF Short
<1> HIDE DEF byte
<1>2. PaddedWords(message)[t] = UNION {part(j) : j \in 0 .. 3}
  BY DEF PaddedWords, byte
<1>3. bigEndian(t) = UNION {Shl(byte(n), 8 * (3 - n)) : n \in 0 .. 3}
  <2>1. \A n \in 0 .. 3 : block[4 * t + n + 1] = byte(n)
    BY <1>1
  <2>2. {Shl(block[4 * t + n + 1], 8 * (3 - n)) : n \in 0 .. 3}
         = {Shl(byte(n), 8 * (3 - n)) : n \in 0 .. 3}
    BY <2>1
  <2> QED BY <2>2 DEF bigEndian
<1>4. ASSUME NEW j \in 0 .. 3
      PROVE  Shl(byte(j), 8 * (3 - j)) = part(j) /\ part(j) \subseteq 0 .. 31
  <2>1. ASSUME NEW b \in byte(j)
        PROVE  b + 8 * (3 - j) = 8 * (3 - j) + b /\ 8 * (3 - j) + b \in 0 .. 31
    <3>1. b \in 0 .. 7
      BY <1>1
    <3> QED BY <3>1
  <2>2. \A p \in 0 .. 31 : p \in Long!Bit
    BY DEF Long!Bit
  <2>3. {b + 8 * (3 - j) : b \in byte(j)} = part(j)
    <3>1. \A b \in byte(j) : b + 8 * (3 - j) = 8 * (3 - j) + b
      BY <2>1
    <3> QED BY <3>1
  <2>4. part(j) \subseteq 0 .. 31
    <3>1. ASSUME NEW p \in part(j) PROVE p \in 0 .. 31
      <4>1. PICK b \in byte(j) : p = 8 * (3 - j) + b
        OBVIOUS
      <4> QED BY <2>1, <4>1
    <3> QED BY <3>1
  <2>5. part(j) \cap Long!Bit = part(j)
    BY <2>2, <2>4
  <2> QED BY <2>3, <2>4, <2>5 DEF Shl
<1> HIDE DEF part
<1>5. bigEndian(t) = UNION {part(j) : j \in 0 .. 3}
  <2>1. {Shl(byte(n), 8 * (3 - n)) : n \in 0 .. 3} = {part(j) : j \in 0 .. 3}
    BY <1>4
  <2> QED BY <1>3, <2>1
<1>6. UNION {part(j) : j \in 0 .. 3} \subseteq 0 .. 31
  <2>1. ASSUME NEW p \in UNION {part(j) : j \in 0 .. 3} PROVE p \in 0 .. 31
    <3>1. PICK j \in 0 .. 3 : p \in part(j)
      OBVIOUS
    <3>2. part(j) \subseteq 0 .. 31
      BY <1>4
    <3> QED BY <3>1, <3>2
  <2> QED BY <2>1
<1> QED BY <1>2, <1>5, <1>6 DEF Mask
-----------------------------------------------------------------------------
\* RoundsOf unfolds: it lists the rounds one after the other.
LEMMA RoundsUnfold ==
  ASSUME NEW w
  PROVE  /\ RoundsOf(w, 64)[0] = InitRegs
         /\ \A t \in 0 .. 63 :
              RoundsOf(w, 64)[t + 1] = Round(RoundsOf(w, 64)[t], constants[t], w[t])
<1> DEFINE F(r, k, x) == CHOOSE next \in {Round(q, k, x) : q \in {r}} : TRUE
           Def(v, t)  == F(v, constants[t - 1], w[t - 1])
           R          == CHOOSE g : g = [t \in 0 .. 64 |->
                                           IF t = 0 THEN InitRegs ELSE Def(g[t - 1], t)]
<1>1. RoundsOf(w, 64) = R
  BY DEF RoundsOf
<1>2. \A r, k, x : F(r, k, x) = Round(r, k, x)
  OBVIOUS
<1> HIDE DEF F
<1>3. FiniteNatInductiveDefHypothesis(R, InitRegs, Def, 0, 64)
  BY DEF FiniteNatInductiveDefHypothesis
<1> HIDE DEF R, Def
<1>4. FiniteNatInductiveDefConclusion(R, InitRegs, Def, 0, 64)
  BY <1>3, FiniteNatInductiveDef
<1>5. R = [t \in 0 .. 64 |-> IF t = 0 THEN InitRegs ELSE Def(R[t - 1], t)]
  BY <1>4 DEF FiniteNatInductiveDefConclusion
<1>6. R[0] = InitRegs
  BY <1>5
<1>7. ASSUME NEW t \in 0 .. 63
      PROVE  R[t + 1] = Round(R[t], constants[t], w[t])
  <2>1. t + 1 \in 0 .. 64 /\ t + 1 # 0 /\ (t + 1) - 1 = t
    OBVIOUS
  <2>2. R[t + 1] = Def(R[t], t + 1)
    BY <1>5, <2>1
  <2> QED BY <1>2, <2>1, <2>2 DEF Def
<1> QED BY <1>1, <1>6, <1>7

-----------------------------------------------------------------------------
\* The first n words of the schedule are there, and are those of the message.
Scheduled(n) ==
  /\ \A t \in 0 .. n - 1 : W[t] \in Word
  /\ Short => IsSchedule(W, PaddedWords(message), n)

\* Addition commutes: the software adds the registers to the initial ones, the
\* reference the initial ones to the registers.
LEMMA SumCommutes == ASSUME NEW x, NEW y PROVE x ++ y = y ++ x
<1>1. ASSUME NEW p \in Bit PROVE p \in sum(x, y) <=> p \in sum(y, x)
  <2> DEFINE C1 == \E j \in 0 .. p - 1 : /\ j \in x /\ j \in y
                                        /\ \A m \in j + 1 .. p - 1 : m \in x \/ m \in y
             C2 == \E j \in 0 .. p - 1 : /\ j \in y /\ j \in x
                                        /\ \A m \in j + 1 .. p - 1 : m \in y \/ m \in x
  <2>1. C1 <=> C2
    OBVIOUS
  <2>2. C1 \in BOOLEAN /\ C2 \in BOOLEAN
    OBVIOUS
  <2>3. p \in sum(x, y) <=> ((p \in x) # (p \in y)) # C1
    BY DEF sum
  <2>4. p \in sum(y, x) <=> ((p \in y) # (p \in x)) # C2
    BY DEF sum
  <2> HIDE DEF C1, C2
  <2>5. C1 = C2
    BY <2>1, <2>2
  <2>6. ((p \in x) # (p \in y)) <=> ((p \in y) # (p \in x))
    OBVIOUS
  <2> QED BY <2>3, <2>4, <2>5, <2>6
<1>2. sum(x, y) \subseteq Bit /\ sum(y, x) \subseteq Bit
  BY DEF sum
<1>3. sum(x, y) = sum(y, x)
  <2> HIDE DEF sum
  <2> QED BY <1>1, <1>2
<1> QED BY <1>3 DEF ++

\* The sums of the last stage are those that complete a digest.
LEMMA AddIsAddInit ==
  ASSUME Native \in Natives, regs \in Regs
  PROVE  LET sums == [r \in DOMAIN InitRegs |-> Mask(Sum(InitRegs[r], regs[r]))]
         IN  sums = AddInit(regs) /\ sums \in Regs
<1>1. ASSUME NEW x \in Word, NEW y \in Word
      PROVE  Mask(Sum(x, y)) = y ++ x /\ y ++ x \in Word
  BY <1>1, MaskSum, MaskWord, SumCommutes, WordOps
<1>2. DOMAIN InitRegs = {"a", "b", "c", "d", "e", "f", "g", "h"}
  BY DEF InitRegs
<1> DEFINE sums == [r \in DOMAIN InitRegs |-> Mask(Sum(InitRegs[r], regs[r]))]
<1>3. \A r \in {"a", "b", "c", "d", "e", "f", "g", "h"} :
         InitRegs[r] \in Word /\ regs[r] \in Word
  BY InitRegsType DEF Regs
<1>4. sums = [r \in {"a", "b", "c", "d", "e", "f", "g", "h"} |-> regs[r] ++ InitRegs[r]]
  BY <1>1, <1>2, <1>3
<1>5. /\ InitRegs["a"] = INIT_A /\ InitRegs["b"] = INIT_B /\ InitRegs["c"] = INIT_C
      /\ InitRegs["d"] = INIT_D /\ InitRegs["e"] = INIT_E /\ InitRegs["f"] = INIT_F
      /\ InitRegs["g"] = INIT_G /\ InitRegs["h"] = INIT_H
  BY DEF InitRegs
<1> HIDE DEF sums
<1>6. sums = AddInit(regs)
  BY <1>4, <1>5 DEF AddInit
<1>7. AddInit(regs) \in Regs
  BY WordOps DEF AddInit, Regs
<1> QED BY <1>6, <1>7 DEF sums

\* What each stage finds when its turn comes.
StageInv ==
  /\ Native \in Natives
  /\ message \in Messages
  /\ pc \in {"pad", "resize", "schedule", "compress", "add", "print", "done"}
  /\ pc # "pad" => Len(block) >= 64
  /\ pc = "resize" /\ Short => \A k \in 0 .. 63 : block[k + 1] = PaddedByte(message, k)
  /\ pc = "schedule" => i \in 16 .. 63 /\ Scheduled(i)
  /\ pc \in {"compress", "add", "print", "done"} => Scheduled(64)
  /\ pc \in {"pad", "resize", "schedule"} => regs = InitRegs
  /\ pc = "compress" => i \in 0 .. 63 /\ regs \in Regs /\ regs = RoundsOf(W, 64)[i]
  /\ pc = "add" => regs \in Regs /\ regs = RoundsOf(W, 64)[64]
  /\ pc \notin {"print", "done"} => H = InitRegs
  /\ pc \in {"print", "done"} => H \in Regs /\ H = AddInit(RoundsOf(W, 64)[64])
  /\ pc = "done" => printed = hex(H.a) \o hex(H.b) \o hex(H.c) \o hex(H.d)
                           \o hex(H.e) \o hex(H.f) \o hex(H.g) \o hex(H.h)

LEMMA StageInit == Init => StageInv
  BY DEF Init, StageInv

LEMMA StageStep == StageInv /\ [Next]_vars => StageInv'
<1> SUFFICES ASSUME StageInv, [Next]_vars PROVE StageInv'
  OBVIOUS
<1>0. Native \in Natives /\ message \in Messages /\ message \in Seq(SUBSET (0 .. 7))
  BY MessagesAssumption DEF StageInv
<1>1. CASE Pad
  <2>1. Len(block') >= 64 /\ (Short => \A k \in 0 .. 63 : block'[k + 1] = PaddedByte(message, k))
    BY <1>0, <1>1, PadBytes
  <2> QED BY <1>1, <2>1 DEF Pad, StageInv, Short
<1>2. CASE Resize
  <2>1. /\ pc = "resize" /\ pc' = "schedule" /\ i' = 16 /\ message' = message
        /\ W' = [t \in 0 .. 15 |-> Mask(bigEndian(t))]
    BY <1>2 DEF Resize
  <2>2. \A t \in 0 .. 15 : W'[t] = Mask(bigEndian(t)) /\ W'[t] \in Word
    BY <2>1, MaskWord
  <2>3. ASSUME Short PROVE IsSchedule(W', PaddedWords(message), 16)
    <3>1. \A k \in 0 .. 63 : block[k + 1] = PaddedByte(message, k)
      BY <2>1, <2>3 DEF StageInv
    <3>2. \A t \in 0 .. 15 : Mask(bigEndian(t)) = PaddedWords(message)[t]
      BY <1>0, <2>3, <3>1, BlockWords
    <3> QED BY <2>2, <3>2 DEF IsSchedule
  <2>4. Scheduled(16)'
    BY <2>1, <2>2, <2>3 DEF Scheduled, Short
  <2> QED BY <1>2, <2>1, <2>4 DEF Resize, StageInv
<1>3. CASE ScheduleWord
  <2>1. /\ pc = "schedule" /\ i \in 16 .. 63 /\ message' = message
        /\ Scheduled(i)
        /\ W' = [t \in 0 .. i |-> IF t < i THEN W[t] ELSE newWord]
    BY <1>3 DEF ScheduleWord, StageInv
  <2>2. /\ \A t \in 0 .. i - 1 : W'[t] = W[t]
        /\ W'[i] = newWord
    BY <2>1
  <2>3. newWord = sig1(W[i - 2]) ++ W[i - 7] ++ sig0(W[i - 15]) ++ W[i - 16]
    BY <1>0, <2>1, NewWord DEF Scheduled
  <2>4. \A t \in 0 .. i : W'[t] \in Word
    <3>1. newWord \in Word
      BY <2>3, WordOps
    <3>2. \A t \in 0 .. i - 1 : W[t] \in Word
      BY <2>1 DEF Scheduled
    <3> QED BY <2>1, <2>2, <3>1, <3>2
  <2>5. ASSUME Short PROVE IsSchedule(W', PaddedWords(message), i + 1)
    <3>1. IsSchedule(W, PaddedWords(message), i)
      BY <2>1, <2>5 DEF Scheduled
    <3>2. \A t \in 0 .. 15 : W'[t] = PaddedWords(message)[t]
      <4>1. \A t \in 0 .. 15 : W[t] = PaddedWords(message)[t]
        BY <3>1 DEF IsSchedule
      <4>2. \A t \in 0 .. 15 : t \in 0 .. i - 1
        BY <2>1
      <4> QED BY <2>2, <4>1, <4>2
    <3>3. ASSUME NEW t \in 16 .. i
          PROVE  W'[t] = sig1(W'[t - 2]) ++ W'[t - 7] ++ sig0(W'[t - 15]) ++ W'[t - 16]
      <4>1. /\ W'[t - 2] = W[t - 2] /\ W'[t - 7] = W[t - 7]
            /\ W'[t - 15] = W[t - 15] /\ W'[t - 16] = W[t - 16]
        BY <2>1, <2>2
      <4>2. CASE t = i
        BY <2>2, <2>3, <4>1, <4>2
      <4>3. CASE t < i
        <5>1. t \in 0 .. i - 1 /\ t \in 16 .. i - 1
          BY <2>1, <4>3
        <5>2. W[t] = sig1(W[t - 2]) ++ W[t - 7] ++ sig0(W[t - 15]) ++ W[t - 16]
          BY <3>1, <5>1 DEF IsSchedule
        <5> QED BY <2>2, <4>1, <5>1, <5>2
      <4> QED BY <2>1, <4>2, <4>3
    <3>4. (i + 1) - 1 = i
      BY <2>1
    <3> QED BY <3>2, <3>3, <3>4 DEF IsSchedule
  <2>6. (i + 1) - 1 = i
    BY <2>1
  <2>7. CASE i < 63
    <3>1. pc' = "schedule" /\ i' = i + 1 /\ i' \in 16 .. 63
      BY <1>3, <2>1, <2>7 DEF ScheduleWord
    <3>2. Scheduled(i)'
      BY <2>1, <2>4, <2>5, <2>6, <3>1 DEF Scheduled, Short
    <3> QED BY <1>3, <2>1, <3>1, <3>2 DEF ScheduleWord, StageInv
  <2>8. CASE ~(i < 63)
    <3>1. pc' = "compress" /\ i' = 0 /\ i = 63
      BY <1>3, <2>1, <2>8 DEF ScheduleWord
    <3>2. Scheduled(64)'
      BY <2>1, <2>4, <2>5, <3>1 DEF Scheduled, Short
    <3>3. regs' = InitRegs
      BY <1>3, <2>1 DEF ScheduleWord, StageInv
    <3>4. regs' = RoundsOf(W', 64)[0]
      BY <3>3, RoundsUnfold
    <3> QED BY <1>3, <2>1, <3>1, <3>2, <3>3, <3>4, InitRegsType DEF ScheduleWord, StageInv
  <2> QED BY <2>1, <2>7, <2>8
<1>4. CASE Compress
  <2>1. /\ pc = "compress" /\ i \in 0 .. 63 /\ regs \in Regs /\ regs = RoundsOf(W, 64)[i]
        /\ Scheduled(64) /\ W' = W /\ message' = message /\ i' = i + 1
    BY <1>4 DEF Compress, StageInv
  <2>2. W[i] \in Word
    BY <2>1 DEF Scheduled
  <2>3. regs' = Round(regs, constants[i], W[i]) /\ regs' \in Regs
    BY <1>0, <1>4, <2>1, <2>2, CompressIsRound
  <2>4. regs' = RoundsOf(W', 64)[i']
    BY <2>1, <2>3, RoundsUnfold
  <2>5. Scheduled(64)'
    BY <2>1 DEF Scheduled, Short
  <2>6. CASE i < 63
    <3>1. pc' = "compress" /\ i' \in 0 .. 63
      BY <1>4, <2>1, <2>6 DEF Compress
    <3> QED BY <1>4, <2>1, <2>3, <2>4, <2>5, <3>1 DEF Compress, StageInv
  <2>7. CASE ~(i < 63)
    <3>1. pc' = "add" /\ i' = 64
      BY <1>4, <2>1, <2>7 DEF Compress
    <3> QED BY <1>4, <2>1, <2>3, <2>4, <2>5, <3>1 DEF Compress, StageInv
  <2> QED BY <2>6, <2>7
<1>5. CASE AddH
  <2>1. /\ pc = "add" /\ pc' = "print" /\ regs \in Regs /\ regs = RoundsOf(W, 64)[64]
        /\ H = InitRegs /\ Scheduled(64) /\ W' = W /\ message' = message
        /\ H' = [r \in DOMAIN H |-> Mask(Sum(H[r], regs[r]))]
    BY <1>5 DEF AddH, StageInv
  <2>2. H' = AddInit(regs) /\ H' \in Regs
    BY <1>0, <2>1, AddIsAddInit
  <2>3. Scheduled(64)'
    BY <2>1 DEF Scheduled, Short
  <2> QED BY <1>5, <2>1, <2>2, <2>3 DEF AddH, StageInv
<1>6. CASE Write
  <2>1. /\ pc = "print" /\ pc' = "done" /\ Scheduled(64)
        /\ UNCHANGED <<Native, message, block, W, i, regs, H>>
    BY <1>6 DEF Write, StageInv
  <2>2. Scheduled(64)'
    BY <2>1 DEF Scheduled, Short
  <2>3. \A x : hex(x)' = hex(x)
    BY <2>1 DEF hex, Hexits
  <2>4. printed' = (hex(H.a) \o hex(H.b) \o hex(H.c) \o hex(H.d)
                 \o hex(H.e) \o hex(H.f) \o hex(H.g) \o hex(H.h))'
    BY <1>6, <2>1, <2>3 DEF Write
  <2> QED BY <2>1, <2>2, <2>4 DEF StageInv
<1>7. CASE UNCHANGED vars
  <2>1. UNCHANGED <<Native, pc, message, block, W, i, regs, H, printed>>
    BY <1>7 DEF vars
  <2>2. \A n : Scheduled(n)' = Scheduled(n)
    BY <2>1 DEF Scheduled, Short
  <2>3. \A x : hex(x)' = hex(x)
    BY <2>1 DEF hex, Hexits
  <2>4. (pc = "done" => printed = hex(H.a) \o hex(H.b) \o hex(H.c) \o hex(H.d)
                               \o hex(H.e) \o hex(H.f) \o hex(H.g) \o hex(H.h))'
    BY <2>1, <2>3 DEF StageInv
  <2>5. (pc = "schedule" => i \in 16 .. 63 /\ Scheduled(i))'
    BY <2>1, <2>2 DEF StageInv
  <2>6. (pc = "resize" /\ Short => \A k \in 0 .. 63 : block[k + 1] = PaddedByte(message, k))'
    BY <2>1 DEF StageInv, Short
  <2> QED BY <2>1, <2>2, <2>4, <2>5, <2>6 DEF StageInv
<1> QED BY <1>1, <1>2, <1>3, <1>4, <1>5, <1>6, <1>7 DEF Next

\* Whatever the message and the platform, each stage finds what the stages
\* before it should have left.
THEOREM StagesFit == Spec => []StageInv
  BY StageInit, StageStep, PTL DEF Spec

\* The software computes the SHA-256 digest of every message of at most 55
\* bytes, on either width of unsigned long.
THEOREM HashesEveryMessage == Spec => []HashesMessage
<1>1. StageInv => HashesMessage
  BY DEF StageInv, HashesMessage, Scheduled, Short
<1> QED BY <1>1, StagesFit, PTL

-----------------------------------------------------------------------------
\* The digits that a word is printed in: between one and eight of its lowest,
\* the others being its leading zeros.
LEMMA WordDigits ==
  ASSUME Native \in Natives, NEW x \in Word
  PROVE  \E n \in 1 .. 8 : hex(x) = Hexits(x, n) /\ LeadingZeros(x) = 8 - n
<1> DEFINE P(n) == (\A b \in x : b < 4 * n) /\ (n = 1 \/ \E b \in x : b >= 4 * (n - 1))
<1>1. \A b \in x : b \in 0 .. 31
  BY Bits
<1>2. \E n \in 1 .. 8 : P(n)
  <2>1. CASE \E b \in x : b >= 28
    <3>1. P(8)
      BY <1>1, <2>1
    <3> QED BY <3>1
  <2>2. CASE ~(\E b \in x : b >= 28) /\ \E b \in x : b >= 24
    <3>1. P(7)
      BY <1>1, <2>2
    <3> QED BY <3>1
  <2>3. CASE ~(\E b \in x : b >= 24) /\ \E b \in x : b >= 20
    <3>1. P(6)
      BY <1>1, <2>3
    <3> QED BY <3>1
  <2>4. CASE ~(\E b \in x : b >= 20) /\ \E b \in x : b >= 16
    <3>1. P(5)
      BY <1>1, <2>4
    <3> QED BY <3>1
  <2>5. CASE ~(\E b \in x : b >= 16) /\ \E b \in x : b >= 12
    <3>1. P(4)
      BY <1>1, <2>5
    <3> QED BY <3>1
  <2>6. CASE ~(\E b \in x : b >= 12) /\ \E b \in x : b >= 8
    <3>1. P(3)
      BY <1>1, <2>6
    <3> QED BY <3>1
  <2>7. CASE ~(\E b \in x : b >= 8) /\ \E b \in x : b >= 4
    <3>1. P(2)
      BY <1>1, <2>7
    <3> QED BY <3>1
  <2>8. CASE ~(\E b \in x : b >= 4)
    <3>1. P(1)
      BY <1>1, <2>8
    <3> QED BY <3>1
  <2> QED BY <2>1, <2>2, <2>3, <2>4, <2>5, <2>6, <2>7, <2>8
<1>3. PICK p \in 1 .. 8 : P(p)
  BY <1>2
<1>4. ASSUME NEW n \in 1 .. 16, P(n) PROVE n = p
  BY <1>1, <1>3, <1>4
<1> HIDE DEF P
<1>5. (CHOOSE n \in 1 .. 8 : P(n)) = p
  BY <1>3, <1>4
<1>6. (CHOOSE n \in 1 .. Native \div 4 : P(n)) = p
  <2>1. Native \div 4 = 8 \/ Native \div 4 = 16
    OBVIOUS
  <2> QED BY <1>3, <1>4, <2>1
<1>7. LeadingZeros(x) = 8 - p
  BY <1>5 DEF LeadingZeros, P
<1>8. hex(x) = Hexits(x, p)
  BY <1>6 DEF hex, P
<1> QED BY <1>7, <1>8

\* The digits of a word, in a text of eight such pieces.
LEMMA PieceLength ==
  ASSUME NEW x, NEW n \in Nat
  PROVE  Hexits(x, n) \in Seq(SUBSET (0 .. 3)) /\ Len(Hexits(x, n)) = n
  BY DEF Hexits

LEMMA Concat8 ==
  ASSUME NEW S, NEW a \in Seq(S), NEW b \in Seq(S), NEW c \in Seq(S), NEW d \in Seq(S),
         NEW e \in Seq(S), NEW f \in Seq(S), NEW g \in Seq(S), NEW h \in Seq(S)
  PROVE  Len(a \o b \o c \o d \o e \o f \o g \o h)
           = Len(a) + Len(b) + Len(c) + Len(d) + Len(e) + Len(f) + Len(g) + Len(h)
<1> DEFINE ab == a \o b   abc == ab \o c   abcd == abc \o d
           abcde == abcd \o e   abcdef == abcde \o f   abcdefg == abcdef \o g
<1>1. ab \in Seq(S) /\ Len(ab) = Len(a) + Len(b)
  BY Concat2
<1> HIDE DEF ab
<1>2. abc \in Seq(S) /\ Len(abc) = Len(ab) + Len(c)
  BY <1>1, Concat2
<1> HIDE DEF abc
<1>3. abcd \in Seq(S) /\ Len(abcd) = Len(abc) + Len(d)
  BY <1>2, Concat2
<1> HIDE DEF abcd
<1>4. abcde \in Seq(S) /\ Len(abcde) = Len(abcd) + Len(e)
  BY <1>3, Concat2
<1> HIDE DEF abcde
<1>5. abcdef \in Seq(S) /\ Len(abcdef) = Len(abcde) + Len(f)
  BY <1>4, Concat2
<1> HIDE DEF abcdef
<1>6. abcdefg \in Seq(S) /\ Len(abcdefg) = Len(abcdef) + Len(g)
  BY <1>5, Concat2
<1> HIDE DEF abcdefg
<1>7. Len(abcdefg \o h) = Len(abcdefg) + Len(h)
  BY <1>6, Concat2
<1>8. a \o b \o c \o d \o e \o f \o g \o h = abcdefg \o h
  BY DEF ab, abc, abcd, abcde, abcdef, abcdefg
<1> QED BY <1>1, <1>2, <1>3, <1>4, <1>5, <1>6, <1>7, <1>8

\* The printed text is the digest without the zeros that its words begin with.
THEOREM PrintsTheDigits == Spec => []PrintsDigits
<1>1. StageInv => PrintsDigits
  <2> SUFFICES ASSUME StageInv, pc = "done" PROVE PrintsDigits
    BY DEF PrintsDigits
  <2>1. /\ Native \in Natives
        /\ H.a \in Word /\ H.b \in Word /\ H.c \in Word /\ H.d \in Word
        /\ H.e \in Word /\ H.f \in Word /\ H.g \in Word /\ H.h \in Word
    BY DEF StageInv, Regs
  <2>2. printed = hex(H.a) \o hex(H.b) \o hex(H.c) \o hex(H.d)
               \o hex(H.e) \o hex(H.f) \o hex(H.g) \o hex(H.h)
    BY DEF StageInv
  <2>3. PICK na \in 1 .. 8 : hex(H.a) = Hexits(H.a, na) /\ LeadingZeros(H.a) = 8 - na
    BY <2>1, WordDigits
  <2>4. PICK nb \in 1 .. 8 : hex(H.b) = Hexits(H.b, nb) /\ LeadingZeros(H.b) = 8 - nb
    BY <2>1, WordDigits
  <2>5. PICK nc \in 1 .. 8 : hex(H.c) = Hexits(H.c, nc) /\ LeadingZeros(H.c) = 8 - nc
    BY <2>1, WordDigits
  <2>6. PICK nd \in 1 .. 8 : hex(H.d) = Hexits(H.d, nd) /\ LeadingZeros(H.d) = 8 - nd
    BY <2>1, WordDigits
  <2>7. PICK ne \in 1 .. 8 : hex(H.e) = Hexits(H.e, ne) /\ LeadingZeros(H.e) = 8 - ne
    BY <2>1, WordDigits
  <2>8. PICK nf \in 1 .. 8 : hex(H.f) = Hexits(H.f, nf) /\ LeadingZeros(H.f) = 8 - nf
    BY <2>1, WordDigits
  <2>9. PICK ng \in 1 .. 8 : hex(H.g) = Hexits(H.g, ng) /\ LeadingZeros(H.g) = 8 - ng
    BY <2>1, WordDigits
  <2>10. PICK nh \in 1 .. 8 : hex(H.h) = Hexits(H.h, nh) /\ LeadingZeros(H.h) = 8 - nh
    BY <2>1, WordDigits
  <2> DEFINE zeros == LeadingZeros(H.a) + LeadingZeros(H.b) + LeadingZeros(H.c)
                    + LeadingZeros(H.d) + LeadingZeros(H.e) + LeadingZeros(H.f)
                    + LeadingZeros(H.g) + LeadingZeros(H.h)
  <2>11. zeros = 64 - (na + nb + nc + nd + ne + nf + ng + nh)
    BY <2>3, <2>4, <2>5, <2>6, <2>7, <2>8, <2>9, <2>10
  <2>12. \A x : \A n \in 1 .. 8 : Hexits(x, n) \in Seq(SUBSET (0 .. 3)) /\ Len(Hexits(x, n)) = n
    BY PieceLength
  <2>13. Len(Hexits(H.a, na) \o Hexits(H.b, nb) \o Hexits(H.c, nc) \o Hexits(H.d, nd)
          \o Hexits(H.e, ne) \o Hexits(H.f, nf) \o Hexits(H.g, ng) \o Hexits(H.h, nh))
         = na + nb + nc + nd + ne + nf + ng + nh
    <3> DEFINE S == SUBSET (0 .. 3)
               A == Hexits(H.a, na)   B == Hexits(H.b, nb)   C == Hexits(H.c, nc)
               D == Hexits(H.d, nd)   E == Hexits(H.e, ne)   F == Hexits(H.f, nf)
               G == Hexits(H.g, ng)   K == Hexits(H.h, nh)
    <3>1. /\ Len(A) = na /\ Len(B) = nb /\ Len(C) = nc /\ Len(D) = nd
          /\ Len(E) = ne /\ Len(F) = nf /\ Len(G) = ng /\ Len(K) = nh
      BY <2>12
    <3>2. /\ A \in Seq(S) /\ B \in Seq(S) /\ C \in Seq(S) /\ D \in Seq(S)
          /\ E \in Seq(S) /\ F \in Seq(S) /\ G \in Seq(S) /\ K \in Seq(S)
      BY <2>12
    <3> HIDE DEF S, A, B, C, D, E, F, G, K
    <3>3. Len(A \o B \o C \o D \o E \o F \o G \o K)
            = Len(A) + Len(B) + Len(C) + Len(D) + Len(E) + Len(F) + Len(G) + Len(K)
      BY <3>2, Concat8
    <3> QED BY <3>1, <3>3 DEF A, B, C, D, E, F, G, K
  <2>14. printed = Hexits(H.a, na) \o Hexits(H.b, nb) \o Hexits(H.c, nc) \o Hexits(H.d, nd)
          \o Hexits(H.e, ne) \o Hexits(H.f, nf) \o Hexits(H.g, ng) \o Hexits(H.h, nh)
    BY <2>2, <2>3, <2>4, <2>5, <2>6, <2>7, <2>8, <2>9, <2>10
  <2>15. Len(printed) = 64 - zeros
    BY <2>11, <2>13, <2>14
  <2>16. zeros = 0 => /\ na = 8 /\ nb = 8 /\ nc = 8 /\ nd = 8
                      /\ ne = 8 /\ nf = 8 /\ ng = 8 /\ nh = 8
    BY <2>11
  <2> QED BY <2>14, <2>15, <2>16 DEF PrintsDigits
<1> QED BY <1>1, StagesFit, PTL
==============================================================================
