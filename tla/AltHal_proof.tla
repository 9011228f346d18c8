----------------------------- MODULE AltHal_proof -----------------------------
(***************************************************************************)
(* What is proved of the board support package as the program calls it:    *)
(* the library functions (AltLib), then the files (AltFd).                 *)
(*                                                                         *)
(* A call of a library function is one step, so an invariant says no more  *)
(* than what it returns (CallsReturn); what is to be shown is that its     *)
(* loop computes what it is for, for every width of a word and every size. *)
(* The loops are functions of the number of turns: each is unfolded once   *)
(* (DividedUnfold, MultipliedUnfold, LoadUnfold, LogUnfold, PrintfUnfold), *)
(* and what holds of a turn and the next one holds of all (Upto).  A       *)
(* conversion of a format is read from wherever it stands (ConversionRead) *)
(* and prints digits that read back as its argument (DigitsRead), for any  *)
(* width of a field and of a word.                                         *)
(*                                                                         *)
(* For every size of the pool, all devices, file systems and names: the    *)
(* table of descriptors is well formed, a device has at most one owner,    *)
(* and nothing is opened on a device as long as it is owned.               *)
(***************************************************************************)
EXTENDS AltFd, AltLib, NaturalsInduction, SequenceTheorems, FiniteSetTheorems, WellFoundedInduction,
        TLAPS

-----------------------------------------------------------------------------
\* Induction up to n, on a set instead of a predicate.
LEMMA Upto ==
  ASSUME NEW n \in Nat, NEW S, 0 \in S, \A k \in 0 .. n - 1 : k \in S => k + 1 \in S
  PROVE  0 .. n \subseteq S
<1> DEFINE Rest == {k \in 0 .. n : k \notin S}
           R == {ss \in Nat \X Nat : ss[1] < ss[2]}
<1>1. IsWellFoundedOn(R, Nat)
  BY NatLessThanWellFounded DEF OpToRel
<1> HIDE DEF R
<1>2. SUFFICES ASSUME Rest # {} PROVE FALSE
  OBVIOUS
<1>3. PICK x \in Rest : \A y \in Rest : ~ (<<y, x>> \in R)
  <2>1. Rest \subseteq Nat
    OBVIOUS
  <2> QED BY <1>1, <1>2, <2>1, WFMin
<1>4. x \in 0 .. n /\ x # 0
  BY <1>3
<1>5. x - 1 \in 0 .. n - 1 /\ x - 1 \in 0 .. n /\ (x - 1) + 1 = x
  BY <1>4
<1>6. <<x - 1, x>> \in R
  BY <1>4 DEF R
<1>7. x - 1 \in S
  BY <1>3, <1>5, <1>6
<1> QED BY <1>3, <1>5, <1>7

LEMMA Power ==
  /\ pow2[0] = 1
  /\ \A n \in Nat : pow2[n + 1] = 2 * pow2[n]
<1> DEFINE Def(v, n) == 2 * v
<1>1. NatInductiveDefHypothesis(pow2, 1, Def)
  BY DEF NatInductiveDefHypothesis, pow2
<1> HIDE DEF Def, pow2
<1>2. NatInductiveDefConclusion(pow2, 1, Def)
  BY <1>1, NatInductiveDef
<1>3. pow2 = [n \in Nat |-> IF n = 0 THEN 1 ELSE Def(pow2[n - 1], n)]
  BY <1>2 DEF NatInductiveDefConclusion
<1>4. ASSUME NEW n \in Nat PROVE pow2[n + 1] = 2 * pow2[n]
  <2>1. n + 1 \in Nat /\ n + 1 # 0 /\ (n + 1) - 1 = n
    OBVIOUS
  <2>2. pow2[n + 1] = Def(pow2[n], n + 1)
    BY <1>3, <2>1
  <2> QED BY <2>2 DEF Def
<1> QED BY <1>3, <1>4

LEMMA PowerType == \A n \in Nat : pow2[n] \in Nat \ {0}
<1> SUFFICES ASSUME NEW n \in Nat PROVE pow2[n] \in Nat \ {0}
  OBVIOUS
<1> DEFINE S == {k \in Nat : pow2[k] \in Nat \ {0}}
<1>1. 0 \in S
  BY Power
<1>2. \A k \in 0 .. n - 1 : k \in S => k + 1 \in S
  BY Power
<1> HIDE DEF S
<1>3. 0 .. n \subseteq S
  BY <1>1, <1>2, Upto
<1>4. n \in S
  BY <1>3
<1> QED BY <1>4 DEF S

LEMMA PowerSum == \A m, n \in Nat : pow2[m + n] = pow2[m] * pow2[n]
<1> SUFFICES ASSUME NEW m \in Nat, NEW n \in Nat PROVE pow2[m + n] = pow2[m] * pow2[n]
  OBVIOUS
<1> DEFINE S == {k \in Nat : pow2[m + k] = pow2[m] * pow2[k]}
<1>1. 0 \in S
  BY Power, PowerType
<1>2. ASSUME NEW k \in 0 .. n - 1, k \in S PROVE k + 1 \in S
  <2>1. k \in Nat /\ k + 1 \in Nat /\ m + k \in Nat /\ m + (k + 1) = (m + k) + 1
    OBVIOUS
  <2>2. pow2[m + (k + 1)] = 2 * pow2[m + k] /\ pow2[k + 1] = 2 * pow2[k]
    BY <2>1, Power
  <2>3. pow2[m + k] = pow2[m] * pow2[k]
    BY <1>2
  <2>4. pow2[m] \in Nat /\ pow2[k] \in Nat
    BY <2>1, PowerType
  <2>5. pow2[m + (k + 1)] = pow2[m] * pow2[k + 1]
    BY <2>2, <2>3, <2>4
  <2> QED BY <2>1, <2>5
<1> HIDE DEF S
<1>3. 0 .. n \subseteq S
  BY <1>1, <1>2, Upto
<1>4. n \in S
  BY <1>3
<1> QED BY <1>4 DEF S

\* Division with remainder.
LEMMA Euclid ==
  ASSUME NEW d \in Nat \ {0}, NEW x \in Int
  PROVE  x \div d \in Int /\ x % d \in 0 .. d - 1 /\ x = d * (x \div d) + (x % d)
  OBVIOUS

LEMMA DivMod ==
  ASSUME NEW d \in Nat \ {0}, NEW x \in Int, NEW q \in Int, NEW r \in 0 .. d - 1, x = q * d + r
  PROVE  x \div d = q /\ x % d = r
<1>1. x \div d = q
  OBVIOUS
<1>2. x = d * (x \div d) + (x % d) /\ x % d \in Int
  BY Euclid
<1> QED BY <1>1, <1>2

-----------------------------------------------------------------------------
\* Registers.
LEMMA Words ==
  /\ Limit \in Nat \ {0} /\ Top \in Nat \ {0} /\ Limit = 2 * Top
  /\ \A v \in 0 .. Limit - 1 : v \in Nat /\ wrap(v) = v
  /\ \A v \in Int : wrap(v) \in 0 .. Limit - 1
<1>1. RegBits \in Nat /\ RegBits - 1 \in Nat /\ (RegBits - 1) + 1 = RegBits
  BY RegAssumption
<1>2. Limit \in Nat \ {0} /\ Top \in Nat \ {0} /\ Limit = 2 * Top
  BY <1>1, Power, PowerType DEF Limit, Top
<1> QED BY <1>2 DEF wrap

-----------------------------------------------------------------------------
\* Division.
LEMMA DividedUnfold ==
  ASSUME NEW a, NEW d
  PROVE  /\ divided(a, d)[0] = [rem |-> 0, quot |-> a]
         /\ \A k \in 0 .. RegBits - 1 : divided(a, d)[k + 1] = divideTurn(divided(a, d)[k], d)
<1> DEFINE first     == [rem |-> 0, quot |-> a]
           F(s)      == CHOOSE next \in {divideTurn(t, d) : t \in {s}} : TRUE
           Def(s, k) == F(s)
           D         == CHOOSE g : g = [k \in 0 .. RegBits |-> IF k = 0 THEN first ELSE Def(g[k - 1], k)]
<1>0. RegBits \in Nat
  BY RegAssumption
<1>1. divided(a, d) = D
  BY DEF divided
<1>2. \A s : F(s) = divideTurn(s, d)
  OBVIOUS
<1> HIDE DEF F, first
<1>3. FiniteNatInductiveDefHypothesis(D, first, Def, 0, RegBits)
  BY DEF FiniteNatInductiveDefHypothesis
<1> HIDE DEF D, Def
<1>4. FiniteNatInductiveDefConclusion(D, first, Def, 0, RegBits)
  BY <1>0, <1>3, FiniteNatInductiveDef
<1>5. D = [k \in 0 .. RegBits |-> IF k = 0 THEN first ELSE Def(D[k - 1], k)]
  BY <1>4 DEF FiniteNatInductiveDefConclusion
<1>6. D[0] = first
  BY <1>0, <1>5
<1>7. ASSUME NEW k \in 0 .. RegBits - 1 PROVE D[k + 1] = divideTurn(D[k], d)
  <2>1. k + 1 \in 0 .. RegBits /\ k + 1 # 0 /\ (k + 1) - 1 = k
    BY <1>0
  <2>2. D[k + 1] = Def(D[k], k + 1)
    BY <1>5, <2>1
  <2> QED BY <1>2, <2>2 DEF Def
<1> QED BY <1>1, <1>6, <1>7 DEF first

\* State s of the loop, with p the power of the bits that are divided and w of those
\* that are left: the bits of a that are divided are q times d and r.
Divided(a, d, p, w, s) ==
  \E q \in 0 .. p - 1, r \in 0 .. d - 1, lo \in 0 .. w - 1 :
     a = (q * d + r) * w + lo /\ s = [rem |-> r, quot |-> lo * p + q]

\* The bits that are done and the others.
Splits(p, u) == Top = p * u

\* One turn divides one bit.
LEMMA DivideStep ==
  ASSUME NEW p \in Nat \ {0}, NEW u \in Nat \ {0}, Splits(p, u),
         NEW a \in 0 .. Limit - 1, NEW d \in 1 .. Limit - 1,
         NEW w, w = 2 * u, NEW s, Divided(a, d, p, w, s)
  PROVE  Divided(a, d, 2 * p, u, divideTurn(s, d))
<1>1. PICK q \in 0 .. p - 1, r \in 0 .. d - 1, lo \in 0 .. 2 * u - 1 :
           a = (q * d + r) * (2 * u) + lo /\ s = [rem |-> r, quot |-> lo * p + q]
  BY DEF Divided
<1> SUFFICES \E q2 \in 0 .. 2 * p - 1, r2 \in 0 .. d - 1, lo2 \in 0 .. u - 1 :
                /\ a = (q2 * d + r2) * u + lo2
                /\ divideTurn(s, d) = [rem |-> r2, quot |-> lo2 * (2 * p) + q2]
  BY DEF Divided
<1>0. /\ Top = p * u /\ Limit = 2 * Top /\ Limit \in Nat \ {0} /\ Top \in Nat \ {0}
      /\ p \in Nat /\ u \in Nat /\ q \in Nat /\ r \in Nat /\ lo \in Nat /\ d \in Nat /\ a \in Nat
  BY Words DEF Splits
<1> DEFINE bit == IF lo >= u THEN 1 ELSE 0
           lo2 == lo - bit * u
           x   == lo2 * p + q
<1>2. bit \in 0 .. 1 /\ lo2 \in 0 .. u - 1 /\ lo = bit * u + lo2
  BY <1>0
<1> HIDE DEF bit, lo2
<1>3. x \in 0 .. Top - 1
  <2>1. lo2 * p \in Nat /\ lo2 * p <= (u - 1) * p
    BY <1>0, <1>2
  <2>2. (u - 1) * p = Top - p
    BY <1>0
  <2> QED BY <1>0, <2>1, <2>2
<1>4. s.quot = bit * Top + x
  <2>1. (bit * u + lo2) * p = bit * (p * u) + lo2 * p
    BY <1>0, <1>2
  <2>2. s.quot = lo * p + q
    BY <1>1
  <2> QED BY <1>0, <1>2, <2>1, <2>2
<1> HIDE DEF x
<1>5. s.quot \in Nat /\ s.quot \div Top = bit /\ 2 * s.quot = bit * Limit + 2 * x
  <2>1. s.quot \in Nat /\ 2 * s.quot = bit * Limit + 2 * x
    BY <1>0, <1>2, <1>3, <1>4
  <2>2. s.quot \div Top = bit
    <3>1. PICK y \in Int : y = s.quot
      BY <2>1
    <3>2. y = bit * Top + x /\ bit \in Int /\ Top \in Nat \ {0}
      BY <1>0, <1>2, <1>4, <3>1
    <3>3. y \div Top = bit
      BY <1>3, <3>2, DivMod
    <3> QED BY <3>1, <3>3
  <2> QED BY <2>1, <2>2
<1>6. wrap(2 * s.quot) = 2 * x
  <2>1. 2 * x \in 0 .. Limit - 1
    BY <1>0, <1>3
  <2>2. 2 * s.quot \in Int /\ bit \in Int
    BY <1>2, <1>5
  <2>3. (2 * s.quot) % Limit = 2 * x
    <3>1. PICK y \in Int : y = 2 * s.quot
      BY <2>2
    <3>2. Limit \in Nat \ {0} /\ y = bit * Limit + 2 * x
      BY <1>0, <1>5, <3>1
    <3>3. PICK z \in 0 .. Limit - 1 : z = 2 * x
      BY <2>1
    <3>4. y = bit * Limit + z
      BY <3>2, <3>3
    <3>5. y % Limit = z
      BY <2>2, <3>2, <3>4, DivMod
    <3> QED BY <3>1, <3>3, <3>5
  <2> QED BY <2>3 DEF wrap
<1>7. r < p
  <2>1. q * d \in Nat
    BY <1>0
  <2>2. CASE q * d + r >= p
    <3>1. (q * d + r) * (2 * u) >= p * (2 * u)
      BY <1>0, <2>1, <2>2
    <3>2. p * (2 * u) = Limit
      BY <1>0
    <3> QED BY <1>0, <1>1, <3>1, <3>2
  <2> QED BY <1>0, <2>1, <2>2
<1>8. r < Top
  <2>1. p <= p * u
    BY <1>0
  <2> QED BY <1>0, <1>7, <2>1
<1>9. shifted(s) = [rem |-> 2 * r + bit, quot |-> 2 * x]
  <2>1. wrap(2 * s.rem) = 2 * r
    BY <1>0, <1>8, <1>1, Words
  <2> QED BY <1>5, <1>6, <2>1 DEF shifted
<1>10. a = (q * 2 * d + (2 * r + bit)) * u + lo2
  <2>1. (q * d + r) * (2 * u) = (q * 2 * d + 2 * r) * u
    BY <1>0
  <2>2. (q * 2 * d + 2 * r) * u + bit * u = (q * 2 * d + (2 * r + bit)) * u
    BY <1>0, <1>2
  <2> QED BY <1>0, <1>2, <1>1, <2>1, <2>2
<1>11. 2 * x = lo2 * (2 * p) + 2 * q
  <2>1. 2 * (lo2 * p) = lo2 * (2 * p)
    BY <1>0, <1>2
  <2> QED BY <1>0, <1>2, <2>1 DEF x
<1>12. CASE 2 * r + bit < d
  <2>1. divideTurn(s, d) = [rem |-> 2 * r + bit, quot |-> lo2 * (2 * p) + 2 * q]
    BY <1>9, <1>11, <1>12 DEF divideTurn
  <2>2. a = ((2 * q) * d + (2 * r + bit)) * u + lo2
    BY <1>10
  <2>3. 2 * q \in 0 .. 2 * p - 1 /\ 2 * r + bit \in 0 .. d - 1
    BY <1>0, <1>2, <1>12
  <2> QED BY <1>2, <2>1, <2>2, <2>3
<1>13. CASE ~(2 * r + bit < d)
  <2>1. divideTurn(s, d) = [rem |-> 2 * r + bit - d, quot |-> lo2 * (2 * p) + (2 * q + 1)]
    <3>1. 2 * x + 1 = lo2 * (2 * p) + (2 * q + 1)
      <4>1. lo2 * (2 * p) \in Int
        BY <1>0, <1>2
      <4> QED BY <1>0, <1>11, <4>1
    <3>2. divideTurn(s, d) = [rem |-> 2 * r + bit - d, quot |-> 2 * x + 1]
      <4>1. shifted(s).rem = 2 * r + bit /\ shifted(s).quot = 2 * x
        BY <1>9
      <4>2. ~(shifted(s).rem < d)
        BY <1>13, <4>1
      <4>3. divideTurn(s, d) = [rem |-> shifted(s).rem - d, quot |-> shifted(s).quot + 1]
        BY <4>2 DEF divideTurn
      <4>4. shifted(s).rem - d = 2 * r + bit - d
        BY <1>0, <1>2, <4>1
      <4>5. shifted(s).quot + 1 = 2 * x + 1
        BY <4>1
      <4> QED BY <4>3, <4>4, <4>5, Zenon
    <3> QED BY <3>1, <3>2
  <2>2. a = ((2 * q + 1) * d + (2 * r + bit - d)) * u + lo2
    <3>1. (2 * q + 1) * d + (2 * r + bit - d) = q * 2 * d + (2 * r + bit)
      BY <1>0, <1>2
    <3> QED BY <1>10, <3>1
  <2>3. 2 * q + 1 \in 0 .. 2 * p - 1 /\ 2 * r + bit - d \in 0 .. d - 1
    BY <1>0, <1>2, <1>13
  <2> QED BY <1>2, <2>1, <2>2, <2>3
<1> QED BY <1>12, <1>13

\* The loop divides.
LEMMA Divides ==
  ASSUME NEW a \in 0 .. Limit - 1, NEW d \in 1 .. Limit - 1
  PROVE  divu(a, d) = a \div d
<1> DEFINE UpTo(k) == Divided(a, d, pow2[k], pow2[RegBits - k], divided(a, d)[k])
<1> DEFINE n == RegBits
           S == {k \in 0 .. n : UpTo(k)}
<1>0. n \in Nat /\ d \in Nat \ {0} /\ a \in Nat
  BY RegAssumption, Words
<1>1. 0 \in S
  <2>1. pow2[0] = 1 /\ pow2[n - 0] = Limit
    BY <1>0, Power DEF Limit
  <2>2. a = (0 * d + 0) * pow2[n - 0] + a
    BY <1>0, <2>1, Words
  <2>3. divided(a, d)[0] = [rem |-> 0, quot |-> a * pow2[0] + 0]
    BY <1>0, <2>1, DividedUnfold
  <2>4. 0 \in 0 .. pow2[0] - 1 /\ 0 \in 0 .. d - 1 /\ a \in 0 .. pow2[n - 0] - 1 /\ 0 \in 0 .. n
    BY <1>0, <2>1
  <2>5. UpTo(0)
    BY <2>2, <2>3, <2>4 DEF Divided
  <2> QED BY <2>4, <2>5
<1>2. ASSUME NEW k \in 0 .. n - 1, k \in S PROVE k + 1 \in S
  <2> DEFINE p == pow2[k]
             u == pow2[n - (k + 1)]
  <2>1. k \in Nat /\ n - (k + 1) \in Nat /\ (n - (k + 1)) + 1 = n - k /\ k + 1 \in 0 .. n
        /\ k + (n - (k + 1)) = n - 1
    BY <1>0
  <2>2. p \in Nat \ {0} /\ u \in Nat \ {0} /\ pow2[k + 1] = 2 * p /\ pow2[n - k] = 2 * u
    BY <2>1, Power, PowerType
  <2>3. Splits(p, u)
    BY <2>1, PowerSum DEF Top, Splits
  <2>4. Divided(a, d, p, pow2[n - k], divided(a, d)[k])
    BY <1>2
  <2>5. divided(a, d)[k + 1] = divideTurn(divided(a, d)[k], d)
    <3>1. \A i \in 0 .. RegBits - 1 : divided(a, d)[i + 1] = divideTurn(divided(a, d)[i], d)
      BY DividedUnfold
    <3> QED BY <3>1
  <2> HIDE DEF p, u
  <2>6. Divided(a, d, 2 * p, u, divideTurn(divided(a, d)[k], d))
    BY <2>2, <2>3, <2>4, DivideStep
  <2>7. UpTo(k + 1)
    BY <2>2, <2>5, <2>6 DEF p, u
  <2> QED BY <2>1, <2>7
<1> HIDE DEF S
<1>3. n \in S
  <2>1. 0 .. n \subseteq S
    BY <1>0, <1>1, <1>2, Upto
  <2> QED BY <1>0, <2>1
<1>4. PICK q \in 0 .. pow2[n] - 1, r \in 0 .. d - 1, lo \in 0 .. pow2[n - n] - 1 :
        /\ a = (q * d + r) * pow2[n - n] + lo
        /\ divided(a, d)[n] = [rem |-> r, quot |-> lo * pow2[n] + q]
  BY <1>3 DEF S, Divided
<1>5. pow2[n - n] = 1
  BY <1>0, Power
<1>6. lo = 0 /\ q \in Nat /\ r \in Nat
  BY <1>4, <1>5
<1>7. a = q * d + r
  BY <1>0, <1>4, <1>5, <1>6
<1>8. divided(a, d)[n].quot = q
  <2>1. pow2[n] \in Nat
    BY <1>0, PowerType
  <2> QED BY <1>4, <1>6, <2>1
<1>9. a \div d = q
  <2>1. r \in 0 .. d - 1 /\ q \in Int /\ a \in Int
    BY <1>0, <1>6
  <2> QED BY <1>0, <1>7, <2>1, DivMod
<1> QED BY <1>8, <1>9 DEF divu
-----------------------------------------------------------------------------
\* Multiplication.
LEMMA MultipliedUnfold ==
  ASSUME NEW a, NEW b
  PROVE  /\ multiplied(a, b)[0] = [low |-> 0, high |-> 0, down |-> b, up |-> b]
         /\ \A k \in 0 .. RegBits - 1 : multiplied(a, b)[k + 1] = multiplyTurn(multiplied(a, b)[k], a)
<1> DEFINE first     == [low |-> 0, high |-> 0, down |-> b, up |-> b]
           F(s)      == CHOOSE next \in {multiplyTurn(t, a) : t \in {s}} : TRUE
           Def(s, k) == F(s)
           D         == CHOOSE g : g = [k \in 0 .. RegBits |-> IF k = 0 THEN first ELSE Def(g[k - 1], k)]
<1>0. RegBits \in Nat
  BY RegAssumption
<1>1. multiplied(a, b) = D
  BY DEF multiplied
<1>2. \A s : F(s) = multiplyTurn(s, a)
  OBVIOUS
<1> HIDE DEF F, first
<1>3. FiniteNatInductiveDefHypothesis(D, first, Def, 0, RegBits)
  BY DEF FiniteNatInductiveDefHypothesis
<1> HIDE DEF D, Def
<1>4. FiniteNatInductiveDefConclusion(D, first, Def, 0, RegBits)
  BY <1>0, <1>3, FiniteNatInductiveDef
<1>5. D = [k \in 0 .. RegBits |-> IF k = 0 THEN first ELSE Def(D[k - 1], k)]
  BY <1>4 DEF FiniteNatInductiveDefConclusion
<1>6. D[0] = first
  BY <1>0, <1>5
<1>7. ASSUME NEW k \in 0 .. RegBits - 1 PROVE D[k + 1] = multiplyTurn(D[k], a)
  <2>1. k + 1 \in 0 .. RegBits /\ k + 1 # 0 /\ (k + 1) - 1 = k
    BY <1>0
  <2>2. D[k + 1] = Def(D[k], k + 1)
    BY <1>5, <2>1
  <2> QED BY <1>2, <2>2 DEF Def
<1> QED BY <1>1, <1>6, <1>7 DEF first

\* State s of the loop, with p the power of the bits of b that are done and w of
\* those that are left: low is the product with the upper bits of b, down their
\* rest; high is the product with the lower bits m, up their rest.
LowPart(a, b, p, w, s) ==
  \E hi \in Nat, lo \in 0 .. w - 1, e \in Int, low \in 0 .. Limit - 1 :
     b = hi * w + lo /\ a * hi = e * Limit + low /\ s.low = low /\ s.down = lo * p

HighPart(a, b, p, s) ==
  \E up \in Nat, m \in 0 .. p - 1, high \in Nat, r \in 0 .. p - 1 :
     b = up * p + m /\ a * m = high * p + r /\ s.high = high /\ s.up = up

LEMMA LowStep ==
  ASSUME NEW p \in Nat \ {0}, NEW u \in Nat \ {0}, Top = p * u,
         NEW a \in 0 .. Limit - 1, NEW b \in Nat,
         NEW w, w = 2 * u, NEW s, LowPart(a, b, p, w, s)
  PROVE  LowPart(a, b, 2 * p, u, multiplyTurn(s, a))
<1>1. PICK hi \in Nat, lo \in 0 .. 2 * u - 1, e \in Int, low \in 0 .. Limit - 1 :
         b = hi * (2 * u) + lo /\ a * hi = e * Limit + low /\ s.low = low /\ s.down = lo * p
  BY DEF LowPart
<1>0. /\ Limit = 2 * Top /\ Limit \in Nat \ {0} /\ Top \in Nat \ {0}
      /\ p \in Nat /\ u \in Nat /\ lo \in Nat /\ low \in Nat /\ a \in Nat
  BY Words
<1> DEFINE bit == IF lo >= u THEN 1 ELSE 0
           lo2 == lo - bit * u
           hi2 == 2 * hi + bit
           y   == 2 * low + bit * a
           low2 == y % Limit
<1>2. bit \in 0 .. 1 /\ lo2 \in 0 .. u - 1 /\ lo = bit * u + lo2
  BY <1>0
<1>3. negative(s.down) <=> lo >= u
  <2>1. ASSUME lo >= u PROVE lo * p >= p * u
    BY <1>0, <2>1
  <2>2. ASSUME lo < u PROVE lo * p < p * u
    BY <1>0, <2>2
  <2>3. lo * p >= Top <=> lo >= u
    BY <1>0, <2>1, <2>2
  <2> QED BY <1>1, <2>3 DEF negative
<1>4. (IF negative(s.down) THEN a ELSE 0) = bit * a
  BY <1>0, <1>3
<1> HIDE DEF bit, lo2
<1>5. y \in Int /\ hi2 \in Nat
  BY <1>0, <1>2
<1>6. low2 \in 0 .. Limit - 1 /\ y = Limit * (y \div Limit) + low2 /\ y \div Limit \in Int
  BY <1>0, <1>5, Euclid
<1>7. multiplyTurn(s, a).low = low2
  BY <1>1, <1>4 DEF multiplyTurn, wrap
<1>8. multiplyTurn(s, a).down = lo2 * (2 * p)
  <2>1. 2 * (lo * p) = bit * Limit + lo2 * (2 * p)
    <3>1. 2 * ((bit * u + lo2) * p) = bit * (2 * (p * u)) + lo2 * (2 * p)
      BY <1>0, <1>2
    <3> QED BY <1>0, <1>2, <3>1
  <2>2. lo2 * (2 * p) \in 0 .. Limit - 1
    <3>1. lo2 * (2 * p) \in Nat /\ lo2 * (2 * p) <= (u - 1) * (2 * p)
      BY <1>0, <1>2
    <3>2. (u - 1) * (2 * p) = Limit - 2 * p
      BY <1>0
    <3> QED BY <1>0, <3>1, <3>2
  <2>3. PICK z \in Int : z = 2 * (lo * p)
    BY <1>0
  <2>4. PICK v \in 0 .. Limit - 1 : v = lo2 * (2 * p)
    BY <2>2
  <2>5. z = bit * Limit + v /\ bit \in Int /\ Limit \in Nat \ {0}
    BY <1>0, <1>2, <2>1, <2>3, <2>4
  <2>6. z % Limit = v
    BY <2>5, DivMod
  <2> QED BY <1>1, <2>3, <2>4, <2>6 DEF multiplyTurn, wrap
<1>9. b = hi2 * u + lo2
  <2>1. hi * (2 * u) + (bit * u + lo2) = (2 * hi + bit) * u + lo2
    BY <1>0, <1>2
  <2> QED BY <1>1, <1>2, <2>1
<1>10. a * hi2 = (2 * e + (y \div Limit)) * Limit + low2
  <2>1. a * (2 * hi + bit) = 2 * (a * hi) + bit * a
    BY <1>0, <1>2
  <2>2. 2 * (a * hi) = (2 * e) * Limit + 2 * low
    BY <1>0, <1>1
  <2>3. a * hi2 = (2 * e) * Limit + y
    BY <1>0, <1>2, <2>1, <2>2
  <2>4. PICK f \in Int, l \in 0 .. Limit - 1 : f = y \div Limit /\ l = low2
    BY <1>6
  <2>5. y = Limit * f + l
    BY <1>6, <2>4
  <2>6. a * hi2 = (2 * e) * Limit + (Limit * f + l)
    BY <2>3, <2>5
  <2>7. (2 * e) * Limit + (Limit * f + l) = (2 * e + f) * Limit + l
    BY <1>0
  <2> QED BY <2>4, <2>6, <2>7
<1>11. 2 * e + (y \div Limit) \in Int
  BY <1>6
<1> HIDE DEF hi2, low2, y
<1> QED BY <1>2, <1>5, <1>6, <1>7, <1>8, <1>9, <1>10, <1>11 DEF LowPart

LEMMA HighStep ==
  ASSUME NEW p \in Nat \ {0}, NEW a \in 0 .. Limit - 1, NEW b \in Nat, NEW s, HighPart(a, b, p, s)
  PROVE  HighPart(a, b, 2 * p, multiplyTurn(s, a))
<1>1. PICK up \in Nat, m \in 0 .. p - 1, high \in Nat, r \in 0 .. p - 1 :
         b = up * p + m /\ a * m = high * p + r /\ s.high = high /\ s.up = up
  BY DEF HighPart
<1>0. p \in Nat /\ m \in Nat /\ r \in Nat /\ a \in Nat
  BY Words
<1> DEFINE bit == up % 2
           up2 == up \div 2
           y   == high + bit * a
           high2 == y \div 2
           c   == y % 2
<1>2. bit \in 0 .. 1 /\ up2 \in Nat /\ up = 2 * up2 + bit
  OBVIOUS
<1>3. (IF s.up % 2 = 1 THEN a ELSE 0) = bit * a
  <2>1. s.up % 2 = bit
    BY <1>1
  <2> QED BY <1>0, <1>2, <2>1
<1> HIDE DEF bit, up2
<1>4. y \in Nat
  BY <1>0, <1>2
<1> HIDE DEF y
<1>5. high2 \in Nat /\ c \in 0 .. 1 /\ y = 2 * high2 + c
  BY <1>4
<1> HIDE DEF high2, c
<1>6. multiplyTurn(s, a).high = high2
  BY <1>1, <1>3 DEF multiplyTurn, high2, y
<1>7. multiplyTurn(s, a).up = up2
  BY <1>1 DEF multiplyTurn, up2
<1>8. b = up2 * (2 * p) + (bit * p + m)
  <2>1. (2 * up2 + bit) * p + m = up2 * (2 * p) + (bit * p + m)
    BY <1>0, <1>2
  <2> QED BY <1>1, <1>2, <2>1
<1>9. a * (bit * p + m) = high2 * (2 * p) + (c * p + r)
  <2>1. a * (bit * p + m) = (bit * a) * p + a * m
    BY <1>0, <1>2
  <2>2. (bit * a) * p + (high * p + r) = (high + bit * a) * p + r
    BY <1>0, <1>2
  <2>3. (2 * high2 + c) * p + r = high2 * (2 * p) + (c * p + r)
    BY <1>0, <1>5
  <2>4. a * (bit * p + m) = y * p + r
    BY <1>1, <2>1, <2>2 DEF y
  <2> QED BY <1>5, <2>3, <2>4
<1>10. bit * p + m \in 0 .. 2 * p - 1 /\ c * p + r \in 0 .. 2 * p - 1
  BY <1>0, <1>2, <1>5
<1> QED BY <1>2, <1>5, <1>6, <1>7, <1>8, <1>9, <1>10 DEF HighPart

\* The loop multiplies.
LEMMA Multiplies ==
  ASSUME NEW a \in 0 .. Limit - 1, NEW b \in 0 .. Limit - 1
  PROVE  product(a, b).low = (a * b) % Limit /\ product(a, b).high = (a * b) \div Limit
<1> DEFINE n == RegBits
           UpTo(k) == /\ LowPart(a, b, pow2[k], pow2[n - k], multiplied(a, b)[k])
                      /\ HighPart(a, b, pow2[k], multiplied(a, b)[k])
           S == {k \in 0 .. n : UpTo(k)}
<1>0. n \in Nat /\ a \in Nat /\ b \in Nat /\ Limit \in Nat \ {0} /\ a * b \in Nat
  BY RegAssumption, Words
<1>1. 0 \in S
  <2> DEFINE s == multiplied(a, b)[0]
  <2>1. pow2[0] = 1 /\ pow2[n - 0] = Limit /\ 0 \in 0 .. n
    BY <1>0, Power DEF Limit
  <2>2. s.low = 0 /\ s.high = 0 /\ s.down = b * 1 /\ s.up = b
    <3>1. s = [low |-> 0, high |-> 0, down |-> b, up |-> b]
      BY MultipliedUnfold
    <3>2. b * 1 = b
      BY <1>0
    <3> QED BY <3>1, <3>2
  <2> HIDE DEF s
  <2>3. LowPart(a, b, 1, Limit, s)
    <3>1. b = 0 * Limit + b /\ a * 0 = 0 * Limit + 0 /\ 0 \in 0 .. Limit - 1 /\ 0 \in Nat /\ 0 \in Int
      BY <1>0
    <3> QED BY <2>2, <3>1 DEF LowPart
  <2>4. HighPart(a, b, 1, s)
    <3>1. b = b * 1 + 0 /\ a * 0 = 0 * 1 + 0 /\ 0 \in 0 .. 1 - 1 /\ 0 \in Nat
      BY <1>0
    <3> QED BY <1>0, <2>2, <3>1 DEF HighPart
  <2> QED BY <2>1, <2>3, <2>4 DEF s
<1>2. ASSUME NEW k \in 0 .. n - 1, k \in S PROVE k + 1 \in S
  <2> DEFINE p == pow2[k]
             u == pow2[n - (k + 1)]
  <2>1. k \in Nat /\ n - (k + 1) \in Nat /\ (n - (k + 1)) + 1 = n - k /\ k + 1 \in 0 .. n
        /\ k + (n - (k + 1)) = n - 1
    BY <1>0
  <2>2. p \in Nat \ {0} /\ u \in Nat \ {0} /\ pow2[k + 1] = 2 * p /\ pow2[n - k] = 2 * u
    BY <2>1, Power, PowerType
  <2>3. Top = p * u
    BY <2>1, PowerSum DEF Top
  <2>4. LowPart(a, b, p, pow2[n - k], multiplied(a, b)[k]) /\ HighPart(a, b, p, multiplied(a, b)[k])
    BY <1>2
  <2>5. multiplied(a, b)[k + 1] = multiplyTurn(multiplied(a, b)[k], a)
    BY MultipliedUnfold
  <2> HIDE DEF p, u
  <2>6. LowPart(a, b, 2 * p, u, multiplyTurn(multiplied(a, b)[k], a))
    BY <1>0, <2>2, <2>3, <2>4, LowStep
  <2>7. HighPart(a, b, 2 * p, multiplyTurn(multiplied(a, b)[k], a))
    BY <1>0, <2>2, <2>4, HighStep
  <2>8. UpTo(k + 1)
    BY <2>2, <2>5, <2>6, <2>7 DEF p, u
  <2> QED BY <2>1, <2>8
<1> HIDE DEF S
<1>3. n \in S
  <2>1. 0 .. n \subseteq S
    BY <1>0, <1>1, <1>2, Upto
  <2> QED BY <1>0, <2>1
<1> DEFINE s == product(a, b)
<1>4. LowPart(a, b, Limit, 1, s) /\ HighPart(a, b, Limit, s)
  <2>1. pow2[n - n] = 1
    BY <1>0, Power
  <2> QED BY <1>3, <2>1 DEF S, product, Limit
<1>5. s.low = (a * b) % Limit
  <2>1. PICK hi \in Nat, lo \in 0 .. 1 - 1, e \in Int, low \in 0 .. Limit - 1 :
           b = hi * 1 + lo /\ a * hi = e * Limit + low /\ s.low = low
    BY <1>4 DEF LowPart
  <2>2. b = hi
    BY <2>1
  <2>3. PICK x \in Int : x = a * b
    BY <1>0
  <2>4. x = e * Limit + low
    BY <2>1, <2>2, <2>3
  <2>5. x % Limit = low
    BY <1>0, <2>4, DivMod
  <2> QED BY <2>1, <2>3, <2>5
<1>6. s.high = (a * b) \div Limit
  <2>1. PICK up \in Nat, m \in 0 .. Limit - 1, high \in Nat, r \in 0 .. Limit - 1 :
           b = up * Limit + m /\ a * m = high * Limit + r /\ s.high = high
    BY <1>4 DEF HighPart
  <2>2. up = 0
    <3>1. CASE up >= 1
      <4>1. up * Limit >= Limit
        BY <1>0, <3>1
      <4> QED BY <1>0, <2>1, <4>1
    <3> QED BY <3>1
  <2>3. b = m
    BY <1>0, <2>1, <2>2
  <2>4. PICK x \in Int : x = a * b
    BY <1>0
  <2>5. x = high * Limit + r /\ high \in Int
    BY <2>1, <2>3, <2>4
  <2>6. x \div Limit = high
    BY <1>0, <2>5, DivMod
  <2> QED BY <2>1, <2>4, <2>6
<1> QED BY <1>5, <1>6
-----------------------------------------------------------------------------
\* The results of the instructions.
LEMMA Shift ==
  ASSUME NEW d \in Nat \ {0}, NEW x \in Int, NEW k \in Int
  PROVE  (x - k * d) \div d = (x \div d) - k /\ (x - k * d) % d = x % d
<1>1. x = (x \div d) * d + (x % d) /\ x \div d \in Int /\ x % d \in 0 .. d - 1
  BY Euclid
<1>2. PICK q \in Int, r \in 0 .. d - 1 : q = x \div d /\ r = x % d
  BY <1>1
<1>3. PICK y \in Int : y = x - k * d
  OBVIOUS
<1>4. y = (q - k) * d + r
  BY <1>1, <1>2, <1>3
<1>5. q - k \in Int
  OBVIOUS
<1>6. y \div d = q - k /\ y % d = r
  BY <1>4, <1>5, DivMod
<1> QED BY <1>2, <1>3, <1>6

LEMMA WordOf ==
  ASSUME NEW x \in Int, NEW k \in Int
  PROVE  wrap(x - k * Limit) = wrap(x) /\ wrap(wrap(x) - k) = wrap(x - k)
<1>1. Limit \in Nat \ {0}
  BY Words
<1>2. wrap(x - k * Limit) = wrap(x)
  BY <1>1, Shift DEF wrap
<1>3. PICK q \in Int, r \in 0 .. Limit - 1 : q = x \div Limit /\ r = x % Limit /\ x = Limit * q + r
  BY <1>1, Euclid
<1>4. r - k \in Int /\ x - k \in Int /\ r - k = (x - k) - q * Limit
  BY <1>1, <1>3
<1>5. PICK y \in Int : y = x - k
  BY <1>4
<1>6. (y - q * Limit) % Limit = y % Limit
  BY <1>1, Shift
<1>7. (r - k) % Limit = (x - k) % Limit
  BY <1>4, <1>5, <1>6
<1> QED BY <1>2, <1>3, <1>7 DEF wrap

\* Signs.
LEMMA Signs ==
  ASSUME NEW v \in 0 .. Limit - 1
  PROVE  /\ signed(v) \in Int
         /\ signed(v) < 0 <=> negative(v)
         /\ signed(v) = v - (IF negative(v) THEN 1 ELSE 0) * Limit
         /\ magnitude(v) = abs(signed(v))
         /\ magnitude(v) \in 0 .. Top
         /\ v # 0 => magnitude(v) # 0
<1>1. Limit \in Nat \ {0} /\ Top \in Nat \ {0} /\ Limit = 2 * Top /\ v \in Nat
  BY Words
<1>2. CASE v < Top
  BY <1>1, <1>2 DEF signed, negative, magnitude, abs
<1>3. CASE v >= Top
  <2>1. signed(v) = v - Limit /\ negative(v) /\ abs(signed(v)) = Limit - v
    BY <1>1, <1>3 DEF signed, negative, abs
  <2>2. PICK y \in Int : y = -v
    BY <1>1
  <2>3. y = (-1) * Limit + (Limit - v) /\ Limit - v \in 0 .. Limit - 1 /\ -1 \in Int
    BY <1>1, <1>3, <2>2
  <2>4. y % Limit = Limit - v
    BY <1>1, <2>3, DivMod
  <2>5. magnitude(v) = Limit - v
    BY <2>1, <2>2, <2>4 DEF magnitude, negated, wrap
  <2> QED BY <1>1, <1>3, <2>1, <2>5
<1> QED BY <1>1, <1>2, <1>3

\* A division of the code is that of the instruction set.
LEMMA DivExact ==
  ASSUME NEW a \in 0 .. Limit - 1, NEW b \in 1 .. Limit - 1
  PROVE  divu(a, b) = Exact("divu", a, b) /\ div(a, b) = Exact("div", a, b)
<1>0. Limit \in Nat \ {0} /\ Top \in Nat \ {0} /\ Limit = 2 * Top /\ b \in 0 .. Limit - 1 /\ b # 0
  BY Words
<1>1. divu(a, b) = Exact("divu", a, b)
  BY Divides DEF Exact
<1> DEFINE ma == magnitude(a)
           mb == magnitude(b)
<1>2. ma \in 0 .. Limit - 1 /\ ma <= Top /\ mb \in 1 .. Limit - 1
  <2>1. ma \in 0 .. Top /\ mb \in 0 .. Top /\ mb # 0
    BY <1>0, Signs
  <2> QED BY <1>0, <2>1
<1>3. ma = abs(signed(a)) /\ mb = abs(signed(b))
  BY <1>0, Signs
<1> HIDE DEF ma, mb
<1>4. divu(ma, mb) = ma \div mb
  BY <1>2, Divides
<1>5. PICK q \in 0 .. Top : q = ma \div mb
  <2>1. ma \in Int /\ mb \in Nat \ {0}
    BY <1>0, <1>2
  <2>2. ma \div mb \in Int /\ ma % mb \in 0 .. mb - 1 /\ ma = mb * (ma \div mb) + (ma % mb)
    BY <2>1, Euclid
  <2>3. PICK x \in Int, r \in 0 .. mb - 1 : x = ma \div mb /\ r = ma % mb
    BY <2>2
  <2>4. ma = mb * x + r /\ r \in Nat /\ r < mb /\ mb >= 1
    BY <1>0, <1>2, <2>2, <2>3
  <2>5. x >= 0
    <3>1. CASE x < 0
      <4>1. mb * x <= -mb
        BY <2>1, <2>4, <3>1
      <4> QED BY <1>0, <1>2, <2>1, <2>4, <4>1
    <3> QED BY <3>1
  <2>6. mb * x >= x
    BY <2>1, <2>4, <2>5
  <2>7. x <= Top
    BY <1>0, <1>2, <2>1, <2>4, <2>6
  <2> QED BY <1>0, <2>3, <2>5, <2>7
<1>6. (negative(a) = negative(b)) <=> ((signed(a) < 0) = (signed(b) < 0))
  <2>1. (signed(a) < 0 <=> negative(a)) /\ (signed(b) < 0 <=> negative(b))
    BY <1>0, Signs
  <2> QED BY <2>1 DEF negative
<1>7. wrap(q) = q
  BY <1>0, <1>5, Words
<1>8. div(a, b) = IF negative(a) = negative(b) THEN q ELSE wrap(-q)
  BY <1>4, <1>5 DEF div, negated, ma, mb
<1>9. Exact("div", a, b) = wrap(IF (signed(a) < 0) = (signed(b) < 0) THEN q ELSE -q)
  BY <1>3, <1>5 DEF Exact, wrap
<1>10. div(a, b) = Exact("div", a, b)
  <2>1. CASE negative(a) = negative(b)
    BY <1>6, <1>7, <1>8, <1>9, <2>1
  <2>2. CASE negative(a) # negative(b)
    BY <1>6, <1>8, <1>9, <2>2
  <2> QED BY <2>1, <2>2
<1> QED BY <1>1, <1>10
LEMMA MulExact ==
  ASSUME NEW a \in 0 .. Limit - 1, NEW b \in 0 .. Limit - 1
  PROVE  /\ product(a, b).low = Exact("mul", a, b)
         /\ product(a, b).high = Exact("mulxuu", a, b)
         /\ mulxsu(a, b) = Exact("mulxsu", a, b)
         /\ wrap(mulxsu(a, b) - (IF negative(b) THEN a ELSE 0)) = Exact("mulxss", a, b)
<1> DEFINE na == IF negative(a) THEN 1 ELSE 0
           nb == IF negative(b) THEN 1 ELSE 0
           h  == (a * b) \div Limit
<1>0. Limit \in Nat \ {0} /\ a \in Nat /\ b \in Nat /\ na \in 0 .. 1 /\ nb \in 0 .. 1 /\ a * b \in Nat
  BY Words
<1>1. product(a, b).low = (a * b) % Limit /\ product(a, b).high = h
  BY Multiplies
<1>2. h \in 0 .. Limit - 1
  <2>1. PICK x \in Nat : x = a * b
    BY <1>0
  <2>2. x \div Limit \in Int /\ x % Limit \in 0 .. Limit - 1 /\ x = Limit * (x \div Limit) + (x % Limit)
    BY <1>0, Euclid
  <2>3. PICK y \in Int, r \in 0 .. Limit - 1 : y = x \div Limit /\ r = x % Limit
    BY <2>2
  <2>4. x = Limit * y + r
    BY <2>2, <2>3
  <2>5. x <= (Limit - 1) * (Limit - 1)
    <3>1. a * b <= (Limit - 1) * b
      BY <1>0
    <3>2. (Limit - 1) * b <= (Limit - 1) * (Limit - 1)
      BY <1>0
    <3> QED BY <1>0, <2>1, <3>1, <3>2
  <2>6. y >= 0
    <3>1. CASE y < 0
      <4>1. Limit * y <= -Limit
        BY <1>0, <3>1
      <4> QED BY <1>0, <2>1, <2>4, <4>1
    <3> QED BY <3>1
  <2>7. y < Limit
    <3>1. CASE y >= Limit
      <4>1. Limit * y >= Limit * Limit
        BY <1>0, <3>1
      <4>2. Limit * Limit > (Limit - 1) * (Limit - 1)
        BY <1>0
      <4> QED BY <1>0, <2>1, <2>4, <2>5, <4>1, <4>2
    <3> QED BY <1>0, <3>1
  <2> QED BY <1>0, <2>1, <2>3, <2>6, <2>7
<1>3. wrap(h) = h
  BY <1>2, Words
<1>4. product(a, b).low = Exact("mul", a, b)
  BY <1>1 DEF Exact
<1>5. product(a, b).high = Exact("mulxuu", a, b)
  BY <1>1, <1>3 DEF Exact, wrap
<1>6. signed(a) = a - na * Limit /\ signed(b) = b - nb * Limit /\ signed(a) \in Int /\ signed(b) \in Int
  BY Signs
<1>7. (IF negative(a) THEN b ELSE 0) = na * b /\ (IF negative(b) THEN a ELSE 0) = nb * a
  BY <1>0
<1> HIDE DEF na, nb
<1>8. mulxsu(a, b) = wrap(h - na * b)
  BY <1>1, <1>7 DEF mulxsu
<1>9. na * b \in Int /\ nb * a \in Int
  BY <1>0
<1>10. (signed(a) * b) \div Limit = h - na * b
  <2>1. signed(a) * b = a * b - (na * b) * Limit
    BY <1>0, <1>6
  <2>2. PICK x \in Int, k \in Int : x = a * b /\ k = na * b
    BY <1>0, <1>9
  <2>3. (x - k * Limit) \div Limit = (x \div Limit) - k
    BY <1>0, Shift
  <2> QED BY <2>1, <2>2, <2>3
<1>11. mulxsu(a, b) = Exact("mulxsu", a, b)
  BY <1>8, <1>10 DEF Exact, wrap
<1>12. (signed(a) * signed(b)) \div Limit = h - (na * b + nb * a - (na * nb) * Limit)
  <2>1. (a - na * Limit) * (b - nb * Limit)
          = a * b - (na * b) * Limit - (nb * a) * Limit + ((na * nb) * Limit) * Limit
    BY <1>0
  <2>2. PICK x \in Int, k \in Int, l \in Int, m \in Int :
          x = a * b /\ k = na * b /\ l = nb * a /\ m = (na * nb) * Limit
    BY <1>0, <1>9
  <2>3. x - k * Limit - l * Limit + m * Limit = x - (k + l - m) * Limit
    BY <1>0
  <2>4. (x - (k + l - m) * Limit) \div Limit = (x \div Limit) - (k + l - m)
    <3>1. PICK g \in Int : g = k + l - m
      OBVIOUS
    <3>2. (x - g * Limit) \div Limit = (x \div Limit) - g
      BY <1>0, Shift
    <3> QED BY <3>1, <3>2
  <2> QED BY <1>6, <2>1, <2>2, <2>3, <2>4
<1> HIDE DEF h
<1>13. wrap(mulxsu(a, b) - nb * a) = Exact("mulxss", a, b)
  <2>1. PICK k \in Int, l \in Int, g \in Int : k = na * b /\ l = nb * a /\ g = na * nb
    BY <1>0, <1>9
  <2>0. h \in Int /\ h - k \in Int
    BY <1>0, <1>2
  <2>2. PICK x \in Int : x = h - k
    BY <2>0
  <2>3. PICK y \in Int : y = x - l
    OBVIOUS
  <2>4. wrap(wrap(x) - l) = wrap(y)
    BY <2>3, WordOf
  <2>5. -g \in Int
    BY <2>1
  <2>6. wrap(y - (-g) * Limit) = wrap(y)
    BY <2>5, WordOf
  <2>7. h - (k + l - g * Limit) = y - (-g) * Limit
    <3>1. PICK e \in Int : e = g * Limit
      BY <1>0
    <3>2. (-g) * Limit = -e
      BY <1>0, <3>1
    <3> QED BY <2>0, <2>2, <2>3, <3>1, <3>2
  <2>8. Exact("mulxss", a, b) = wrap(h - (k + l - g * Limit))
    BY <1>12, <2>1 DEF Exact, wrap
  <2>9. mulxsu(a, b) = wrap(x)
    BY <1>8, <2>1, <2>2
  <2> QED BY <2>1, <2>4, <2>6, <2>7, <2>8, <2>9
<1> QED BY <1>4, <1>5, <1>7, <1>11, <1>13

LEMMA ResultExact ==
  ASSUME NEW op \in Emulated, NEW a \in 0 .. Limit - 1, NEW b \in 0 .. Limit - 1,
         ~Undefined(op, a, b)
  PROVE  Result(op, a, b) = Exact(op, a, b)
<1>1. op \in {"div", "divu"} => b \in 1 .. Limit - 1
  BY Words DEF Undefined
<1>2. CASE op = "div"
  BY <1>1, <1>2, DivExact DEF Result
<1>3. CASE op = "divu"
  BY <1>1, <1>3, DivExact DEF Result
<1>4. CASE op \in {"mul", "muli"}
  <2>1. Result(op, a, b) = product(a, b).low
    BY <1>4 DEF Result
  <2>2. Exact(op, a, b) = Exact("mul", a, b)
    BY <1>4 DEF Exact
  <2> QED BY <2>1, <2>2, MulExact
<1>5. CASE op = "mulxuu"
  BY <1>5, MulExact DEF Result
<1>6. CASE op = "mulxsu"
  BY <1>6, MulExact DEF Result
<1>7. CASE op = "mulxss"
  BY <1>7, MulExact DEF Result
<1> QED BY <1>2, <1>3, <1>4, <1>5, <1>6, <1>7 DEF Emulated

\* What an operand of an instruction is.
LEMMA Operands ==
  ASSUME NEW regs \in Registers, NEW r \in Register
  PROVE  /\ Frame(regs) \in [Register -> Int]
         /\ Frame(regs)[r] = (IF r = "sp" THEN regs[r] - 136 ELSE regs[r]) % Limit
         /\ Frame(regs)[r] \in 0 .. Limit - 1
         /\ r # "sp" => Frame(regs)[r] = regs[r]
<1>1. regs \in [Register -> 0 .. Limit - 1] /\ regs[r] \in 0 .. Limit - 1 /\ regs["sp"] \in 0 .. Limit - 1
  BY DEF Registers, Register
<1>2. wrap(regs[r]) = regs[r] /\ wrap(regs["sp"] - 136) \in 0 .. Limit - 1
  <2>1. regs["sp"] - 136 \in Int
    BY <1>1
  <2> QED BY <1>1, <2>1, Words
<1>3. Frame(regs) = [regs EXCEPT !["sp"] = wrap(regs["sp"] - 136)]
  BY DEF Frame
<1>4. 0 .. Limit - 1 \subseteq Int
  BY Words
<1> QED BY <1>1, <1>2, <1>3, <1>4 DEF wrap

LEMMA Immediate ==
  ASSUME NEW inst \in Instructions
  PROVE  /\ immediate(inst) = IF inst.imm < pow2[RegBits \div 2] \div 2 THEN inst.imm
                              ELSE (inst.imm - pow2[RegBits \div 2]) % Limit
         /\ immediate(inst) \in 0 .. Limit - 1
<1> DEFINE m == RegBits \div 2
<1>1. m \in Nat /\ m - 1 \in Nat /\ (m - 1) + 1 = m /\ RegBits - m \in Nat /\ m + (RegBits - m) = RegBits
  BY RegAssumption
<1> HIDE DEF m
<1>2. PICK half \in Nat \ {0}, quarter \in Nat \ {0}, rest \in Nat \ {0} :
        half = pow2[m] /\ quarter = pow2[m - 1] /\ rest = pow2[RegBits - m]
  BY <1>1, PowerType
<1>3. half = 2 * quarter /\ Limit = half * rest
  <2>1. pow2[(m - 1) + 1] = 2 * pow2[m - 1]
    BY <1>1, Power
  <2>2. pow2[m + (RegBits - m)] = pow2[m] * pow2[RegBits - m]
    BY <1>1, PowerSum
  <2> QED BY <1>1, <1>2, <2>1, <2>2 DEF Limit
<1>4. half <= Limit /\ half \div 2 = quarter
  BY <1>2, <1>3
<1>5. inst.imm \in 0 .. half - 1
  BY <1>2 DEF Instructions, m
<1>6. immediate(inst) = wrap(IF inst.imm >= quarter THEN inst.imm - half ELSE inst.imm)
  BY <1>2 DEF immediate, m
<1>7. CASE inst.imm >= quarter
  <2>1. inst.imm - half \in Int /\ ~(inst.imm < half \div 2)
    BY <1>2, <1>4, <1>5, <1>7
  <2>2. immediate(inst) = wrap(inst.imm - half)
    BY <1>6, <1>7
  <2>3. wrap(inst.imm - half) \in 0 .. Limit - 1
    BY <2>1, Words
  <2> QED BY <1>2, <2>1, <2>2, <2>3 DEF wrap, m
<1>8. CASE inst.imm < quarter
  BY <1>2, <1>4, <1>5, <1>6, <1>8, Words DEF m
<1> QED BY <1>2, <1>5, <1>7, <1>8
-----------------------------------------------------------------------------
\* Every call returns what its function does.
JobOK ==
    \/ job \in Prints \cup Clocks \cup Exceptions \cup Resets
    \/ job \in [call : {"alt_dcache_flush", "alt_dcache_flush_no_writeback", "alt_icache_flush"},
                start : Address, len : Address]
    \/ job \in [call : {"alt_dcache_flush_all", "alt_icache_flush_all"}]
    \/ job \in [call : {"crt0_initi", "crt0_initd"}, ecc : BOOLEAN]
    \/ job \in [call : {"sleep"}, us : 0 .. WordLimit - 1]

Clock(j) ==
    LET reset == ALT_SETTIMEOFDAY(j.time, j.set, j.rate)
    IN  IF reset = NoClock THEN NoClock ELSE ALT_GETTIMEOFDAY(reset[1], j.read, j.rate)

Returned ==
    done =>
      /\ job.call = "alt_dcache_flush" => out = alt_dcache_flush(job.start, job.len)
      /\ job.call = "alt_dcache_flush_no_writeback" => out = alt_dcache_flush_no_writeback(job.start, job.len)
      /\ job.call = "alt_icache_flush" => out = alt_icache_flush(job.start, job.len)
      /\ job.call = "alt_dcache_flush_all" => out = alt_dcache_flush_all
      /\ job.call = "alt_icache_flush_all" => out = alt_icache_flush_all
      /\ job.call = "crt0_initi" => out = crt0_initi
      /\ job.call = "crt0_initd" => out = crt0_initd(job.ecc)
      /\ job.call = "reset" => out = _start(MemoryAt(job), job.size, job.logging)
      /\ job.call = "clock" => out = Clock(job)
      /\ job.call = "sleep" => out = ALT_USLEEP(job.us)
      /\ job.call = "exception" => out = alt_exception(job)
      /\ job.call = "print" => out = alt_log_private_printf(job.format, <<job.first.arg, job.second.arg>>)
      /\ job.call = "hex" => out = alt_printf(job.format, job.args)
      /\ job.call = "echo" => out = alt_log_write(job.text)

\* Nothing is known of a call but who makes it and what it returns.
LEMMA CallsReturn == SpecCall => [](JobOK /\ Returned)
<1>1. InitCall => JobOK /\ Returned
  BY DEF InitCall, JobOK, Returned
<1>2. JobOK /\ [NextCall]_callVars => JobOK'
  <2> SUFFICES ASSUME JobOK, [NextCall]_callVars PROVE job' = job
    BY DEF JobOK
  <2> QED BY DEF NextCall, callVars, Does, PrintLog, PrintHex, Echo, FlushData, Discard, FlushCode,
             FlushAllData, FlushAllCode, InitCode, InitData, Reset, SetAndRead, Sleep, Serve
<1>3. Returned /\ [NextCall]_callVars => Returned'
  <2> SUFFICES ASSUME Returned, [NextCall]_callVars PROVE Returned'
    OBVIOUS
  <2> USE DEF Does
  <2>1. CASE PrintLog
    BY <2>1 DEF PrintLog, Returned
  <2>2. CASE PrintHex
    BY <2>2 DEF PrintHex, Returned
  <2>3. CASE Echo
    BY <2>3 DEF Echo, Returned
  <2>4. CASE FlushData
    BY <2>4 DEF FlushData, Returned
  <2>5. CASE Discard
    BY <2>5 DEF Discard, Returned
  <2>6. CASE FlushCode
    BY <2>6 DEF FlushCode, Returned
  <2>7. CASE FlushAllData
    BY <2>7 DEF FlushAllData, Returned
  <2>8. CASE FlushAllCode
    BY <2>8 DEF FlushAllCode, Returned
  <2>9. CASE InitCode
    BY <2>9 DEF InitCode, Returned
  <2>10. CASE InitData
    BY <2>10 DEF InitData, Returned
  <2>11. CASE Reset
    BY <2>11 DEF Reset, Returned
  <2>12. CASE SetAndRead
    BY <2>12 DEF SetAndRead, Returned, Clock
  <2>13. CASE Sleep
    BY <2>13 DEF Sleep, Returned
  <2>14. CASE Serve
    BY <2>14 DEF Serve, Returned
  <2>15. CASE UNCHANGED callVars
    BY <2>15 DEF callVars, Returned
  <2> QED BY <2>1, <2>2, <2>3, <2>4, <2>5, <2>6, <2>7, <2>8, <2>9, <2>10, <2>11, <2>12, <2>13, <2>14,
             <2>15 DEF NextCall
<1> QED BY <1>1, <1>2, <1>3, PTL DEF SpecCall

LEMMA WhoCalls ==
  ASSUME JobOK
  PROVE  /\ job.call = "exception" => job \in Exceptions
         /\ job.call = "clock" => job \in Clocks
         /\ job.call = "reset" => job \in Resets
         /\ job.call = "sleep" => job.us \in 0 .. WordLimit - 1
         /\ job.call \in {"alt_dcache_flush", "alt_dcache_flush_no_writeback", "alt_icache_flush"}
              => job.start \in Address /\ job.len \in Address
         /\ job.call \in {"crt0_initi", "crt0_initd"} => job.ecc \in BOOLEAN
         /\ job.call \in {"print", "hex", "echo"} => job \in Prints
<1>1. job \in Prints => job.call \in {"print", "hex", "echo"}
  BY CallAssumption
<1>2. job \in Clocks => job.call = "clock"
  BY CallAssumption
<1>3. job \in Exceptions => job.call = "exception"
  BY CallAssumption
<1>4. job \in Resets => job.call = "reset"
  BY CallAssumption
<1> QED BY <1>1, <1>2, <1>3, <1>4 DEF JobOK

-----------------------------------------------------------------------------
\* Exceptions.
LEMMA EmulateRegisters ==
  ASSUME NEW inst \in Instructions, NEW regs \in Registers, NEW b, NEW r \in Register,
         b = IF inst.op = "muli" THEN immediate(inst) ELSE Frame(regs)[inst.b],
         NEW dest, dest = IF inst.op = "muli" THEN inst.b ELSE inst.c
  PROVE  /\ Emulate(inst, regs).resume = "next"
         /\ r # dest => Emulate(inst, regs).regs[r] = regs[r]
         /\ r \in {"zero", "gp", "sp"} => Emulate(inst, regs).regs[r] = regs[r]
         /\ r = dest /\ r \notin {"zero", "gp", "sp"}
              => Emulate(inst, regs).regs[r] = Result(inst.op, Frame(regs)[inst.a], b)
<1> DEFINE what == Result(inst.op, Frame(regs)[inst.a], b)
           stack == [Frame(regs) EXCEPT ![dest] = what]
           live == clobbered(regs)
<1>1. Emulate(inst, regs) = Exit(stack, [x \in Register |-> IF x \in EmulationSaved THEN stack[x] ELSE live[x]], "next")
  BY DEF Emulate
<1> HIDE DEF what
<1>2. Frame(regs) \in [Register -> Int] /\ (r # "sp" => Frame(regs)[r] = regs[r])
  BY Operands
<1>3. (r # dest => stack[r] = Frame(regs)[r]) /\ (r = dest => stack[r] = what)
  BY <1>2
<1>4. r \notin EntrySaved => live[r] = regs[r]
  BY DEF clobbered
<1> HIDE DEF stack, live
<1>5. Emulate(inst, regs).regs[r] =
        IF r \in EntrySaved \cup EmulationSaved THEN stack[r] ELSE live[r]
  BY <1>1 DEF Exit
<1>6. Emulate(inst, regs).resume = "next"
  BY <1>1 DEF Exit
<1>7. r \in EntrySaved \cup EmulationSaved <=> r \notin {"zero", "gp", "sp"}
  BY DEF Register, EntrySaved, EmulationSaved
<1>8. r \in {"zero", "gp", "sp"} => Emulate(inst, regs).regs[r] = regs[r]
  BY <1>4, <1>5, <1>7
<1>9. r \notin {"zero", "gp", "sp"} => Emulate(inst, regs).regs[r] = stack[r] /\ r # "sp"
  BY <1>5, <1>7
<1> QED BY <1>2, <1>3, <1>6, <1>8, <1>9 DEF what

\* Whatever handler is registered, an exception of another kind leaves the registers alone.
LEMMA Spared ==
  ASSUME NEW regs \in Registers, NEW resume
  PROVE  /\ Exit(regs, clobbered(regs), resume).regs = regs
         /\ Exit(regs, clobbered(regs), resume).resume = resume
<1>1. regs = [r \in Register |-> regs[r]]
  BY DEF Registers
<1>2. ASSUME NEW r \in Register
      PROVE  (IF r \in EntrySaved THEN regs[r] ELSE clobbered(regs)[r]) = regs[r]
  BY DEF clobbered
<1>3. [r \in Register |-> IF r \in EntrySaved THEN regs[r] ELSE clobbered(regs)[r]]
        = [r \in Register |-> regs[r]]
  BY <1>2
<1> QED BY <1>1, <1>3 DEF Exit

LEMMA EmulationCall ==
  ASSUME JobOK, Returned
  PROVE  EmulatesInstructions
<1> SUFFICES ASSUME done, job.call = "exception", out.resume # "break"
             PROVE  EmulatesInstructions
  BY DEF EmulatesInstructions
<1> DEFINE inst == job.inst
           regs == job.regs
           emulated == ~job.pending /\ job.linked /\ inst.op \in Emulated
           value(r) == (IF r = "sp" THEN regs[r] - 136 ELSE regs[r]) % Limit
           half == pow2[RegBits \div 2]
           a == value(inst.a)
           b == IF inst.op # "muli" THEN value(inst.b)
                ELSE IF inst.imm < half \div 2 THEN inst.imm ELSE (inst.imm - half) % Limit
           dest == IF inst.op = "muli" THEN inst.b ELSE inst.c
           again == job.pending \/ job.handler = "NIOS2_EXCEPTION_RETURN_REISSUE_INST"
<1>1. /\ job \in Exceptions /\ inst \in Instructions /\ regs \in Registers
      /\ job.pending \in BOOLEAN /\ job.linked \in BOOLEAN /\ job.handler \in Handler
  BY WhoCalls, CallAssumption
<1>2. out = alt_exception(job)
  BY DEF Returned
<1>3. inst.op \in Emulated \cup {"trap"} /\ inst.a \in Register /\ inst.b \in Register /\ inst.c \in Register
  BY <1>1 DEF Instructions
<1>4. DOMAIN regs = Register
  BY <1>1 DEF Registers
<1>5. CASE emulated
  <2> DEFINE operand == IF inst.op = "muli" THEN immediate(inst) ELSE Frame(regs)[inst.b]
  <2>1. out = Emulate(inst, regs)
    BY <1>2, <1>5 DEF alt_exception
  <2>2. Frame(regs)[inst.a] = a /\ a \in 0 .. Limit - 1
    BY <1>1, <1>3, Operands
  <2>3. operand = b /\ b \in 0 .. Limit - 1
    <3>1. CASE inst.op = "muli"
      BY <1>1, <3>1, Immediate
    <3>2. CASE inst.op # "muli"
      <4>1. operand = Frame(regs)[inst.b] /\ b = value(inst.b)
        BY <3>2
      <4>2. Frame(regs)[inst.b] = value(inst.b) /\ Frame(regs)[inst.b] \in 0 .. Limit - 1
        BY <1>1, <1>3, Operands
      <4> QED BY <4>1, <4>2
    <3> QED BY <3>1, <3>2
  <2> HIDE DEF a, b, operand
  <2>4. dest \in Register
    BY <1>3
  <2>5. out.resume = "next"
    BY <1>1, <2>1, <2>4, EmulateRegisters DEF operand
  <2>6. ASSUME NEW r \in Register
        PROVE  /\ r # dest => out.regs[r] = regs[r]
               /\ r \in {"zero", "gp", "sp"} => out.regs[r] = regs[r]
               /\ r = dest /\ r \notin {"zero", "gp", "sp"} => out.regs[r] = Result(inst.op, a, b)
    BY <1>1, <2>1, <2>2, <2>3, EmulateRegisters DEF operand
  <2>7. Undefined(inst.op, a, b) \/ Result(inst.op, a, b) = Exact(inst.op, a, b)
    BY <1>5, <2>2, <2>3, ResultExact
  <2>8. /\ \A r \in DOMAIN regs \ {dest} : out.regs[r] = regs[r]
        /\ IF dest \in {"zero", "gp", "sp"} THEN out.regs[dest] = regs[dest]
           ELSE Undefined(inst.op, a, b) \/ out.regs[dest] = Exact(inst.op, a, b)
    BY <1>4, <2>4, <2>6, <2>7
  <2> HIDE DEF dest
  <2> QED BY <1>5, <2>5, <2>8 DEF EmulatesInstructions, Emulated, a, b, dest
<1>6. CASE ~emulated
  <2>1. out.regs = regs /\ (out.resume = "this" <=> again)
    <3>1. CASE job.pending
      BY <1>1, <1>2, <3>1, Spared DEF alt_exception
    <3>2. CASE ~job.pending
      <4>1. out = Unknown(job.handler, regs)
        BY <1>2, <1>6, <3>2 DEF alt_exception
      <4>2. job.handler # "none"
        BY <4>1 DEF Unknown
      <4> QED BY <1>1, <3>2, <4>1, <4>2, Spared DEF Unknown, Handler
    <3> QED BY <1>1, <3>1, <3>2
  <2> QED BY <1>6, <2>1 DEF EmulatesInstructions, Emulated
<1> QED BY <1>5, <1>6

\* An instruction that is emulated has its effect and no other; any other exception
\* leaves the registers alone.  This is EmulatesInstructions for every register
\* width, instruction and content of the registers.
THEOREM EmulationExact == SpecCall => []EmulatesInstructions
<1>1. JobOK /\ Returned => EmulatesInstructions
  BY EmulationCall
<1> QED BY <1>1, CallsReturn, PTL
-----------------------------------------------------------------------------
\* Clocks and delays.
LEMMA Ticks ==
  ASSUME NEW rate \in Nat \ {0}, US % rate = 0, NEW n \in Nat
  PROVE  /\ US \div rate \in Nat
         /\ n * (US \div rate) = (n \div rate) * US + ((n * (US \div rate)) % US)
         /\ n \div rate \in Int
         /\ (n * (US \div rate)) % US \in 0 .. US - 1
<1>1. US \in Nat \ {0}
  BY TimeAssumption
<1>2. PICK q \in Int : q = US \div rate /\ US = rate * q
  BY <1>1, Euclid
<1>3. q \in Nat
  <2>1. CASE q < 0
    <3>1. rate * q <= -rate
      BY <2>1
    <3> QED BY <1>1, <1>2, <3>1
  <2> QED BY <2>1
<1>4. PICK h \in Int, l \in 0 .. rate - 1 : h = n \div rate /\ n = rate * h + l
  <2>1. n \div rate \in Int /\ n % rate \in 0 .. rate - 1 /\ n = rate * (n \div rate) + (n % rate)
    BY Euclid
  <2> QED BY <2>1
<1>5. l * q \in 0 .. US - 1
  <2>1. l * q >= 0
    BY <1>3
  <2>2. q >= 1
    <3>1. CASE q = 0
      BY <1>1, <1>2, <3>1
    <3> QED BY <1>3, <3>1
  <2>3. l * q <= (rate - 1) * q
    BY <1>3
  <2>4. (rate - 1) * q = US - q
    BY <1>2
  <2> QED BY <1>1, <1>3, <2>1, <2>2, <2>3, <2>4
<1>6. n * q = h * US + l * q
  <2>1. (rate * h + l) * q = h * (rate * q) + l * q
    BY <1>3
  <2> QED BY <1>2, <1>4, <2>1
<1>7. PICK x \in Int, r \in 0 .. US - 1 : x = n * q /\ r = l * q
  BY <1>5
<1>8. x % US = r
  BY <1>1, <1>6, <1>7, DivMod
<1> QED BY <1>2, <1>3, <1>4, <1>6, <1>7, <1>8

LEMMA ClockKept ==
  ASSUME NEW j \in Clocks
  PROVE  /\ Clock(j) = NoClock <=> j.rate = 0
         /\ j.rate # 0 /\ US % j.rate = 0 /\ j.set * (US \div j.rate) < WordLimit =>
              LET then == Micros(j.time) + (j.read - j.set) * (US \div j.rate)
              IN  Micros(Clock(j)[1]) = then /\ Clock(j)[1].usec \in 0 .. US - 1
<1>1. /\ j.rate \in Nat /\ j.set \in Nat /\ j.read \in Nat /\ j.set <= j.read
      /\ j.time = [sec |-> j.time.sec, usec |-> j.time.usec]
      /\ j.time.sec \in Nat /\ j.time.usec \in 0 .. US - 1
  BY CallAssumption
<1>2. US \in Nat \ {0} /\ WordLimit \in Nat
  BY TimeAssumption
<1>3. CASE j.rate = 0
  BY <1>3 DEF Clock, ALT_SETTIMEOFDAY
<1>4. CASE j.rate # 0
  <2> DEFINE q == US \div j.rate
             reset == Time(j.time.sec - (j.set \div j.rate),
                           j.time.usec - (((j.set * q) % WordLimit) % US))
             now == Time(reset.sec + (j.read \div j.rate), reset.usec + ((j.read * q) % US))
  <2>1. Clock(j) = <<Normal(now)>>
    <3>1. ALT_SETTIMEOFDAY(j.time, j.set, j.rate) = <<reset>>
      BY <1>4 DEF ALT_SETTIMEOFDAY, Answer
    <3> HIDE DEF reset
    <3>2. <<reset>> # NoClock /\ <<reset>>[1] = reset
      BY DEF NoClock
    <3>3. Clock(j) = ALT_GETTIMEOFDAY(reset, j.read, j.rate)
      BY <3>1, <3>2 DEF Clock
    <3> QED BY <1>4, <3>3 DEF ALT_GETTIMEOFDAY, Answer
  <2>2. Clock(j) # NoClock /\ Clock(j)[1] = Normal(now)
    BY <2>1 DEF NoClock
  <2>3. ASSUME US % j.rate = 0, j.set * q < WordLimit
        PROVE  /\ Micros(Normal(now)) = Micros(j.time) + (j.read - j.set) * q
               /\ Normal(now).usec \in 0 .. US - 1
    <3>1. q \in Nat /\ j.rate \in Nat \ {0}
      BY <1>1, <1>4, <2>3, Ticks
    <3>2. PICK s1 \in Int, s2 \in Int, u1 \in 0 .. US - 1, u2 \in 0 .. US - 1 :
             /\ s1 = j.set \div j.rate /\ s2 = j.read \div j.rate
             /\ u1 = (j.set * q) % US /\ u2 = (j.read * q) % US
             /\ j.set * q = s1 * US + u1 /\ j.read * q = s2 * US + u2
      <4>1. /\ j.set * q = (j.set \div j.rate) * US + ((j.set * q) % US)
            /\ j.set \div j.rate \in Int /\ (j.set * q) % US \in 0 .. US - 1
        BY <1>1, <1>4, <2>3, Ticks
      <4>2. /\ j.read * q = (j.read \div j.rate) * US + ((j.read * q) % US)
            /\ j.read \div j.rate \in Int /\ (j.read * q) % US \in 0 .. US - 1
        BY <1>1, <1>4, <2>3, Ticks
      <4> HIDE DEF q
      <4> QED BY <4>1, <4>2
    <3>3. (j.set * q) % WordLimit = j.set * q
      <4>1. PICK x \in Nat : x = j.set * q
        BY <1>1, <3>1
      <4>2. x % WordLimit = x
        BY <1>2, <2>3, <4>1
      <4> QED BY <4>1, <4>2
    <3> HIDE DEF q
    <3>4. now = [sec |-> j.time.sec - s1 + s2, usec |-> j.time.usec - u1 + u2]
      BY <3>2, <3>3 DEF Time
    <3> HIDE DEF now
    <3>5. PICK total \in Int : total = now.sec * US + now.usec
      BY <1>1, <1>2, <3>4
    <3>6. total = Micros(j.time) + (j.read - j.set) * q
      <4>1. (j.read - j.set) * q = j.read * q - j.set * q
        BY <1>1, <3>1
      <4>2. (j.time.sec - s1 + s2) * US = j.time.sec * US - s1 * US + s2 * US
        BY <1>1, <1>2
      <4>3. s1 * US \in Int /\ s2 * US \in Int /\ j.time.sec * US \in Int
        BY <1>1, <1>2
      <4>4. now.sec = j.time.sec - s1 + s2 /\ now.usec = j.time.usec - u1 + u2
        BY <3>4
      <4>5. j.set * q \in Int /\ j.read * q \in Int
        BY <1>1, <3>1
      <4>6. PICK x1 \in Int, x2 \in Int, x3 \in Int, t1 \in Int, t2 \in Int :
              /\ x1 = s1 * US /\ x2 = s2 * US /\ x3 = j.time.sec * US
              /\ t1 = j.set * q /\ t2 = j.read * q
        BY <4>3, <4>5, Zenon
      <4>7. total = x3 - x1 + x2 + (j.time.usec - u1 + u2)
        BY <3>5, <4>2, <4>4, <4>6
      <4>8. t1 = x1 + u1 /\ t2 = x2 + u2 /\ (j.read - j.set) * q = t2 - t1
        BY <3>2, <4>1, <4>6
      <4>9. Micros(j.time) = x3 + j.time.usec /\ j.time.usec \in Int
        BY <1>1, <1>2, <4>6 DEF Micros
      <4>10. total = (x3 + j.time.usec) + (t2 - t1)
        BY <1>2, <4>7, <4>8, <4>9
      <4> QED BY <4>8, <4>9, <4>10
    <3>7. total >= 0
      <4>1. (j.read - j.set) * q >= 0
        BY <1>1, <3>1
      <4>2. Micros(j.time) >= 0 /\ Micros(j.time) \in Int
        BY <1>1, <1>2 DEF Micros
      <4>3. (j.read - j.set) * q \in Int
        BY <1>1, <3>1
      <4> QED BY <3>6, <4>1, <4>2, <4>3
    <3>8. Normal(now) = [sec |-> total \div US, usec |-> total % US]
      BY <3>5, <3>7 DEF Normal, Time
    <3>9. total % US \in 0 .. US - 1 /\ total = (total \div US) * US + (total % US)
      <4>1. total \div US \in Int /\ total % US \in 0 .. US - 1 /\ total = US * (total \div US) + (total % US)
        BY <1>2, Euclid
      <4>2. US * (total \div US) = (total \div US) * US
        BY <1>2, <4>1
      <4> QED BY <4>1, <4>2
    <3> QED BY <3>6, <3>8, <3>9 DEF Micros
  <2> HIDE DEF now
  <2> QED BY <1>4, <2>2, <2>3
<1> QED BY <1>3, <1>4

LEMMA SleepKept ==
  ASSUME NEW us \in 0 .. WordLimit - 1
  PROVE  LET long == us \div BigLoop
             whole == long > 0 /\ us % BigLoop = 0
         IN  /\ ALT_USLEEP(us) >= us * PerUs
             /\ ALT_USLEEP(us) <= us * PerUs + long * PerUs + (IF us = 0 THEN 1 ELSE 0)
                                    + (IF whole THEN WordLimit ELSE 0)
             /\ whole => ALT_USLEEP(us) >= us * PerUs + WordLimit
<1>1. /\ WordLimit \in Nat /\ PerUs \in Nat \ {0} /\ IntMax \in Nat /\ PerUs <= IntMax /\ IntMax < WordLimit
      /\ us \in Nat
  BY TimeAssumption DEF IntMax
<1>2. PICK big \in Int, rest \in 0 .. PerUs - 1 : big = BigLoop /\ IntMax = PerUs * big + rest
  <2>1. IntMax \div PerUs \in Int /\ IntMax % PerUs \in 0 .. PerUs - 1
        /\ IntMax = PerUs * (IntMax \div PerUs) + (IntMax % PerUs)
    BY <1>1, Euclid
  <2> QED BY <2>1 DEF BigLoop
<1>3. big >= 1
  <2>1. CASE big <= 0
    <3>1. PerUs * big <= 0
      BY <1>1, <2>1
    <3> QED BY <1>1, <1>2, <3>1
  <2> QED BY <2>1
<1>4. PICK long \in Int, left \in 0 .. big - 1 :
         long = us \div big /\ left = us % big /\ us = big * long + left
  <2>1. us \div big \in Int /\ us % big \in 0 .. big - 1 /\ us = big * (us \div big) + (us % big)
    BY <1>1, <1>3, Euclid
  <2> QED BY <2>1
<1>5. long >= 0
  <2>1. CASE long < 0
    <3>1. big * long <= -big
      BY <1>3, <2>1
    <3> QED BY <1>1, <1>3, <1>4, <3>1
  <2> QED BY <2>1
<1>6. us - long * big = left
  <2>1. long * big = big * long
    BY <1>2
  <2> QED BY <1>1, <1>2, <1>4, <2>1
<1>7. PICK turns \in Nat : turns = left * PerUs
  BY <1>1
<1>8. turns < WordLimit /\ (left = 0 <=> turns = 0)
  <2>1. left * PerUs <= PerUs * big
    BY <1>1, <1>2, <1>3
  <2>2. left >= 1 => left * PerUs >= 1
    BY <1>1
  <2> QED BY <1>1, <1>2, <1>7, <2>1, <2>2
<1>9. us * PerUs = long * (PerUs * big) + turns
  <2>1. (big * long + left) * PerUs = long * (PerUs * big) + left * PerUs
    BY <1>1, <1>2
  <2> QED BY <1>4, <1>7, <2>1
<1>10. long * IntMax = long * (PerUs * big) + long * rest
  BY <1>1, <1>2
<1>11. PICK base \in Nat, more \in Nat, bound \in Nat :
         base = long * (PerUs * big) /\ more = long * rest /\ bound = long * PerUs /\ more <= bound
  <2>1. long * rest <= long * PerUs
    BY <1>1, <1>5
  <2>2. long * (PerUs * big) \in Nat /\ long * rest \in Nat /\ long * PerUs \in Nat
    BY <1>1, <1>3, <1>5
  <2> QED BY <2>1, <2>2
<1>12. CASE long > 0
  <2>1. ALT_USLEEP(us) = long * turnsBne(IntMax) + turnsBne(left * PerUs)
    BY <1>2, <1>4, <1>6, <1>12 DEF ALT_USLEEP, alt_busy_sleep
  <2>2. turnsBne(IntMax) = IntMax
    BY <1>1 DEF turnsBne
  <2>3. turnsBne(turns) = IF left = 0 THEN WordLimit ELSE turns
    <3>1. turns % WordLimit = turns
      BY <1>1, <1>7, <1>8
    <3> QED BY <1>8, <3>1 DEF turnsBne
  <2>4. ALT_USLEEP(us) = base + more + (IF left = 0 THEN WordLimit ELSE turns)
    BY <1>7, <1>10, <1>11, <2>1, <2>2, <2>3
  <2>5. us # 0
    <3>1. big * long >= 1
      BY <1>3, <1>12
    <3> QED BY <1>4, <3>1
  <2> QED BY <1>1, <1>2, <1>4, <1>7, <1>8, <1>9, <1>11, <1>12, <2>4, <2>5
<1>13. CASE long = 0
  <2>1. ALT_USLEEP(us) = turnsBgt(turns)
    BY <1>2, <1>4, <1>6, <1>7, <1>13 DEF ALT_USLEEP, alt_busy_sleep
  <2>2. us = left
    BY <1>2, <1>4, <1>13
  <2>3. long * PerUs = 0 /\ long * (PerUs * big) = 0
    BY <1>1, <1>2, <1>13
  <2>4. us * PerUs = turns /\ (us = 0 <=> turns = 0)
    BY <1>7, <1>8, <2>2
  <2>5. ALT_USLEEP(us) = turns + (IF us = 0 THEN 1 ELSE 0)
    BY <2>1, <2>4 DEF turnsBgt
  <2>6. us \div BigLoop = 0
    BY <1>2, <1>4, <1>13
  <2>7. (us \div BigLoop) * PerUs = 0
    BY <1>1, <2>6
  <2> QED BY <2>4, <2>5, <2>6, <2>7
<1> QED BY <1>5, <1>12, <1>13

LEMMA TimeCall ==
  ASSUME JobOK, Returned
  PROVE  TimeKept
<1> SUFFICES ASSUME done PROVE TimeKept
  BY DEF TimeKept
<1>1. CASE job.call = "clock"
  <2>1. job \in Clocks /\ out = Clock(job)
    BY <1>1, WhoCalls DEF Returned
  <2> QED BY <1>1, <2>1, ClockKept DEF TimeKept
<1>2. CASE job.call = "sleep"
  <2>1. job.us \in 0 .. WordLimit - 1 /\ out = ALT_USLEEP(job.us)
    BY <1>2, WhoCalls DEF Returned
  <2> QED BY <1>2, <2>1, SleepKept DEF TimeKept
<1>3. CASE job.call \notin {"clock", "sleep"}
  BY <1>3 DEF TimeKept
<1> QED BY <1>1, <1>2, <1>3

\* A time that was set reads back as itself plus the ticks since; a delay takes at
\* least the time asked for.  This is TimeKept for every rate and every word size.
THEOREM ClockAndDelay == SpecCall => []TimeKept
<1>1. JobOK /\ Returned => TimeKept
  BY TimeCall
<1> QED BY <1>1, CallsReturn, PTL
-----------------------------------------------------------------------------
\* Caches.  N is the number of lines of a cache.
N == CacheSize \div LineSize

LEMMA Lines ==
  /\ LineSize \in Nat \ {0} /\ WordSize \in Nat \ {0} /\ N \in Nat \ {0} /\ CacheSize \in Nat \ {0}
  /\ CacheSize = N * LineSize /\ AddressLimit \in Nat /\ CacheSize < AddressLimit
  /\ \A k \in Int, r \in 0 .. LineSize - 1 : LineOf(k * LineSize + r) = k
<1>1. /\ LineSize \in Nat \ {0} /\ WordSize \in Nat \ {0} /\ CacheSize \in Nat \ {0} /\ AddressLimit \in Nat
      /\ CacheSize < AddressLimit /\ CacheSize % LineSize = 0
  BY CacheAssumption
<1>2. N \in Int /\ CacheSize = LineSize * N + 0
  BY <1>1, Euclid DEF N
<1>3. N > 0
  <2>1. CASE N <= 0
    <3>1. LineSize * N <= 0
      BY <1>1, <1>2, <2>1
    <3> QED BY <1>1, <1>2, <3>1
  <2> QED BY <1>2, <2>1
<1>4. ASSUME NEW k \in Int, NEW r \in 0 .. LineSize - 1 PROVE LineOf(k * LineSize + r) = k
  <2>1. PICK x \in Int : x = k * LineSize + r
    BY <1>1
  <2>2. x \div LineSize = k
    BY <1>1, <2>1, DivMod
  <2> QED BY <2>1, <2>2 DEF LineOf
<1>5. CacheSize = N * LineSize
  BY <1>1, <1>2
<1> QED BY <1>1, <1>2, <1>3, <1>4, <1>5

\* A walk of n turns from the place odd in the line first.
Walked(start, len, first, odd, n) ==
  /\ start \in Nat /\ len \in Nat /\ first \in Nat /\ odd \in 0 .. LineSize - 1 /\ n \in Nat
  /\ start = first * LineSize + odd
  /\ len <= n * LineSize /\ n * LineSize <= len + LineSize - 1
  /\ start + n * LineSize < AddressLimit

LEMMA Walks ==
  ASSUME NEW start \in Nat, NEW len \in Nat, NEW first, NEW odd, NEW n,
         Walked(start, len, first, odd, n)
  PROVE  /\ walk(start, len) = {start + k * LineSize : k \in 0 .. n - (IF odd = 0 THEN 1 ELSE 0)}
         /\ walk(start, len) # NeverReturns
         /\ \A k \in Nat : LineOf(start + k * LineSize) = first + k
         /\ LineOf(start) = first /\ start % LineSize = odd
<1>1. /\ first \in Nat /\ odd \in 0 .. LineSize - 1 /\ n \in Nat /\ start = first * LineSize + odd
      /\ len <= n * LineSize /\ n * LineSize <= len + LineSize - 1 /\ start + n * LineSize < AddressLimit
  BY DEF Walked
<1>2. LineSize \in Nat \ {0} /\ AddressLimit \in Nat
  BY Lines
<1>3. PICK turn \in Nat : turn = n * LineSize
  BY <1>1, <1>2
<1>4. end(start, len) = start + len
  BY <1>1, <1>2, <1>3 DEF end
<1>5. (len + LineSize - 1) \div LineSize = n
  <2>1. PICK x \in Int : x = len + LineSize - 1
    BY <1>2
  <2>2. x - turn \in 0 .. LineSize - 1
    BY <1>1, <1>2, <1>3, <2>1
  <2>3. PICK r \in 0 .. LineSize - 1 : r = x - turn
    BY <2>2
  <2>4. x = n * LineSize + r /\ n \in Int /\ LineSize \in Nat \ {0}
    BY <1>1, <1>2, <1>3, <2>3
  <2>5. x \div LineSize = n
    BY <2>4, DivMod
  <2> QED BY <2>1, <2>5
<1>6. rounds(start, len) = n
  <2>1. CASE len = 0
    <3>1. n = 0
      <4>1. CASE n >= 1
        <5>1. n * LineSize >= LineSize
          BY <1>1, <1>2, <4>1
        <5> QED BY <1>1, <1>2, <2>1, <5>1
      <4> QED BY <1>1, <4>1
    <3>2. ~(start < start + len)
      BY <2>1
    <3> QED BY <1>4, <3>1, <3>2 DEF rounds
  <2>2. CASE len # 0
    <3>1. start < start + len /\ start + len - start = len
      BY <2>2
    <3> QED BY <1>4, <1>5, <3>1 DEF rounds
  <2> QED BY <2>1, <2>2
<1>7. ~wraps(start, len)
  BY <1>1, <1>2, <1>3, <1>6 DEF wraps
<1>8. start % LineSize = odd
  <2>1. PICK x \in Int : x = start
    OBVIOUS
  <2>2. x = first * LineSize + odd /\ first \in Int /\ LineSize \in Nat \ {0} /\ odd \in 0 .. LineSize - 1
    BY <1>1, <1>2, <2>1
  <2>3. x % LineSize = odd
    BY <2>2, DivMod
  <2> QED BY <2>1, <2>3
<1>9. walk(start, len) = {start + k * LineSize : k \in 0 .. n - (IF odd = 0 THEN 1 ELSE 0)}
  BY <1>6, <1>7, <1>8 DEF walk
<1>10. walk(start, len) # NeverReturns
  <2>1. ASSUME NEW k \in Nat PROVE start + k * LineSize # -1
    <3>1. k * LineSize \in Nat
      BY <1>2
    <3> QED BY <3>1
  <2>2. 0 .. n - (IF odd = 0 THEN 1 ELSE 0) \subseteq Nat
    OBVIOUS
  <2>3. -1 \notin walk(start, len)
    BY <1>9, <2>1, <2>2
  <2> QED BY <2>3 DEF NeverReturns
<1>11. ASSUME NEW k \in Nat PROVE LineOf(start + k * LineSize) = first + k
  <2>1. start + k * LineSize = (first + k) * LineSize + odd
    BY <1>1, <1>2
  <2>2. first + k \in Int
    BY <1>1
  <2>3. LineOf((first + k) * LineSize + odd) = first + k
    BY <1>1, <2>2, Lines
  <2> QED BY <2>1, <2>3
<1>12. LineOf(start) = first
  <2>1. first \in Int
    BY <1>1
  <2> QED BY <1>1, <2>1, Lines
<1> QED BY <1>8, <1>9, <1>10, <1>11, <1>12

\* A region that ends a line before the address space does is walked.
LEMMA WalkOf ==
  ASSUME NEW start \in Nat, NEW len \in Nat,
         \/ start + len <= AddressLimit - LineSize
         \/ start = 0 /\ len = CacheSize
  PROVE  \E first, odd, n : Walked(start, len, first, odd, n) /\ (len = CacheSize => n = N)
<1>1. LineSize \in Nat \ {0} /\ AddressLimit \in Nat /\ CacheSize = N * LineSize /\ N \in Nat
      /\ CacheSize < AddressLimit
  BY Lines
<1>2. PICK first \in Int, odd \in 0 .. LineSize - 1 : start = LineSize * first + odd
  <2>1. start \in Int
    OBVIOUS
  <2>2. start \div LineSize \in Int /\ start % LineSize \in 0 .. LineSize - 1
        /\ start = LineSize * (start \div LineSize) + (start % LineSize)
    BY <1>1, <2>1, Euclid
  <2> QED BY <2>2
<1>3. first >= 0
  <2>1. CASE first <= -1
    <3>1. LineSize * first <= -LineSize
      BY <1>1, <1>2, <2>1
    <3> QED BY <1>1, <1>2, <3>1
  <2> QED BY <1>2, <2>1
<1>4. PICK n \in Int, r \in 0 .. LineSize - 1 : len + LineSize - 1 = LineSize * n + r
  <2>1. PICK x \in Int : x = len + LineSize - 1
    BY <1>1
  <2>2. x \div LineSize \in Int /\ x % LineSize \in 0 .. LineSize - 1
        /\ x = LineSize * (x \div LineSize) + (x % LineSize)
    BY <1>1, Euclid
  <2> QED BY <2>1, <2>2
<1>5. n >= 0
  <2>1. CASE n <= -1
    <3>1. LineSize * n <= -LineSize
      BY <1>1, <1>4, <2>1
    <3> QED BY <1>1, <1>4, <3>1
  <2> QED BY <1>4, <2>1
<1>6. n * LineSize = LineSize * n /\ first * LineSize = LineSize * first /\ n * LineSize \in Int
  BY <1>1, <1>2, <1>4
<1>7. len <= n * LineSize /\ n * LineSize <= len + LineSize - 1
  BY <1>1, <1>4, <1>6
<1>8. len = CacheSize => n = N
  <2> SUFFICES ASSUME len = CacheSize PROVE n = N
    OBVIOUS
  <2>1. CASE n >= N + 1
    <3>1. n * LineSize >= (N + 1) * LineSize
      BY <1>1, <1>4, <2>1
    <3>2. (N + 1) * LineSize = N * LineSize + LineSize
      BY <1>1
    <3> QED BY <1>1, <1>6, <1>7, <3>1, <3>2
  <2>2. CASE n <= N - 1
    <3>1. n * LineSize <= (N - 1) * LineSize
      BY <1>1, <1>4, <2>2
    <3>2. (N - 1) * LineSize = N * LineSize - LineSize
      BY <1>1
    <3> QED BY <1>1, <1>6, <1>7, <3>1, <3>2
  <2> QED BY <1>1, <1>4, <2>1, <2>2
<1>9. start + n * LineSize < AddressLimit
  BY <1>1, <1>6, <1>7, <1>8
<1>10. Walked(start, len, first, odd, n)
  BY <1>2, <1>3, <1>4, <1>5, <1>6, <1>7, <1>9 DEF Walked
<1> QED BY <1>8, <1>10
\* The lines a walk touches
LinesOf(addresses) == {LineOf(a) : a \in addresses}

LEMMA WalkedLines ==
  ASSUME NEW start \in Nat, NEW len \in Nat, NEW first, NEW odd, NEW n,
         Walked(start, len, first, odd, n)
  PROVE  LinesOf(walk(start, len)) = {first + k : k \in 0 .. n - (IF odd = 0 THEN 1 ELSE 0)}
<1>1. walk(start, len) = {start + k * LineSize : k \in 0 .. n - (IF odd = 0 THEN 1 ELSE 0)}
  BY Walks
<1>2. \A k \in 0 .. n - (IF odd = 0 THEN 1 ELSE 0) : LineOf(start + k * LineSize) = first + k
  <2>1. 0 .. n - (IF odd = 0 THEN 1 ELSE 0) \subseteq Nat
    OBVIOUS
  <2> QED BY <2>1, Walks
<1> QED BY <1>1, <1>2 DEF LinesOf

\* The line of an address of the region
LEMMA RegionLine ==
  ASSUME NEW start \in Nat, NEW len \in Nat, NEW first, NEW odd, NEW n,
         Walked(start, len, first, odd, n), NEW i \in 0 .. len - 1
  PROVE  \E m \in 0 .. n - (IF odd = 0 THEN 1 ELSE 0) :
            LineOf(start + i) = first + m /\ m * LineSize <= odd + i /\ odd + i < (m + 1) * LineSize
<1>0. LineSize \in Nat \ {0}
  BY Lines
<1>1. /\ first \in Nat /\ odd \in 0 .. LineSize - 1 /\ n \in Nat /\ start = first * LineSize + odd
      /\ n * LineSize <= len + LineSize - 1 /\ len <= n * LineSize
  BY DEF Walked
<1>2. PICK m \in Int, r \in 0 .. LineSize - 1 : odd + i = LineSize * m + r
  <2>1. PICK x \in Int : x = odd + i
    BY <1>1
  <2>2. x \div LineSize \in Int /\ x % LineSize \in 0 .. LineSize - 1
        /\ x = LineSize * (x \div LineSize) + (x % LineSize)
    BY <1>0, Euclid
  <2> QED BY <2>1, <2>2
<1>3. PICK p \in Int, q \in Int, t \in Int : p = m * LineSize /\ q = first * LineSize /\ t = n * LineSize
  BY <1>0, <1>1
<1>4. odd + i = p + r
  BY <1>0, <1>2, <1>3
<1>5. m >= 0
  <2>1. CASE m <= -1
    <3>1. m * LineSize <= -LineSize
      BY <1>0, <2>1
    <3> QED BY <1>0, <1>1, <1>3, <1>4, <3>1
  <2> QED BY <1>2, <2>1
<1>6. m <= n - (IF odd = 0 THEN 1 ELSE 0)
  <2>1. CASE m >= n + 1
    <3>1. m * LineSize >= (n + 1) * LineSize /\ (n + 1) * LineSize = n * LineSize + LineSize
      BY <1>0, <1>1, <2>1
    <3> QED BY <1>0, <1>1, <1>3, <1>4, <3>1
  <2>2. CASE odd = 0 /\ m = n
    BY <1>0, <1>1, <1>3, <1>4, <2>2
  <2> QED BY <1>1, <1>2, <2>1, <2>2
<1>7. LineOf(start + i) = first + m
  <2>1. (first + m) * LineSize = q + p
    BY <1>0, <1>1, <1>3
  <2>2. start + i = (first + m) * LineSize + r
    BY <1>0, <1>1, <1>3, <1>4, <2>1
  <2>3. first + m \in Int
    BY <1>1
  <2>4. LineOf((first + m) * LineSize + r) = first + m
    BY <2>3, Lines
  <2> QED BY <2>2, <2>4
<1>8. m * LineSize <= odd + i /\ odd + i < (m + 1) * LineSize
  <2>1. (m + 1) * LineSize = p + LineSize
    BY <1>0, <1>3
  <2> QED BY <1>0, <1>1, <1>3, <1>4, <2>1
<1> QED BY <1>1, <1>2, <1>5, <1>6, <1>7, <1>8

\* The walk reaches every line of the region, and no other but the one after a region
\* that is not aligned.
LEMMA WalkCovers ==
  ASSUME NEW start \in Nat, NEW len \in Nat, start + len <= AddressLimit - LineSize
  PROVE  /\ walk(start, len) # NeverReturns
         /\ LinesOf(start .. start + len - 1) \subseteq LinesOf(walk(start, len))
         /\ LinesOf(walk(start, len)) \ LinesOf(start .. start + len - 1)
              \subseteq IF start % LineSize = 0 THEN {}
                        ELSE {LineOf(start), LineOf(start + len - 1) + 1}
<1>1. PICK first, odd, n : Walked(start, len, first, odd, n)
  BY WalkOf
<1>2. /\ first \in Nat /\ odd \in 0 .. LineSize - 1 /\ n \in Nat /\ start = first * LineSize + odd
      /\ n * LineSize <= len + LineSize - 1 /\ len <= n * LineSize
  BY <1>1 DEF Walked
<1>3. LineSize \in Nat \ {0}
  BY Lines
<1>4. walk(start, len) # NeverReturns /\ LineOf(start) = first /\ start % LineSize = odd
  BY <1>1, Walks
<1> DEFINE last == n - (IF odd = 0 THEN 1 ELSE 0)
<1>5. LinesOf(walk(start, len)) = {first + k : k \in 0 .. last}
  BY <1>1, WalkedLines
<1>6. LinesOf(start .. start + len - 1) \subseteq LinesOf(walk(start, len))
  <2>1. ASSUME NEW a \in start .. start + len - 1 PROVE LineOf(a) \in {first + k : k \in 0 .. last}
    <3>1. PICK i \in 0 .. len - 1 : start + i = a
      <4>1. a - start \in 0 .. len - 1 /\ start + (a - start) = a
        OBVIOUS
      <4> QED BY <4>1
    <3>2. \E m \in 0 .. last : LineOf(start + i) = first + m /\ m * LineSize <= odd + i /\ odd + i < (m + 1) * LineSize
      BY <1>1, RegionLine
    <3> HIDE DEF last
    <3> QED BY <3>1, <3>2
  <2> QED BY <1>5, <2>1 DEF LinesOf
<1>7. ASSUME NEW k \in 0 .. last, first + k \notin LinesOf(start .. start + len - 1)
      PROVE  odd # 0 /\ first + k \in {LineOf(start), LineOf(start + len - 1) + 1}
  <2>0. k \in Nat /\ k <= n
    BY <1>2
  <2>1. CASE len = 0
    <3>1. n = 0
      <4>1. CASE n >= 1
        <5>1. n * LineSize >= LineSize
          BY <1>2, <1>3, <4>1
        <5> QED BY <1>2, <1>3, <2>1, <5>1
      <4> QED BY <1>2, <4>1
    <3>2. k = 0 /\ odd # 0
      BY <3>1
    <3> QED BY <1>2, <1>4, <3>2
  <2>2. CASE len # 0
    <3>1. len - 1 \in 0 .. len - 1 /\ start + (len - 1) = start + len - 1
      BY <2>2
    <3>2. PICK q \in 0 .. last : /\ LineOf(start + (len - 1)) = first + q
                                 /\ q * LineSize <= odd + (len - 1) /\ odd + (len - 1) < (q + 1) * LineSize
      <4>1. PICK i \in 0 .. len - 1 : i = len - 1
        BY <3>1
      <4>2. \E m \in 0 .. last : LineOf(start + i) = first + m /\ m * LineSize <= odd + i /\ odd + i < (m + 1) * LineSize
        BY <1>1, RegionLine
      <4> HIDE DEF last
      <4> QED BY <4>1, <4>2, Zenon
    <3>3. k > q
      <4>1. CASE k = 0
        <5>1. start \in start .. start + len - 1
          BY <2>2
        <5>2. first \in LinesOf(start .. start + len - 1)
          BY <1>4, <5>1 DEF LinesOf
        <5> QED BY <1>2, <1>7, <4>1, <5>2
      <4>2. CASE k >= 1 /\ k <= q
        <5> DEFINE a == (first + k) * LineSize
        <5>1. a = first * LineSize + k * LineSize
          BY <1>2, <1>3
        <5>2. k * LineSize >= LineSize /\ k * LineSize <= q * LineSize /\ q * LineSize \in Int
          BY <1>3, <4>2
        <5>3. PICK e \in Int, f \in Int, g \in Int :
                e = first * LineSize /\ f = k * LineSize /\ g = q * LineSize
          BY <1>2, <1>3
        <5> HIDE DEF a
        <5>4. a \in start .. start + len - 1
          BY <1>2, <1>3, <3>2, <5>1, <5>2, <5>3
        <5>5. LineOf(a) = first + k
          <6>1. first + k \in Int /\ 0 \in 0 .. LineSize - 1 /\ a = (first + k) * LineSize + 0
            BY <1>2, <1>3 DEF a
          <6> QED BY <6>1, Lines
        <5>6. first + k \in LinesOf(start .. start + len - 1)
          BY <5>4, <5>5 DEF LinesOf
        <5> QED BY <1>7, <5>6
      <4> QED BY <2>0, <4>1, <4>2
    <3>4. n <= q + 1
      <4>1. CASE n >= q + 2
        <5>1. n * LineSize >= (q + 2) * LineSize
          BY <1>2, <1>3, <4>1
        <5>2. (q + 2) * LineSize = (q + 1) * LineSize + LineSize /\ (q + 1) * LineSize \in Int
          BY <1>3
        <5>3. PICK e \in Int, f \in Int : e = n * LineSize /\ f = (q + 1) * LineSize
          BY <1>2, <1>3, <5>2
        <5> QED BY <1>2, <1>3, <3>2, <5>1, <5>2, <5>3
      <4> QED BY <1>2, <4>1
    <3>5. odd # 0
      <4>1. CASE odd = 0
        <5>1. n * LineSize > q * LineSize
          BY <1>2, <1>3, <3>3, <4>1
        <5>2. n = q + 1
          BY <1>2, <3>3, <3>4, <4>1
        <5> QED BY <1>2, <3>3, <4>1, <5>2
      <4> QED BY <4>1
    <3>6. first + k = LineOf(start + len - 1) + 1
      <4>1. k = q + 1
        BY <1>2, <2>0, <3>3, <3>4
      <4>2. LineOf(start + len - 1) = first + q
        BY <3>1, <3>2
      <4> QED BY <1>2, <4>1, <4>2
    <3> QED BY <3>5, <3>6
  <2> QED BY <2>1, <2>2
<1> QED BY <1>4, <1>5, <1>6, <1>7
\* The places a cache has for lines
LEMMA Places ==
  /\ \A p \in 0 .. N - 1 : PlaceOf(p) = p
  /\ \A l \in Int : PlaceOf(l) \in 0 .. N - 1
  /\ \A l, k \in Int : PlaceOf(l - k * N) = PlaceOf(l)
<1>1. N \in Nat \ {0}
  BY Lines
<1>2. \A x : PlaceOf(x) = x % N
  BY DEF PlaceOf, N
<1>3. ASSUME NEW p \in 0 .. N - 1 PROVE PlaceOf(p) = p
  BY <1>1, <1>2
<1>4. ASSUME NEW l \in Int PROVE PlaceOf(l) \in 0 .. N - 1
  BY <1>1, <1>2
<1>5. ASSUME NEW l \in Int, NEW k \in Int PROVE PlaceOf(l - k * N) = PlaceOf(l)
  BY <1>1, <1>2, Shift
<1> QED BY <1>3, <1>4, <1>5

\* A walk as long as the cache reaches every place of it.
LEMMA WalkFills ==
  ASSUME NEW start \in Nat, NEW first, NEW odd, Walked(start, CacheSize, first, odd, N)
  PROVE  {PlaceOf(l) : l \in LinesOf(walk(start, CacheSize))} = 0 .. N - 1
<1> DEFINE last == N - (IF odd = 0 THEN 1 ELSE 0)
<1>1. first \in Nat /\ N \in Nat \ {0} /\ CacheSize \in Nat
  BY Lines DEF Walked
<1>2. LinesOf(walk(start, CacheSize)) = {first + k : k \in 0 .. last}
  <2>1. PICK len \in Nat, n \in Nat : len = CacheSize /\ n = N
    BY <1>1
  <2>2. Walked(start, len, first, odd, n)
    BY <2>1
  <2>3. LinesOf(walk(start, len)) = {first + k : k \in 0 .. n - (IF odd = 0 THEN 1 ELSE 0)}
    BY <2>2, WalkedLines
  <2> QED BY <2>1, <2>3
<1>3. ASSUME NEW p \in 0 .. N - 1 PROVE \E k \in 0 .. last : PlaceOf(first + k) = p
  <2>1. PICK y \in Int, k \in 0 .. N - 1 : p - first = N * y + k
    <3>1. PICK x \in Int : x = p - first
      BY <1>1
    <3>2. x \div N \in Int /\ x % N \in 0 .. N - 1 /\ x = N * (x \div N) + (x % N)
      BY <1>1, Euclid
    <3> QED BY <3>1, <3>2
  <2>2. N * y = y * N /\ y * N \in Int
    BY <1>1
  <2>3. first + k = p - y * N
    BY <1>1, <2>1, <2>2
  <2>4. p \in Int
    BY <1>1
  <2>5. PlaceOf(p - y * N) = PlaceOf(p) /\ PlaceOf(p) = p
    BY <2>1, <2>4, Places
  <2>6. k \in 0 .. last
    BY <1>1, <2>1
  <2> QED BY <2>3, <2>5, <2>6
<1>4. ASSUME NEW k \in 0 .. last PROVE PlaceOf(first + k) \in 0 .. N - 1
  <2>1. first + k \in Int
    BY <1>1
  <2> QED BY <2>1, Places
<1> HIDE DEF last
<1> QED BY <1>2, <1>3, <1>4

LEMMA CodeCovered ==
  ASSUME NEW start \in Nat, NEW len \in Nat, start + len <= AddressLimit - LineSize
  PROVE  {PlaceOf(l) : l \in LinesOf(start .. start + len - 1)}
           \subseteq {PlaceOf(l) : l \in LinesOf(alt_icache_flush(start, len))}
<1>0. CacheSize \in Nat /\ N \in Nat \ {0} /\ LineSize \in Nat \ {0} /\ AddressLimit \in Nat
  BY Lines
<1>1. CASE len <= CacheSize
  <2>1. alt_icache_flush(start, len) = walk(start, len)
    BY <1>0, <1>1 DEF alt_icache_flush
  <2>2. LinesOf(start .. start + len - 1) \subseteq LinesOf(walk(start, len))
    BY WalkCovers
  <2> QED BY <2>1, <2>2
<1>2. CASE len > CacheSize
  <2>1. alt_icache_flush(start, len) = walk(start, CacheSize)
    BY <1>0, <1>2 DEF alt_icache_flush
  <2>2. start + CacheSize <= AddressLimit - LineSize
    BY <1>0, <1>2
  <2>3. PICK first, odd : Walked(start, CacheSize, first, odd, N)
    BY <1>0, <2>2, WalkOf
  <2>4. {PlaceOf(l) : l \in LinesOf(walk(start, CacheSize))} = 0 .. N - 1
    BY <2>3, WalkFills
  <2>5. ASSUME NEW a \in start .. start + len - 1 PROVE PlaceOf(LineOf(a)) \in 0 .. N - 1
    <3>1. LineOf(a) \in Int
      BY <1>0 DEF LineOf
    <3> QED BY <3>1, Places
  <2> QED BY <2>1, <2>4, <2>5 DEF LinesOf
<1> QED BY <1>0, <1>1, <1>2

\* The functions that flush all of a cache, and the start-up
LEMMA AllCovered ==
  /\ {PlaceOf(l) : l \in LinesOf(alt_dcache_flush_all)} = 0 .. N - 1
  /\ {PlaceOf(l) : l \in LinesOf(alt_icache_flush_all)} = 0 .. N - 1
<1>0. CacheSize \in Nat /\ N \in Nat \ {0} /\ LineSize \in Nat \ {0} /\ AddressLimit \in Nat
  BY Lines
<1>1. {PlaceOf(l) : l \in LinesOf(alt_dcache_flush_all)} = 0 .. N - 1
  <2>1. alt_dcache_flush_all = {k * LineSize : k \in 0 .. N - 1}
    BY DEF alt_dcache_flush_all, N
  <2>2. ASSUME NEW k \in 0 .. N - 1 PROVE LineOf(k * LineSize) = k
    <3>1. k \in Int /\ 0 \in 0 .. LineSize - 1 /\ k * LineSize + 0 = k * LineSize
      BY <1>0
    <3>2. LineOf(k * LineSize + 0) = k
      BY <3>1, Lines
    <3> QED BY <3>1, <3>2
  <2>3. LinesOf(alt_dcache_flush_all) = 0 .. N - 1
    BY <2>1, <2>2 DEF LinesOf
  <2>4. \A p \in 0 .. N - 1 : PlaceOf(p) = p
    BY Places
  <2> QED BY <2>3, <2>4
<1>2. {PlaceOf(l) : l \in LinesOf(alt_icache_flush_all)} = 0 .. N - 1
  <2>1. alt_icache_flush_all = walk(0, CacheSize)
    BY <1>0 DEF alt_icache_flush_all, alt_icache_flush
  <2>2. 0 \in Nat
    OBVIOUS
  <2>3. PICK first, odd : Walked(0, CacheSize, first, odd, N)
    BY <1>0, <2>2, WalkOf
  <2> QED BY <2>1, <2>2, <2>3, WalkFills
<1> QED BY <1>1, <1>2

LEMMA DownByLines ==
  /\ {PlaceOf(l) : l \in LinesOf(downFrom(CacheSize, LineSize))} = 0 .. N - 1
  /\ \A a \in downFrom(CacheSize, LineSize) : a % LineSize = 0
<1>0. CacheSize \in Nat /\ N \in Nat \ {0} /\ LineSize \in Nat \ {0} /\ CacheSize = N * LineSize
  BY Lines
<1>1. downFrom(CacheSize, LineSize) = {CacheSize - k * LineSize : k \in 0 .. N - 1}
  BY DEF downFrom, N
<1>2. ASSUME NEW k \in 0 .. N - 1
      PROVE  LineOf(CacheSize - k * LineSize) = N - k /\ (CacheSize - k * LineSize) % LineSize = 0
  <2>1. CacheSize - k * LineSize = (N - k) * LineSize + 0 /\ CacheSize - k * LineSize \in Int
    BY <1>0
  <2>2. N - k \in Int /\ 0 \in 0 .. LineSize - 1
    BY <1>0
  <2>3. LineOf((N - k) * LineSize + 0) = N - k
    BY <2>2, Lines
  <2>4. PICK x \in Int, y \in Int : x = CacheSize - k * LineSize /\ y = N - k
    BY <2>1, <2>2
  <2>5. x = y * LineSize + 0
    BY <2>1, <2>4
  <2>6. x % LineSize = 0
    BY <1>0, <2>2, <2>5, DivMod
  <2> QED BY <2>1, <2>3, <2>4, <2>6
<1>3. LinesOf(downFrom(CacheSize, LineSize)) = {N - k : k \in 0 .. N - 1}
  BY <1>1, <1>2 DEF LinesOf
<1>4. {N - k : k \in 0 .. N - 1} = 1 .. N
  <2>1. ASSUME NEW p \in 1 .. N PROVE \E k \in 0 .. N - 1 : p = N - k
    <3>1. N - p \in 0 .. N - 1 /\ p = N - (N - p)
      BY <1>0
    <3> QED BY <3>1
  <2>2. \A k \in 0 .. N - 1 : N - k \in 1 .. N
    BY <1>0
  <2> QED BY <2>1, <2>2
<1>5. PlaceOf(N) = 0
  <2>1. PlaceOf(N - 1 * N) = PlaceOf(N)
    <3>1. N \in Int /\ 1 \in Int
      BY <1>0
    <3> QED BY <3>1, Places
  <2>2. N - 1 * N = 0 /\ 0 \in 0 .. N - 1
    BY <1>0
  <2>3. PlaceOf(0) = 0
    BY <2>2, Places
  <2> QED BY <2>1, <2>2, <2>3
<1>6. \A p \in 0 .. N - 1 : PlaceOf(p) = p
  BY Places
<1>7. {PlaceOf(l) : l \in 1 .. N} = 0 .. N - 1
  <2>1. ASSUME NEW p \in 0 .. N - 1 PROVE \E l \in 1 .. N : PlaceOf(l) = p
    <3>1. CASE p = 0
      BY <1>0, <1>5, <3>1
    <3>2. CASE p # 0
      BY <1>0, <1>6, <3>2
    <3> QED BY <3>1, <3>2
  <2>2. ASSUME NEW l \in 1 .. N PROVE PlaceOf(l) \in 0 .. N - 1
    <3>1. l \in Int
      BY <1>0
    <3> QED BY <3>1, Places
  <2> QED BY <2>1, <2>2
<1> QED BY <1>1, <1>2, <1>3, <1>4, <1>7
LEMMA DownByWords ==
  {a % CacheSize : a \in downFrom(CacheSize, WordSize)} = {a \in 0 .. CacheSize - 1 : a % WordSize = 0}
<1>0. CacheSize \in Nat \ {0} /\ WordSize \in Nat \ {0} /\ LineSize \in Nat \ {0} /\ CacheSize = N * LineSize
      /\ N \in Nat \ {0}
  BY Lines
<1>1. PICK h \in Int : LineSize = WordSize * h
  <2>1. LineSize \div WordSize \in Int /\ LineSize = WordSize * (LineSize \div WordSize) + (LineSize % WordSize)
    BY <1>0, Euclid
  <2>2. LineSize % WordSize = 0
    BY CacheAssumption
  <2> QED BY <1>0, <2>1, <2>2
<1>2. PICK m \in Int : m = CacheSize \div WordSize /\ CacheSize = m * WordSize
  <2>1. N * (WordSize * h) = (N * h) * WordSize
    BY <1>0
  <2>2. PICK x \in Int, q \in Int : x = CacheSize /\ q = N * h
    BY <1>0
  <2>3. x = q * WordSize + 0 /\ 0 \in 0 .. WordSize - 1
    BY <1>0, <1>1, <2>1, <2>2
  <2>4. x \div WordSize = q
    BY <1>0, <2>3, DivMod
  <2> QED BY <1>0, <1>1, <2>1, <2>2, <2>4
<1>3. m >= 1
  <2>1. CASE m <= 0
    <3>1. m * WordSize <= 0
      BY <1>0, <2>1
    <3> QED BY <1>0, <1>2, <3>1
  <2> QED BY <2>1
<1>4. downFrom(CacheSize, WordSize) = {CacheSize - k * WordSize : k \in 0 .. m - 1}
  BY <1>2 DEF downFrom
<1>5. CacheSize % CacheSize = 0
  <2>1. PICK x \in Int : x = CacheSize
    BY <1>0
  <2>2. x = 1 * CacheSize + 0 /\ 0 \in 0 .. CacheSize - 1 /\ 1 \in Int
    BY <1>0, <2>1
  <2>3. x % CacheSize = 0
    BY <1>0, <2>2, DivMod
  <2> QED BY <2>1, <2>3
<1>6. ASSUME NEW k \in 0 .. m - 1
      PROVE  (CacheSize - k * WordSize) % CacheSize \in {a \in 0 .. CacheSize - 1 : a % WordSize = 0}
  <2>1. CASE k = 0
    <3>1. CacheSize - k * WordSize = CacheSize
      BY <1>0, <2>1
    <3>2. 0 % WordSize = 0
      BY <1>0
    <3> QED BY <1>0, <1>5, <3>1, <3>2
  <2>2. CASE k # 0
    <3>1. k * WordSize >= WordSize /\ k * WordSize <= (m - 1) * WordSize
      BY <1>0, <1>3, <2>2
    <3>2. (m - 1) * WordSize = CacheSize - WordSize
      BY <1>0, <1>2
    <3>3. PICK x \in 0 .. CacheSize - 1 : x = CacheSize - k * WordSize
      <4>1. k * WordSize \in Int
        BY <1>0
      <4> QED BY <1>0, <3>1, <3>2, <4>1
    <3>4. x % CacheSize = x
      BY <1>0
    <3>5. x = (m - k) * WordSize + 0 /\ m - k \in Int /\ 0 \in 0 .. WordSize - 1 /\ x \in Int
      BY <1>0, <1>2, <3>3
    <3>6. x % WordSize = 0
      BY <1>0, <3>5, DivMod
    <3> QED BY <3>3, <3>4, <3>6
  <2> QED BY <2>1, <2>2
<1>7. ASSUME NEW a \in 0 .. CacheSize - 1, a % WordSize = 0
      PROVE  \E k \in 0 .. m - 1 : a = (CacheSize - k * WordSize) % CacheSize
  <2>1. CASE a = 0
    <3>1. 0 \in 0 .. m - 1 /\ CacheSize - 0 * WordSize = CacheSize
      BY <1>0, <1>3
    <3> QED BY <1>5, <2>1, <3>1
  <2>2. CASE a # 0
    <3>1. PICK g \in Int : a = WordSize * g
      <4>1. a \in Int
        OBVIOUS
      <4>2. a \div WordSize \in Int /\ a = WordSize * (a \div WordSize) + (a % WordSize)
        BY <1>0, <4>1, Euclid
      <4>3. PICK g \in Int : g = a \div WordSize
        BY <4>2
      <4>4. a = WordSize * g + 0
        BY <1>7, <4>2, <4>3
      <4>5. a = WordSize * g
        BY <1>0, <4>4
      <4> QED BY <4>5
    <3>2. g >= 1
      <4>1. CASE g <= 0
        <5>1. WordSize * g <= 0
          BY <1>0, <4>1
        <5> QED BY <2>2, <3>1, <5>1
      <4> QED BY <4>1
    <3>3. g <= m
      <4>1. CASE g >= m + 1
        <5>1. WordSize * g >= WordSize * (m + 1) /\ WordSize * (m + 1) = m * WordSize + WordSize
          BY <1>0, <4>1
        <5> QED BY <1>0, <1>2, <3>1, <5>1
      <4> QED BY <4>1
    <3>4. m - g \in 0 .. m - 1
      BY <3>2, <3>3
    <3>5. CacheSize - (m - g) * WordSize = a
      <4>1. (m - g) * WordSize = m * WordSize - WordSize * g
        BY <1>0
      <4>2. m * WordSize \in Int /\ WordSize * g \in Int
        BY <1>0
      <4> QED BY <1>2, <3>1, <4>1, <4>2
    <3>6. a % CacheSize = a
      BY <1>0
    <3> QED BY <3>4, <3>5, <3>6
  <2> QED BY <2>1, <2>2
<1> QED BY <1>4, <1>6, <1>7

LEMMA FlushCall ==
  ASSUME JobOK, Returned
  PROVE  FlushCovers
<1> SUFFICES ASSUME done PROVE FlushCovers
  BY DEF FlushCovers
<1>0. Address \subseteq Nat /\ Flushed = LinesOf(out) /\ N = CacheSize \div LineSize
  BY Lines DEF Address, Flushed, LinesOf, N
<1>1. CASE job.call \in {"alt_dcache_flush", "alt_dcache_flush_no_writeback"}
  <2>1. job.start \in Nat /\ job.len \in Nat /\ out = walk(job.start, job.len)
    BY <1>0, <1>1, WhoCalls DEF Returned, alt_dcache_flush, alt_dcache_flush_no_writeback
  <2>2. PICK start \in Nat, len \in Nat : start = job.start /\ len = job.len
    BY <2>1
  <2>3. Region = LinesOf(start .. start + len - 1)
    BY <2>2 DEF Region, LinesOf
  <2>4. out = walk(start, len)
    BY <2>1, <2>2
  <2>5. start + len <= AddressLimit - LineSize =>
           /\ out # NeverReturns
           /\ Region \subseteq Flushed
           /\ Flushed \ Region \subseteq
                  IF start % LineSize = 0 THEN {} ELSE {LineOf(start), LineOf(start + len - 1) + 1}
    BY <1>0, <2>3, <2>4, WalkCovers
  <2> QED BY <1>1, <2>2, <2>5 DEF FlushCovers
<1>2. CASE job.call = "alt_icache_flush"
  <2>1. job.start \in Nat /\ job.len \in Nat /\ out = alt_icache_flush(job.start, job.len)
    BY <1>0, <1>2, WhoCalls DEF Returned
  <2>2. PICK start \in Nat, len \in Nat : start = job.start /\ len = job.len
    BY <2>1
  <2>3. Region = LinesOf(start .. start + len - 1)
    BY <2>2 DEF Region, LinesOf
  <2>4. start + len <= AddressLimit - LineSize =>
           {PlaceOf(l) : l \in Region} \subseteq {PlaceOf(l) : l \in Flushed}
    BY <1>0, <2>1, <2>2, <2>3, CodeCovered
  <2> QED BY <1>2, <2>2, <2>4 DEF FlushCovers
<1>3. CASE job.call \in {"alt_dcache_flush_all", "alt_icache_flush_all"}
  <2>1. out = alt_dcache_flush_all \/ out = alt_icache_flush_all
    BY <1>3 DEF Returned
  <2>2. {PlaceOf(l) : l \in Flushed} = 0 .. N - 1
    BY <1>0, <2>1, AllCovered
  <2> QED BY <1>0, <1>3, <2>2 DEF FlushCovers
<1>4. CASE job.call \in {"crt0_initi", "crt0_initd"}
  <2>1. out = IF job.ecc /\ job.call = "crt0_initd" THEN downFrom(CacheSize, WordSize)
              ELSE downFrom(CacheSize, LineSize)
    BY <1>4, WhoCalls DEF Returned, crt0_initi, crt0_initd
  <2>2. CASE job.ecc /\ job.call = "crt0_initd"
    BY <1>4, <2>1, <2>2, DownByWords DEF FlushCovers
  <2>3. CASE ~(job.ecc /\ job.call = "crt0_initd")
    BY <1>0, <1>4, <2>1, <2>3, DownByLines DEF FlushCovers
  <2> QED BY <2>2, <2>3
<1>5. CASE job.call \notin {"alt_dcache_flush", "alt_dcache_flush_no_writeback", "alt_icache_flush",
                            "alt_dcache_flush_all", "alt_icache_flush_all", "crt0_initi", "crt0_initd"}
  BY <1>5 DEF FlushCovers
<1> QED BY <1>1, <1>2, <1>3, <1>4, <1>5

\* A flush reaches every line of the region or every place of the cache, and start-up
\* initialises all of both caches.  This is FlushCovers for every size of a cache, of
\* its lines and of the address space.
THEOREM EveryLineFlushed == SpecCall => []FlushCovers
<1>1. JobOK /\ Returned => FlushCovers
  BY FlushCall
<1> QED BY <1>1, CallsReturn, PTL
-----------------------------------------------------------------------------
\* Start-up.
\* g is what the loop makes of the memory, word by word.
Copies(g, mem, s) ==
  /\ g[0] = mem
  /\ \A k \in 1 .. s.end - s.start : g[k] = [g[k - 1] EXCEPT ![s.start + k - 1] = g[k - 1][s.load + k - 1]]
  /\ alt_load_section(mem, s) = IF s.start = s.load THEN mem ELSE g[s.end - s.start]

LEMMA LoadUnfold ==
  ASSUME NEW mem, NEW s, s.end - s.start \in Nat
  PROVE  \E g : Copies(g, mem, s)
<1> DEFINE n          == s.end - s.start
           copy(m, k) == [m EXCEPT ![s.start + k - 1] = m[s.load + k - 1]]
           Def(m, k)  == CHOOSE next \in {copy(x, k) : x \in {m}} : TRUE
           D          == CHOOSE g : g = [k \in 0 .. n |-> IF k = 0 THEN mem ELSE Def(g[k - 1], k)]
<1>1. alt_load_section(mem, s) = IF s.start = s.load THEN mem ELSE D[n]
  BY DEF alt_load_section
<1>2. \A m, k : Def(m, k) = copy(m, k)
  OBVIOUS
<1> HIDE DEF Def
<1>3. FiniteNatInductiveDefHypothesis(D, mem, Def, 0, n)
  BY DEF FiniteNatInductiveDefHypothesis
<1> HIDE DEF D
<1>4. FiniteNatInductiveDefConclusion(D, mem, Def, 0, n)
  BY <1>3, FiniteNatInductiveDef
<1>5. D = [k \in 0 .. n |-> IF k = 0 THEN mem ELSE Def(D[k - 1], k)]
  BY <1>4 DEF FiniteNatInductiveDefConclusion
<1>6. D[0] = mem
  BY <1>5
<1>7. \A k \in 1 .. n : D[k] = copy(D[k - 1], k)
  <2> SUFFICES ASSUME NEW k \in 1 .. n PROVE D[k] = copy(D[k - 1], k)
    OBVIOUS
  <2>1. D[k] = Def(D[k - 1], k)
    BY <1>5
  <2> QED BY <1>2, <2>1
<1> QED BY <1>1, <1>6, <1>7 DEF Copies

\* A section before its image is copied from it.
Loadable(Addr, mem, s) ==
  /\ Addr \in SUBSET Int /\ mem = [a \in Addr |-> mem[a]]
  /\ s.start \in Nat /\ s.end \in Nat /\ s.load \in Nat /\ s.start <= s.end /\ s.end <= s.load
  /\ s.start .. s.load + (s.end - s.start) - 1 \subseteq Addr

LEMMA Loads ==
  ASSUME NEW Addr, NEW mem, NEW s, Loadable(Addr, mem, s)
  PROVE  alt_load_section(mem, s) =
           [a \in Addr |-> IF s.start <= a /\ a < s.end THEN mem[a - s.start + s.load] ELSE mem[a]]
<1> DEFINE n == s.end - s.start
           After(k) == [a \in Addr |-> IF s.start <= a /\ a < s.start + k
                                       THEN mem[a - s.start + s.load] ELSE mem[a]]
<1> USE DEF Loadable
<1>1. n \in Nat
  OBVIOUS
<1>2. PICK g : Copies(g, mem, s)
  BY <1>1, LoadUnfold
<1>3. /\ g[0] = mem
      /\ \A k \in 1 .. n : g[k] = [g[k - 1] EXCEPT ![s.start + k - 1] = g[k - 1][s.load + k - 1]]
      /\ alt_load_section(mem, s) = IF s.start = s.load THEN mem ELSE g[n]
  BY <1>2 DEF Copies
<1> DEFINE S == {k \in 0 .. n : g[k] = After(k)}
<1>4. mem = After(0)
  <2>1. After(0) = [a \in Addr |-> mem[a]]
    OBVIOUS
  <2> HIDE DEF After
  <2> QED BY <2>1
<1>5. 0 \in S
  BY <1>1, <1>3, <1>4
<1>6. ASSUME NEW k \in 0 .. n - 1, k \in S PROVE k + 1 \in S
  <2>1. k + 1 \in 1 .. n /\ (k + 1) - 1 = k /\ s.start + (k + 1) - 1 = s.start + k
        /\ s.load + (k + 1) - 1 = s.load + k
    BY <1>1
  <2>2. g[k] = After(k)
    BY <1>6
  <2>3. g[k + 1] = [After(k) EXCEPT ![s.start + k] = After(k)[s.load + k]]
    BY <1>3, <2>1, <2>2
  <2>4. s.load + k \in Addr /\ s.start + k \in Addr
    BY <1>1
  <2>5. After(k)[s.load + k] = mem[s.load + k]
    <3>1. ~(s.load + k < s.start + k)
      OBVIOUS
    <3> QED BY <2>4, <3>1
  <2>6. ASSUME NEW a \in Addr
        PROVE  [After(k) EXCEPT ![s.start + k] = mem[s.load + k]][a] = After(k + 1)[a]
    <3>1. CASE a = s.start + k
      <4>1. After(k + 1)[a] = mem[a - s.start + s.load] /\ a - s.start + s.load = s.load + k
        BY <3>1
      <4> QED BY <3>1, <4>1
    <3>2. CASE a # s.start + k
      <4>1. (s.start <= a /\ a < s.start + (k + 1)) <=> (s.start <= a /\ a < s.start + k)
        <5>1. PICK c \in Int, b \in Int : c = a /\ b = s.start + k /\ s.start + (k + 1) = b + 1
          BY <1>1
        <5> QED BY <3>2, <5>1
      <4>2. After(k + 1)[a] = After(k)[a]
        BY <4>1
      <4> HIDE DEF After
      <4> QED BY <3>2, <4>2
    <3> QED BY <3>1, <3>2
  <2>7. g[k + 1] = After(k + 1)
    <3>1. DOMAIN After(k) = Addr /\ DOMAIN After(k + 1) = Addr /\ After(k + 1) = [a \in Addr |-> After(k + 1)[a]]
          /\ After(k) = [a \in Addr |-> After(k)[a]]
      OBVIOUS
    <3>2. g[k + 1] = [After(k) EXCEPT ![s.start + k] = mem[s.load + k]]
      BY <2>3, <2>5
    <3> HIDE DEF After
    <3> QED BY <2>6, <3>1, <3>2
  <2> QED BY <2>1, <2>7
<1> HIDE DEF S
<1>7. n \in S
  <2>1. 0 .. n \subseteq S
    BY <1>1, <1>5, <1>6, Upto
  <2> QED BY <1>1, <2>1
<1>8. g[n] = After(n)
  BY <1>7 DEF S
<1>9. s.start = s.load => n = 0
  OBVIOUS
<1>10. alt_load_section(mem, s) = After(n)
  BY <1>3, <1>4, <1>8, <1>9
<1>11. s.start + n = s.end
  OBVIOUS
<1> QED BY <1>10, <1>11
\* c has m elements, d has n.
Sizes(c, m, d, n) == c \in Seq(Int) /\ d \in Seq(Int) /\ Len(c) = m /\ Len(d) = n

LEMMA Joined ==
  ASSUME NEW c, NEW m \in Nat, NEW d, NEW n \in Nat, Sizes(c, m, d, n)
  PROVE  /\ c \o d \in Seq(Int) /\ Len(c \o d) = m + n
         /\ \A k \in 1 .. m : (c \o d)[k] = c[k]
         /\ \A k \in 1 .. n : (c \o d)[m + k] = d[k]
<1>0. c \in Seq(Int) /\ d \in Seq(Int) /\ Len(c) = m /\ Len(d) = n
  BY DEF Sizes
<1>1. c \o d \in Seq(Int) /\ Len(c \o d) = m + n
  BY <1>0, SMTT(30)
<1>2. \A k \in 1 .. m : (c \o d)[k] = c[k]
  BY <1>0
<1>3. ASSUME NEW k \in 1 .. n PROVE (c \o d)[m + k] = d[k]
  <2>1. PICK i \in 1 .. Len(c) + Len(d) : i = m + k
    BY <1>0
  <2>2. (c \o d)[i] = IF i <= Len(c) THEN c[i] ELSE d[i - Len(c)]
    BY <1>0, ConcatProperties
  <2>3. ~(i <= Len(c)) /\ i - Len(c) = k
    BY <1>0, <2>1
  <2> QED BY <2>1, <2>2, <2>3
<1> QED BY <1>1, <1>2, <1>3

\* The words of four parts, and where the second and the third one are.
Laying(code, data, image, rest) == code \o data \o image \o rest

Laid4(code, data, image, rest, r, w, q) == Sizes(code, r, data, w) /\ Sizes(image, w, rest, q)

Found(words, data, image, r, w, q) ==
  /\ Len(words) = r + 2 * w + q
  /\ \A k \in 1 .. w : words[r + k] = data[k]
  /\ \A k \in 1 .. w : words[r + w + k] = image[k]

LEMMA Laid ==
  ASSUME NEW r \in Nat, NEW w \in Nat, NEW q \in Nat,
         NEW code, NEW data, NEW image, NEW rest, Laid4(code, data, image, rest, r, w, q)
  PROVE  Found(Laying(code, data, image, rest), data, image, r, w, q)
<1> DEFINE front == code \o data
           most == front \o image
           words == most \o rest
<1>0. Sizes(code, r, data, w) /\ rest \in Seq(Int) /\ Len(rest) = q /\ image \in Seq(Int) /\ Len(image) = w
  BY DEF Laid4, Sizes
<1>1. front \in Seq(Int) /\ Len(front) = r + w /\ r + w \in Nat /\ \A k \in 1 .. w : front[r + k] = data[k]
  <2>1. code \o data \in Seq(Int)
    BY <1>0, Joined
  <2>2. Len(code \o data) = r + w
    BY <1>0, Joined
  <2>3. \A k \in 1 .. w : (code \o data)[r + k] = data[k]
    BY <1>0, Joined
  <2>4. r + w \in Nat
    OBVIOUS
  <2> HIDE DEF Sizes
  <2> QED BY <2>1, <2>2, <2>3, <2>4, Zenon
<1>2. Sizes(front, r + w, image, w)
  BY <1>0, <1>1 DEF Sizes
<1> HIDE DEF front
<1>3. /\ most \in Seq(Int) /\ Len(most) = r + w + w /\ r + w + w \in Nat
      /\ \A k \in 1 .. r + w : most[k] = front[k]
      /\ \A k \in 1 .. w : most[r + w + k] = image[k]
  <2>1. r + w + w \in Nat
    BY <1>1
  <2>2. front \o image \in Seq(Int)
    BY <1>1, <1>2, Joined
  <2>3. Len(front \o image) = r + w + w
    BY <1>1, <1>2, Joined
  <2>4. \A k \in 1 .. r + w : (front \o image)[k] = front[k]
    BY <1>1, <1>2, Joined
  <2>5. \A k \in 1 .. w : (front \o image)[r + w + k] = image[k]
    <3>1. PICK m \in Nat : m = r + w
      OBVIOUS
    <3>2. Sizes(front, m, image, w)
      BY <1>2, <3>1
    <3>3. \A k \in 1 .. w : (front \o image)[m + k] = image[k]
      BY <3>2, Joined
    <3> QED BY <3>1, <3>3
  <2> QED BY <2>1, <2>2, <2>3, <2>4, <2>5
<1>4. Sizes(most, r + w + w, rest, q)
  BY <1>0, <1>3 DEF Sizes
<1> HIDE DEF most
<1>5. Len(words) = r + w + w + q /\ \A k \in 1 .. r + w + w : words[k] = most[k]
  BY <1>3, <1>4, Joined
<1> HIDE DEF words
<1>6. ASSUME NEW k \in 1 .. w PROVE words[r + k] = data[k] /\ words[r + w + k] = image[k]
  <2>1. r + k \in 1 .. r + w /\ r + k \in 1 .. r + w + w /\ r + w + k \in 1 .. r + w + w
    OBVIOUS
  <2> QED BY <1>1, <1>3, <1>5, <2>1
<1>7. r + w + w + q = r + 2 * w + q
  OBVIOUS
<1> QED BY <1>5, <1>6, <1>7 DEF Found, words, most, front, Laying

Sized(j, r, w, b, p) ==
  r = j.size.rodata /\ w = j.size.rwdata /\ b = j.size.bss /\ p = j.size.partition

\* The memory m holds the data as they were left, from r on, and then their image.
Holds(m, j, r, w, b, p) ==
  /\ DOMAIN m = 0 .. r + 2 * w + b + p - 1
  /\ \A k \in 1 .. w : m[r + k - 1] = j.left[k]
  /\ \A k \in 1 .. w : m[r + w + k - 1] = j.image[k]

LEMMA MemoryFound ==
  ASSUME NEW j \in Resets, NEW r \in Nat, NEW w \in Nat, NEW b \in Nat, NEW p \in Nat,
         Sized(j, r, w, b, p)
  PROVE  Holds(MemoryAt(j), j, r, w, b, p)
<1> DEFINE code == [k \in 1 .. r |-> 50 + k]
           data == SubSeq(j.left, 1, w)
           rest == SubSeq(j.left, w + 1, Len(j.left))
           words == code \o data \o j.image \o rest
<1>1. j.image \in Seq(Int) /\ j.left \in Seq(Int) /\ Len(j.image) = w /\ Len(j.left) = w + b + p
  BY CallAssumption DEF Sized
<1>2. code \in Seq(Int) /\ Len(code) = r
  OBVIOUS
<1>3. PICK left \in Seq(Int) : left = j.left /\ Len(left) = w + b + p
  BY <1>1
<1>4. data \in Seq(Int) /\ Len(data) = w /\ \A k \in 1 .. w : data[k] = left[k]
  <2>1. w <= Len(left) /\ data = SubSeq(left, 1, w)
    BY <1>3
  <2> HIDE DEF data
  <2> QED BY <1>3, <2>1
<1>5. rest \in Seq(Int) /\ Len(rest) = b + p
  <2>1. rest = SubSeq(left, w + 1, w + b + p)
    BY <1>3
  <2> HIDE DEF rest
  <2> QED BY <1>3, <2>1
<1>6. MemoryAt(j) = [a \in 0 .. Len(words) - 1 |-> words[a + 1]]
  BY DEF MemoryAt, Sized
<1> HIDE DEF code, data, rest
<1>7. Len(words) = r + 2 * w + b + p /\ \A k \in 1 .. w : words[r + k] = j.left[k] /\ words[r + w + k] = j.image[k]
  <2>1. PICK q \in Nat, image \in Seq(Int) : q = b + p /\ image = j.image
    BY <1>1
  <2>2. Laid4(code, data, image, rest, r, w, q)
    BY <1>1, <1>2, <1>4, <1>5, <2>1 DEF Sizes, Laid4
  <2>3. Found(Laying(code, data, image, rest), data, image, r, w, q)
    BY <2>2, Laid
  <2>4. words = Laying(code, data, image, rest)
    BY <2>1 DEF Laying
  <2> HIDE DEF words
  <2>5. Found(words, data, image, r, w, q)
    BY <2>3, <2>4
  <2>6. Len(words) = r + 2 * w + b + p
    BY <2>1, <2>5 DEF Found
  <2>7. \A k \in 1 .. w : words[r + k] = data[k]
    BY <2>5 DEF Found
  <2>8. \A k \in 1 .. w : words[r + w + k] = image[k]
    BY <2>5 DEF Found
  <2> QED BY <1>3, <1>4, <2>1, <2>6, <2>7, <2>8
<1> HIDE DEF words
<1>8. DOMAIN MemoryAt(j) = 0 .. r + 2 * w + b + p - 1
  BY <1>6, <1>7
<1>9. ASSUME NEW a \in DOMAIN MemoryAt(j) PROVE MemoryAt(j)[a] = words[a + 1]
  BY <1>6
<1>10. ASSUME NEW k \in 1 .. w
       PROVE  MemoryAt(j)[r + k - 1] = j.left[k] /\ MemoryAt(j)[r + w + k - 1] = j.image[k]
  <2>1. r + k - 1 \in DOMAIN MemoryAt(j) /\ r + w + k - 1 \in DOMAIN MemoryAt(j)
        /\ (r + k - 1) + 1 = r + k /\ (r + w + k - 1) + 1 = r + w + k
    <3>1. r + k - 1 \in 0 .. r + 2 * w + b + p - 1 /\ r + w + k - 1 \in 0 .. r + 2 * w + b + p - 1
      OBVIOUS
    <3> QED BY <1>8, <3>1
  <2>2. MemoryAt(j)[r + k - 1] = words[r + k] /\ MemoryAt(j)[r + w + k - 1] = words[r + w + k]
    BY <1>9, <2>1
  <2> QED BY <1>7, <2>2
<1> QED BY <1>8, <1>10 DEF Holds

\* The memory alt_main finds: the data from their image, .bss zero, the rest as it was.
LEMMA MemoryLoaded ==
  ASSUME NEW j \in Resets, NEW r \in Nat, NEW w \in Nat, NEW b \in Nat, NEW p \in Nat,
         Sized(j, r, w, b, p)
  PROVE  LET before == MemoryAt(j)
             after == _start(before, j.size, j.logging).mem
         IN  /\ after = alt_load(ClearBss(before, bss(j.size)), j.size)
             /\ DOMAIN after = DOMAIN before
             /\ \A k \in 1 .. w : after[r + k - 1] = j.image[k]
             /\ \A a \in DOMAIN before :
                  /\ r + 2 * w <= a /\ a < r + 2 * w + b => after[a] = 0
                  /\ ~(r <= a /\ a < r + w) /\ ~(r + 2 * w <= a /\ a < r + 2 * w + b) => after[a] = before[a]
<1> DEFINE before == MemoryAt(j)
           cleared == ClearBss(before, bss(j.size))
           data == rwdata(j.size)
           after == alt_load(cleared, j.size)
           Addr == DOMAIN before
<1>1. /\ Addr = 0 .. r + 2 * w + b + p - 1
      /\ \A k \in 1 .. w : before[r + w + k - 1] = j.image[k]
  <2>1. Holds(MemoryAt(j), j, r, w, b, p)
    BY MemoryFound
  <2> QED BY <2>1 DEF Holds
<1>2. _start(before, j.size, j.logging).mem = after
  BY DEF _start
<1>3. data.start = r /\ data.end = r + w /\ data.load = r + w
  BY DEF rwdata, rodata, Sized
<1>4. bss(j.size).start = r + 2 * w /\ bss(j.size).end = r + 2 * w + b
  <2>1. bss(j.size).start = (r + w) + w /\ bss(j.size).end = (r + w) + w + b
    BY DEF bss, rwdata, rodata, Sized
  <2>2. (r + w) + w = r + 2 * w
    OBVIOUS
  <2> QED BY <2>1, <2>2
<1> HIDE DEF before
<1>5. cleared = [a \in Addr |-> IF r + 2 * w <= a /\ a < r + 2 * w + b THEN 0 ELSE before[a]]
  BY <1>4 DEF ClearBss
<1>6. after = alt_load_section(cleared, data)
  <2>1. rodata(j.size).start = rodata(j.size).load
    BY DEF rodata
  <2> QED BY <2>1 DEF alt_load, alt_load_section
<1> HIDE DEF after, cleared, data
<1>7. after = [a \in Addr |-> IF r <= a /\ a < r + w THEN cleared[a - r + (r + w)] ELSE cleared[a]]
  <2>1. Addr \in SUBSET Int /\ cleared = [a \in Addr |-> cleared[a]]
    BY <1>1, <1>5
  <2>2. data.start \in Nat /\ data.end \in Nat /\ data.load \in Nat /\ data.start <= data.end /\ data.end <= data.load
    BY <1>1, <1>3
  <2>3. data.start .. data.load + (data.end - data.start) - 1 \subseteq Addr
    <3>1. data.load + (data.end - data.start) - 1 = r + 2 * w - 1
      BY <1>3
    <3>2. r .. r + 2 * w - 1 \subseteq 0 .. r + 2 * w + b + p - 1
      OBVIOUS
    <3> QED BY <1>1, <1>3, <3>1, <3>2
  <2> HIDE DEF Addr
  <2>4. Loadable(Addr, cleared, data)
    BY <2>1, <2>2, <2>3 DEF Loadable
  <2>5. alt_load_section(cleared, data) =
          [a \in Addr |-> IF data.start <= a /\ a < data.end THEN cleared[a - data.start + data.load] ELSE cleared[a]]
    BY <2>4, Loads
  <2> QED BY <1>3, <1>6, <2>5
<1>8. ASSUME NEW k \in 1 .. w PROVE after[r + k - 1] = j.image[k]
  <2>1. PICK a \in Int : a = r + k - 1
    BY <1>1
  <2>2. a \in Addr /\ r <= a /\ a < r + w /\ a - r + (r + w) = r + w + k - 1 /\ r + w + k - 1 \in Addr
        /\ ~(r + 2 * w <= r + w + k - 1)
    BY <1>1, <2>1
  <2>3. after[a] = cleared[r + w + k - 1]
    BY <1>7, <2>2
  <2>4. cleared[r + w + k - 1] = before[r + w + k - 1]
    BY <1>5, <2>2
  <2> QED BY <1>1, <2>1, <2>3, <2>4
<1>9. ASSUME NEW a \in Addr
      PROVE  /\ r + 2 * w <= a /\ a < r + 2 * w + b => after[a] = 0
             /\ ~(r <= a /\ a < r + w) /\ ~(r + 2 * w <= a /\ a < r + 2 * w + b) => after[a] = before[a]
  <2>1. ~(r <= a /\ a < r + w) => after[a] = cleared[a]
    BY <1>7
  <2>2. r + 2 * w <= a => ~(r <= a /\ a < r + w)
    BY <1>1
  <2> QED BY <1>5, <2>1, <2>2
<1>10. DOMAIN after = Addr
  BY <1>7
<1> QED BY <1>2, <1>8, <1>9, <1>10 DEF after, cleared, before

LEMMA ResetCall ==
  ASSUME JobOK, Returned
  PROVE  StartsFresh
<1> SUFFICES ASSUME done, job.call = "reset" PROVE StartsFresh
  BY DEF StartsFresh
<1>1. job \in Resets /\ out = _start(MemoryAt(job), job.size, job.logging)
  BY WhoCalls DEF Returned
<1>2. PICK r \in Nat, w \in Nat, b \in Nat, p \in Nat :
        Sized(job, r, w, b, p)
  BY <1>1, CallAssumption DEF Sized
<1> DEFINE before == MemoryAt(job)
           data == r .. r + w - 1
           zeroed == {a \in DOMAIN before : \E k \in 1 .. b : a = r + 2 * w + k - 1}
<1>3. /\ DOMAIN before = 0 .. r + 2 * w + b + p - 1
      /\ \A k \in 1 .. w : before[r + k - 1] = job.left[k]
  <2>1. Holds(MemoryAt(job), job, r, w, b, p)
    BY <1>1, <1>2, MemoryFound
  <2> QED BY <2>1 DEF Holds
<1>4. /\ out.mem = alt_load(ClearBss(before, bss(job.size)), job.size)
      /\ DOMAIN out.mem = DOMAIN before
      /\ \A k \in 1 .. w : out.mem[r + k - 1] = job.image[k]
      /\ \A a \in DOMAIN before :
           /\ r + 2 * w <= a /\ a < r + 2 * w + b => out.mem[a] = 0
           /\ ~(r <= a /\ a < r + w) /\ ~(r + 2 * w <= a /\ a < r + 2 * w + b) => out.mem[a] = before[a]
  BY <1>1, <1>2, MemoryLoaded
<1>5. job.logging => w >= 2
  BY <1>1, <1>2, CallAssumption DEF Sized
<1>6. rwdata(job.size).start = r /\ alt_log_boot_on_flag(job.size) = r /\ alt_log_msg(job.size) = r + 1
  BY <1>2 DEF rwdata, rodata, alt_log_boot_on_flag, alt_log_msg, Sized
<1> DEFINE puts(m) == IF job.logging THEN ALT_LOG_PUTS(m, job.size) ELSE << >>
<1>7. out.early = puts(before) \o puts(before) \o puts(before) /\ out.late = puts(out.mem)
  BY <1>1 DEF _start
<1> HIDE DEF before
<1>8. \A a \in data : out.mem[a] = job.image[a - r + 1]
  <2> SUFFICES ASSUME NEW a \in data PROVE out.mem[a] = job.image[a - r + 1]
    OBVIOUS
  <2>1. PICK k \in 1 .. w : k = a - r + 1
    OBVIOUS
  <2>2. r + k - 1 = a
    BY <2>1
  <2>3. out.mem[r + k - 1] = job.image[k]
    BY <1>4
  <2> QED BY <2>1, <2>2, <2>3, Zenon
<1>9. \A a \in DOMAIN before : a \in zeroed <=> r + 2 * w <= a /\ a < r + 2 * w + b
  <2> SUFFICES ASSUME NEW a \in DOMAIN before
               PROVE  (\E k \in 1 .. b : a = r + 2 * w + k - 1) <=> r + 2 * w <= a /\ a < r + 2 * w + b
    OBVIOUS
  <2>1. a \in Int
    BY <1>3
  <2>2. ASSUME r + 2 * w <= a /\ a < r + 2 * w + b PROVE \E k \in 1 .. b : a = r + 2 * w + k - 1
    <3>1. a - (r + 2 * w) + 1 \in 1 .. b /\ a = r + 2 * w + (a - (r + 2 * w) + 1) - 1
      BY <1>3, <2>1, <2>2
    <3> QED BY <3>1
  <2>3. ASSUME NEW k \in 1 .. b, a = r + 2 * w + k - 1 PROVE r + 2 * w <= a /\ a < r + 2 * w + b
    BY <2>1, <2>3
  <2> QED BY <2>2, <2>3
<1>10. \A a \in zeroed : out.mem[a] = 0
  BY <1>4, <1>9
<1>11. \A a \in DOMAIN before \ (data \cup zeroed) : out.mem[a] = before[a]
  <2> SUFFICES ASSUME NEW a \in DOMAIN before, a \notin data, a \notin zeroed PROVE out.mem[a] = before[a]
    OBVIOUS
  <2>1. ~(r <= a /\ a < r + w)
    BY <1>3
  <2>2. ~(r + 2 * w <= a /\ a < r + 2 * w + b)
    BY <1>9
  <2> QED BY <1>4, <2>1, <2>2
<1>12. \A m : ALT_LOG_PUTS(m, job.size) = IF m[r] = 0 THEN << >> ELSE <<m[r + 1]>>
  BY <1>6 DEF ALT_LOG_PUTS, tx_log_str
<1>13. job.logging => /\ before[r] = job.left[1] /\ before[r + 1] = job.left[2]
                      /\ out.mem[r] = job.image[1] /\ out.mem[r + 1] = job.image[2]
  <2> SUFFICES ASSUME job.logging
               PROVE  /\ before[r] = job.left[1] /\ before[r + 1] = job.left[2]
                      /\ out.mem[r] = job.image[1] /\ out.mem[r + 1] = job.image[2]
    OBVIOUS
  <2>1. 1 \in 1 .. w /\ 2 \in 1 .. w /\ r + 1 - 1 = r /\ r + 2 - 1 = r + 1
    BY <1>3, <1>5
  <2> QED BY <1>3, <1>4, <2>1
<1>14. out.late = IF job.logging /\ job.image[1] # 0 THEN <<job.image[2]>> ELSE << >>
  BY <1>7, <1>12, <1>13
<1>15. out.early = IF job.logging /\ job.left[1] # 0 THEN [i \in 1 .. 3 |-> job.left[2]] ELSE << >>
  <2>1. CASE job.logging /\ job.left[1] # 0
    <3>1. puts(before) = <<job.left[2]>>
      BY <1>12, <1>13, <2>1
    <3>2. PICK x : x = job.left[2]
      OBVIOUS
    <3>3. <<x>> \o <<x>> \o <<x>> = [i \in 1 .. 3 |-> x]
      OBVIOUS
    <3> HIDE DEF puts
    <3> QED BY <1>7, <2>1, <3>1, <3>2, <3>3
  <2>2. CASE ~(job.logging /\ job.left[1] # 0)
    <3>1. puts(before) = << >>
      BY <1>12, <1>13, <2>2
    <3>2. << >> \o << >> \o << >> = << >>
      OBVIOUS
    <3> QED BY <1>7, <2>2, <3>1, <3>2
  <2> QED BY <2>1, <2>2
<1> HIDE DEF puts
<1> QED BY <1>2, <1>4, <1>8, <1>10, <1>11, <1>14, <1>15 DEF StartsFresh, before, Sized

\* Whatever a reset finds, the program starts with its data as linked and the rest as
\* it was, and the messages follow what is in memory by then.  This is StartsFresh
\* for sections of any size and any content of the memory.
THEOREM FreshStart == SpecCall => []StartsFresh
<1>1. JobOK /\ Returned => StartsFresh
  BY ResetCall
<1> QED BY <1>1, CallsReturn, PTL

-----------------------------------------------------------------------------
\* Printing.

\* The least element of a set of naturals.
LEMMA HasLeast ==
  ASSUME NEW S, S \subseteq Nat, S # {}
  PROVE  \E x \in S : \A y \in S : x <= y
<1> DEFINE R == {ss \in Nat \X Nat : ss[1] < ss[2]}
<1>1. IsWellFoundedOn(R, Nat)
  BY NatLessThanWellFounded DEF OpToRel
<1> HIDE DEF R
<1>2. PICK x \in S : \A y \in S : ~ (<<y, x>> \in R)
  BY <1>1, WFMin
<1>3. \A y \in S : ~ (y < x)
  BY <1>2 DEF R
<1>4. \A j \in S : x <= j
  BY <1>3
<1> QED BY <1>4

-----------------------------------------------------------------------------
\* Printing: powers, and the digits of a number.
LEMMA PowerOf ==
  ASSUME NEW b \in Nat
  PROVE  /\ power(b)[0] = 1
         /\ \A n \in Nat : power(b)[n + 1] = b * power(b)[n]
<1> DEFINE Def(v, n) == b * v
           p == CHOOSE g : g = [n \in Nat |-> IF n = 0 THEN 1 ELSE Def(g[n - 1], n)]
<1>1. power(b) = p
  BY DEF power
<1>2. NatInductiveDefHypothesis(p, 1, Def)
  BY DEF NatInductiveDefHypothesis
<1> HIDE DEF Def, p
<1>3. NatInductiveDefConclusion(p, 1, Def)
  BY <1>2, NatInductiveDef
<1>4. p = [n \in Nat |-> IF n = 0 THEN 1 ELSE Def(p[n - 1], n)]
  BY <1>3 DEF NatInductiveDefConclusion
<1>5. ASSUME NEW n \in Nat PROVE p[n + 1] = b * p[n]
  <2>1. n + 1 \in Nat /\ n + 1 # 0 /\ (n + 1) - 1 = n
    OBVIOUS
  <2>2. p[n + 1] = Def(p[n], n + 1)
    BY <1>4, <2>1
  <2> QED BY <2>2 DEF Def
<1>6. p[0] = 1
  BY <1>4
<1> QED BY <1>1, <1>5, <1>6

\* A power is positive.
LEMMA PowerPos ==
  ASSUME NEW b \in Nat \ {0}, NEW n \in Nat
  PROVE  power(b)[n] \in Nat \ {0}
<1> DEFINE S == {k \in Nat : power(b)[k] \in Nat \ {0}}
<1>1. 0 \in S
  BY PowerOf
<1>2. ASSUME NEW k \in 0 .. n - 1, k \in S PROVE k + 1 \in S
  <2>1. k + 1 \in Nat /\ power(b)[k + 1] = b * power(b)[k] /\ power(b)[k] \in Nat \ {0}
    BY <1>2, PowerOf
  <2> QED BY <2>1
<1> HIDE DEF S
<1>3. n \in S
  BY <1>1, <1>2, Upto
<1> QED BY <1>3 DEF S

\* A power grows with its base and with its exponent.
LEMMA PowerGrows ==
  ASSUME NEW b \in Nat \ {0, 1}, NEW n \in Nat
  PROVE  /\ power(2)[n] <= power(b)[n]
         /\ \A m \in Nat : m <= n => power(b)[m] <= power(b)[n]
<1>1. power(2)[n] <= power(b)[n]
  <2> DEFINE S == {k \in Nat : power(2)[k] <= power(b)[k]}
  <2>1. 0 \in S
    BY PowerOf
  <2>2. ASSUME NEW k \in 0 .. n - 1, k \in S PROVE k + 1 \in S
    <3> DEFINE x == power(2)[k]
               y == power(b)[k]
    <3>1. k + 1 \in Nat /\ power(2)[k + 1] = 2 * x /\ power(b)[k + 1] = b * y
      BY PowerOf
    <3>2. x \in Nat /\ y \in Nat /\ x <= y
      BY <2>2, PowerPos
    <3> HIDE DEF x, y
    <3>3. 2 * y <= b * y
      BY <3>2
    <3>4. 2 * x <= b * y
      BY <3>2, <3>3
    <3> QED BY <3>1, <3>4
  <2> HIDE DEF S
  <2>3. n \in S
    BY <2>1, <2>2, Upto
  <2> QED BY <2>3 DEF S
<1>2. ASSUME NEW m \in Nat, m <= n PROVE power(b)[m] <= power(b)[n]
  <2> DEFINE S == {k \in Nat : power(b)[m] <= power(b)[m + k]}
  <2>1. 0 \in S
    BY PowerPos
  <2>2. ASSUME NEW k \in 0 .. (n - m) - 1, k \in S PROVE k + 1 \in S
    <3> DEFINE y == power(b)[m + k]
    <3>1. k + 1 \in Nat /\ m + k \in Nat /\ m + (k + 1) = (m + k) + 1 /\ power(b)[(m + k) + 1] = b * y
      BY PowerOf
    <3>2. y \in Nat \ {0} /\ power(b)[m] \in Nat /\ power(b)[m] <= y
      BY <2>2, <3>1, PowerPos
    <3> HIDE DEF y
    <3>3. y <= b * y
      BY <3>2
    <3>4. power(b)[m] <= power(b)[m + (k + 1)]
      BY <3>1, <3>2, <3>3
    <3> QED BY <3>1, <3>4
  <2> HIDE DEF S
  <2>3. n - m \in Nat /\ n - m \in 0 .. n - m /\ m + (n - m) = n
    BY <1>2
  <2>4. n - m \in S
    <3>1. 0 .. n - m \subseteq S
      BY <2>1, <2>2, <2>3, Upto
    <3> QED BY <2>3, <3>1
  <2> QED BY <2>3, <2>4 DEF S
<1> QED BY <1>1, <1>2

\* n digits to the base b are what v needs.
Needs(v, b, n) ==
  n \in Nat \ {0} /\ v < power(b)[n] /\ (n = 1 \/ power(b)[n - 1] <= v)

\* A number below a power needs at most as many digits.
LEMMA NeedsLeast ==
  ASSUME NEW v \in Nat, NEW b \in Nat \ {0, 1}, NEW m \in Nat \ {0}, v < power(b)[m]
  PROVE  \E n \in 1 .. m : Needs(v, b, n)
<1> DEFINE S == {n \in 1 .. m : v < power(b)[n]}
<1>1. m \in S /\ S # {} /\ S \subseteq Nat
  OBVIOUS
<1>2. PICK n \in S : \A k \in S : n <= k
  BY <1>1, HasLeast
<1>3. n \in 1 .. m /\ v < power(b)[n]
  BY <1>2
<1>4. n # 1 => power(b)[n - 1] <= v
  <2> SUFFICES ASSUME n # 1 PROVE power(b)[n - 1] <= v
    OBVIOUS
  <2>1. n - 1 \in 1 .. m /\ n - 1 \in Nat /\ ~(n <= n - 1)
    BY <1>3
  <2>2. n - 1 \notin S
    BY <1>2, <2>1
  <2>3. power(b)[n - 1] \in Nat
    BY <2>1, PowerPos
  <2> QED BY <2>1, <2>2, <2>3
<1> QED BY <1>3, <1>4 DEF Needs

\* The digits the loop of divisions counts are as many as the number needs.
LEMMA Counted ==
  ASSUME NEW b \in Nat \ {0, 1}, NEW v \in 0 .. power(2)[Bits] - 1
  PROVE  Needs(v, b, digitCount(v, b)) /\ digitCount(v, b) \in 1 .. Bits
<1>1. Bits \in Nat \ {0}
  BY PrintfAssumption
<1>2. v \in Nat /\ v < power(b)[Bits]
  <2>1. power(2)[Bits] \in Nat /\ power(b)[Bits] \in Nat /\ power(2)[Bits] <= power(b)[Bits]
    BY <1>1, PowerPos, PowerGrows
  <2> QED BY <2>1
<1>3. \E n \in 1 .. Bits : v < power(b)[n] /\ (n = 1 \/ power(b)[n - 1] <= v)
  BY <1>1, <1>2, NeedsLeast DEF Needs
<1>4. digitCount(v, b) \in 1 .. Bits /\ v < power(b)[digitCount(v, b)]
        /\ (digitCount(v, b) = 1 \/ power(b)[digitCount(v, b) - 1] <= v)
  BY <1>3 DEF digitCount
<1> QED BY <1>1, <1>4 DEF Needs

\* To divide by q and then by b is to divide by b * q.
LEMMA DivTwice ==
  ASSUME NEW v \in Nat, NEW b \in Nat \ {0}, NEW q \in Nat \ {0}
  PROVE  /\ v \div q \in Nat /\ v \div (b * q) \in Nat
         /\ v \div q = b * (v \div (b * q)) + ((v \div q) % b)
<1> DEFINE x == v \div q
           r == v % q
           y == x \div b
           s == x % b
<1>1. x \in Int /\ r \in 0 .. q - 1 /\ v = q * x + r
  BY Euclid
<1>2. x \in Nat
  OBVIOUS
<1> HIDE DEF x, r
<1>3. y \in Int /\ s \in 0 .. b - 1 /\ x = b * y + s
  BY <1>2, Euclid
<1>4. y \in Nat
  BY <1>2
<1> HIDE DEF y, s
<1>5. b * q \in Nat \ {0}
  OBVIOUS
<1>6. q * s + r \in 0 .. b * q - 1
  <2>1. q * s + r \in Nat
    BY <1>1, <1>3
  <2>2. q * s <= q * (b - 1)
    BY <1>3
  <2>3. q * (b - 1) = b * q - q
    OBVIOUS
  <2>4. q * s \in Nat /\ b * q \in Nat
    BY <1>3
  <2> QED BY <1>1, <2>1, <2>2, <2>3, <2>4
<1>7. v = y * (b * q) + (q * s + r)
  <2>1. q * x = q * (b * y) + q * s
    BY <1>2, <1>3, <1>4
  <2>2. q * (b * y) = y * (b * q)
    BY <1>4
  <2>3. q * x \in Int /\ q * s \in Int /\ y * (b * q) \in Int
    BY <1>2, <1>3, <1>4, <1>5
  <2> QED BY <1>1, <2>1, <2>2, <2>3
<1>8. v \div (b * q) = y
  BY <1>4, <1>5, <1>6, <1>7, DivMod
<1> QED BY <1>2, <1>3, <1>4, <1>8 DEF x, y, s

\* A quotient by more than the number is zero.
LEMMA Quotient ==
  ASSUME NEW v \in Nat, NEW q \in Nat \ {0}
  PROVE  v \div q \in Nat /\ (v < q => v \div q = 0)
OBVIOUS

\* The value of a digit.
Val(c) == (CHOOSE i \in 1 .. 16 : Small[i] = c \/ Capital[i] = c) - 1

\* No letter stands for two digits.
LEMMA SmallLetters ==
  ASSUME NEW i \in 1 .. 16
  PROVE  \A j \in 1 .. 16 : Small[j] = Small[i] \/ Capital[j] = Small[i] => j = i
<1> DEFINE Same(k) == \A j \in 1 .. 16 : Small[j] = Small[k] \/ Capital[j] = Small[k] => j = k
<1>1. Same(1) /\ Same(2) /\ Same(3) /\ Same(4)
  BY DEF Small, Capital
<1>2. Same(5) /\ Same(6) /\ Same(7) /\ Same(8)
  BY DEF Small, Capital
<1>3. Same(9) /\ Same(10) /\ Same(11) /\ Same(12)
  BY DEF Small, Capital
<1>4. Same(13) /\ Same(14) /\ Same(15) /\ Same(16)
  BY DEF Small, Capital
<1> HIDE DEF Same
<1>5. Same(i)
  <2>1. i \in {1, 2, 3, 4, 5, 6, 7, 8, 9, 10, 11, 12, 13, 14, 15, 16}
    OBVIOUS
  <2> QED BY <1>1, <1>2, <1>3, <1>4, <2>1
<1> QED BY <1>5 DEF Same

\* The same for capital letters.
LEMMA CapitalLetters ==
  ASSUME NEW i \in 1 .. 16
  PROVE  \A j \in 1 .. 16 : Small[j] = Capital[i] \/ Capital[j] = Capital[i] => j = i
<1> DEFINE Same(k) == \A j \in 1 .. 16 : Small[j] = Capital[k] \/ Capital[j] = Capital[k] => j = k
<1>1. Same(1) /\ Same(2) /\ Same(3) /\ Same(4)
  BY DEF Small, Capital
<1>2. Same(5) /\ Same(6) /\ Same(7) /\ Same(8)
  BY DEF Small, Capital
<1>3. Same(9) /\ Same(10) /\ Same(11) /\ Same(12)
  BY DEF Small, Capital
<1>4. Same(13) /\ Same(14) /\ Same(15) /\ Same(16)
  BY DEF Small, Capital
<1> HIDE DEF Same
<1>5. Same(i)
  <2>1. i \in {1, 2, 3, 4, 5, 6, 7, 8, 9, 10, 11, 12, 13, 14, 15, 16}
    OBVIOUS
  <2> QED BY <1>1, <1>2, <1>3, <1>4, <2>1
<1> QED BY <1>5 DEF Same

\* What none of sixteen letters is.
LEMMA Nowhere ==
  ASSUME NEW l, NEW s,
         l[1] # s, l[2] # s, l[3] # s, l[4] # s, l[5] # s, l[6] # s, l[7] # s, l[8] # s,
         l[9] # s, l[10] # s, l[11] # s, l[12] # s, l[13] # s, l[14] # s, l[15] # s, l[16] # s,
         NEW i \in 1 .. 16
  PROVE  l[i] # s
<1>1. i \in {1, 2, 3, 4, 5, 6, 7, 8, 9, 10, 11, 12, 13, 14, 15, 16}
  OBVIOUS
<1> QED BY <1>1

\* No letter is a blank.
LEMMA NoBlank ==
  ASSUME NEW L \in {Small, Capital}, NEW i \in 1 .. 16
  PROVE  L[i] # Blank
<1> DEFINE Black(l) == /\ l[1] # Blank /\ l[2] # Blank /\ l[3] # Blank /\ l[4] # Blank
                       /\ l[5] # Blank /\ l[6] # Blank /\ l[7] # Blank /\ l[8] # Blank
                       /\ l[9] # Blank /\ l[10] # Blank /\ l[11] # Blank /\ l[12] # Blank
                       /\ l[13] # Blank /\ l[14] # Blank /\ l[15] # Blank /\ l[16] # Blank
<1>1. Black(Small)
  BY DEF Small, Blank
<1>2. Black(Capital)
  BY DEF Capital, Blank
<1> QED BY <1>1, <1>2, Nowhere

\* The characters that are printed.
Char ==
  STRING \cup ToSet(Small) \cup ToSet(Capital) \cup ToSet(Decimal)
         \cup {Blank, "-", "%", "!", "E", ":", "\n", "\r", "D", ".", "l"}
         \cup {"d", "i", "u", "o", "x", "X", "c", "s"}

\* A letter has the value of its place, and is neither a blank nor a sign.
LEMMA Letters ==
  ASSUME NEW L \in {Small, Capital}, NEW i \in 1 .. 16
  PROVE  /\ L[i] \in Char \ {Blank, "-"} /\ Val(L[i]) = i - 1
         /\ L[i] = "0" <=> i = 1
         /\ Len(L) = 16 /\ DOMAIN L = 1 .. 16 /\ L[i] \in ToSet(L)
<1>2. Small[i] # "-" /\ (Small[i] = "0" <=> i = 1)
  BY DEF Small
<1>3. Capital[i] # "-" /\ (Capital[i] = "0" <=> i = 1)
  BY DEF Capital
<1>4. Len(Small) = 16 /\ DOMAIN Small = 1 .. 16
  BY DEF Small
<1>5. Len(Capital) = 16 /\ DOMAIN Capital = 1 .. 16
  BY DEF Capital
<1>6. ASSUME NEW c, c = L[i] PROVE Val(c) = i - 1
  <2>1. Small[i] = c \/ Capital[i] = c
    BY <1>6
  <2>2. \A j \in 1 .. 16 : Small[j] = c \/ Capital[j] = c => j = i
    BY <1>6, SmallLetters, CapitalLetters
  <2>3. (CHOOSE j \in 1 .. 16 : Small[j] = c \/ Capital[j] = c) = i
    BY <2>1, <2>2
  <2> QED BY <2>3 DEF Val
<1>7. L[i] \in ToSet(L)
  BY <1>4, <1>5 DEF ToSet
<1>8. L[i] \in Char
  BY <1>7 DEF Char
<1> QED BY <1>2, <1>3, <1>4, <1>5, <1>6, <1>7, <1>8, NoBlank

\* The digits of a width are the first ten letters.
LEMMA Decimals ==
  ASSUME NEW c \in ToSet(Decimal)
  PROVE  /\ decimalValue(c) = Val(c) /\ Val(c) \in 0 .. 9
         /\ c \in Char \ {".", "%", "l"} /\ (c = "0" <=> Val(c) = 0)
<1>1. PICK i \in 1 .. 10 : c = Decimal[i]
  <2>1. Len(Decimal) = 10 /\ DOMAIN Decimal = 1 .. 10
    BY DEF Decimal
  <2> QED BY <2>1 DEF ToSet
<1>2. i \in {1, 2, 3, 4, 5, 6, 7, 8, 9, 10}
  OBVIOUS
<1>3. Decimal[i] = Small[i] /\ Decimal[i] \notin {".", "%", "l"}
  BY <1>2 DEF Decimal, Small
<1>4. \A j \in 1 .. 10 : Decimal[j] = Small[j]
  <2> SUFFICES ASSUME NEW j \in 1 .. 10 PROVE Decimal[j] = Small[j]
    OBVIOUS
  <2>1. j \in {1, 2, 3, 4, 5, 6, 7, 8, 9, 10}
    OBVIOUS
  <2> QED BY <2>1 DEF Decimal, Small
<1>5. \A j \in 1 .. 10 : Decimal[j] = c => j = i
  BY <1>1, <1>3, <1>4, SmallLetters
<1>6. decimalValue(c) = i - 1
  <2>1. (CHOOSE j \in 1 .. 10 : Decimal[j] = c) = i
    BY <1>1, <1>5
  <2> QED BY <2>1 DEF decimalValue
<1>7. Small[i] \in Char /\ Val(Small[i]) = i - 1 /\ (Small[i] = "0" <=> i = 1)
  <2>1. Small \in {Small, Capital} /\ i \in 1 .. 16
    OBVIOUS
  <2> QED BY <2>1, Letters
<1> QED BY <1>1, <1>3, <1>6, <1>7

-----------------------------------------------------------------------------
\* The loop of Read.
Reader(digits, base) ==
    LET r[k \in 0 .. Len(digits)] == IF k = 0 THEN 0 ELSE base * r[k - 1] + Val(digits[k])
    IN  r

\* Reading a number takes one digit more at each turn.
LEMMA ReadUnfold ==
  ASSUME NEW S, NEW t \in Seq(S), NEW b
  PROVE  /\ Read(t, b) = Reader(t, b)[Len(t)]
         /\ Reader(t, b)[0] = 0
         /\ \A k \in 0 .. Len(t) - 1 : Reader(t, b)[k + 1] = b * Reader(t, b)[k] + Val(t[k + 1])
<1> DEFINE n == Len(t)
           Def(v, k) == b * v + Val(t[k])
           r == CHOOSE g : g = [k \in 0 .. n |-> IF k = 0 THEN 0 ELSE Def(g[k - 1], k)]
<1>1. Reader(t, b) = r
  BY DEF Reader
<1>2. Read(t, b) = r[n]
  BY DEF Read, Val
<1>3. n \in Nat /\ 0 \in Nat
  OBVIOUS
<1>4. FiniteNatInductiveDefHypothesis(r, 0, Def, 0, n)
  BY DEF FiniteNatInductiveDefHypothesis
<1> HIDE DEF Def, r, n
<1>5. FiniteNatInductiveDefConclusion(r, 0, Def, 0, n)
  BY <1>3, <1>4, FiniteNatInductiveDef
<1>6. r = [k \in 0 .. n |-> IF k = 0 THEN 0 ELSE Def(r[k - 1], k)]
  BY <1>5 DEF FiniteNatInductiveDefConclusion
<1>7. ASSUME NEW k \in 0 .. n - 1 PROVE r[k + 1] = b * r[k] + Val(t[k + 1])
  <2>1. k + 1 \in 0 .. n /\ k + 1 # 0 /\ (k + 1) - 1 = k
    BY <1>3
  <2>2. r[k + 1] = Def(r[k], k + 1)
    BY <1>6, <2>1
  <2> QED BY <2>2 DEF Def
<1>8. r[0] = 0
  BY <1>3, <1>6
<1> QED BY <1>1, <1>2, <1>7, <1>8 DEF n

-----------------------------------------------------------------------------
\* The n digits of v to the base b.
Digits(v, b, n, L) == [i \in 1 .. n |-> L[((v \div power(b)[n - i]) % b) + 1]]

\* Each digit has its letter.
LEMMA OneDigit ==
  ASSUME NEW v \in Nat, NEW b \in 2 .. 16, NEW k \in Nat
  PROVE  /\ v \div power(b)[k] \in Nat /\ (v \div power(b)[k]) % b \in Nat
         /\ (v \div power(b)[k]) % b \in 0 .. b - 1
         /\ ((v \div power(b)[k]) % b) + 1 \in 1 .. 16
<1>1. power(b)[k] \in Nat \ {0}
  BY PowerPos
<1>2. v \div power(b)[k] \in Nat
  BY <1>1, Quotient
<1>3. ASSUME NEW x \in Nat PROVE x % b \in 0 .. b - 1 /\ (x % b) + 1 \in 1 .. 16
  OBVIOUS
<1> QED BY <1>2, <1>3, SMTT(30)

\* The first digit is zero only when it is the only one.
LEMMA FirstDigit ==
  ASSUME NEW v \in Nat, NEW b \in 2 .. 16, NEW n, Needs(v, b, n), NEW L \in {Small, Capital},
         Digits(v, b, n, L)[1] = "0"
  PROVE  n = 1 /\ v = 0
<1> DEFINE q == power(b)[n - 1]
           x == v \div q
<1>1. n \in Nat \ {0} /\ n - 1 \in Nat /\ (n - 1) + 1 = n /\ 1 \in 1 .. n /\ b \in Nat
  BY DEF Needs
<1>2. q \in Nat \ {0} /\ v < b * q /\ (n = 1 \/ q <= v)
  BY <1>1, PowerPos, PowerOf DEF Needs
<1>3. (x % b) + 1 \in 1 .. 16 /\ x \in Nat /\ x % b \in Nat
  <2>1. n - 1 \in Nat /\ v \in Nat /\ b \in 2 .. 16
    BY <1>1
  <2> QED BY <2>1, OneDigit
<1>4. L[(x % b) + 1] = "0"
  BY <1>1 DEF Digits
<1>5. x % b = 0
  <2>1. (x % b) + 1 = 1
    BY <1>3, <1>4, Letters
  <2> QED BY <1>3, <2>1
<1> HIDE DEF q
<1>6. v = q * x + (v % q) /\ v % q \in 0 .. q - 1
  <2>1. v \in Int /\ q \in Nat \ {0}
    BY <1>2
  <2> QED BY <2>1, Euclid
<1> HIDE DEF x
<1>7. x < b
  <2> SUFFICES ASSUME x >= b PROVE FALSE
    BY <1>3
  <2>1. q * x >= q * b /\ q * b = b * q
    BY <1>2, <1>3
  <2> QED BY <1>1, <1>2, <1>3, <1>6, <2>1
<1>8. x = 0
  <2>1. x % b = x
    BY <1>3, <1>7
  <2> QED BY <1>5, <2>1
<1>9. v < q
  BY <1>2, <1>6, <1>8
<1>10. n = 1
  BY <1>2, <1>9
<1>11. q = 1
  BY <1>10, PowerOf DEF q
<1> QED BY <1>9, <1>10, <1>11

\* The text t is z zeros and these digits.
IsDigits(t, z, v, b, n, L) ==
  /\ t \in Seq(Char) /\ Len(t) = z + n
  /\ \A i \in 1 .. z : t[i] = "0"
  /\ \A i \in 1 .. n : t[z + i] = Digits(v, b, n, L)[i]

\* A number written with its digits, behind any zeros, reads back as itself.
LEMMA DigitsRead ==
  ASSUME NEW v \in Nat, NEW b \in 2 .. 16, NEW n, Needs(v, b, n), NEW L \in {Small, Capital},
         NEW z \in Nat, NEW t, IsDigits(t, z, v, b, n, L)
  PROVE  /\ Read(t, b) = v
         /\ ToSet(t) \subseteq ToSet(L)
         /\ t[1] = "0" => z > 0 \/ (n = 1 /\ v = 0)
<1> DEFINE r == Reader(t, b)
           x(j) == v \div power(b)[n - j]
<1>1. n \in Nat \ {0} /\ v < power(b)[n] /\ b \in Nat \ {0}
  BY DEF Needs
<1>2. /\ Read(t, b) = r[z + n] /\ r[0] = 0
      /\ \A k \in 0 .. (z + n) - 1 : r[k + 1] = b * r[k] + Val(t[k + 1])
  <2>1. t \in Seq(Char) /\ Len(t) = z + n
    BY DEF IsDigits
  <2> QED BY <2>1, ReadUnfold
<1> HIDE DEF r
<1>3. Val("0") = 0 /\ "0" \in ToSet(L) /\ L[1] = "0"
  <2>1. 1 \in 1 .. 16
    OBVIOUS
  <2>2. Small[1] = "0" /\ Capital[1] = "0"
    BY DEF Small, Capital
  <2>3. L[1] = "0" /\ Val(L[1]) = 1 - 1 /\ L[1] \in ToSet(L)
    BY <2>1, <2>2, Letters
  <2> QED BY <2>3
<1>4. r[z] = 0
  <2> DEFINE S == {k \in 0 .. z : r[k] = 0}
  <2>1. 0 \in S
    BY <1>2
  <2>2. ASSUME NEW k \in 0 .. z - 1, k \in S PROVE k + 1 \in S
    <3>1. k + 1 \in 1 .. z /\ k + 1 \in 0 .. z /\ k \in 0 .. (z + n) - 1
      BY <1>1
    <3>2. r[k + 1] = b * 0 + 0
      BY <1>2, <1>3, <2>2, <3>1 DEF IsDigits
    <3> QED BY <3>1, <3>2
  <2> HIDE DEF S
  <2>3. z \in S
    BY <2>1, <2>2, Upto
  <2> QED BY <2>3 DEF S
<1>5. ASSUME NEW i \in 1 .. n
      PROVE  /\ t[z + i] = L[(x(i) % b) + 1] /\ (x(i) % b) + 1 \in 1 .. 16
             /\ Val(t[z + i]) = x(i) % b /\ x(i) \in Nat /\ n - i \in Nat
  <2>1. n - i \in Nat
    BY <1>1
  <2>2. (x(i) % b) + 1 \in 1 .. 16 /\ x(i) \in Nat /\ x(i) % b \in Nat
    BY <2>1, OneDigit
  <2>3. t[z + i] = L[(x(i) % b) + 1]
    BY DEF Digits, IsDigits
  <2>4. Val(t[z + i]) = ((x(i) % b) + 1) - 1
    BY <2>2, <2>3, Letters
  <2> QED BY <2>1, <2>2, <2>3, <2>4
<1>6. r[z + n] = x(n)
  <2> DEFINE S == {j \in 0 .. n : r[z + j] = x(j)}
  <2>1. 0 \in S
    <3>1. power(b)[n] \in Nat \ {0}
      BY <1>1, PowerPos
    <3>2. v \div power(b)[n] = 0
      BY <1>1, <3>1, Quotient
    <3>3. n - 0 = n /\ z + 0 = z
      BY <1>1
    <3> QED BY <1>1, <1>4, <3>2, <3>3
  <2>2. ASSUME NEW k \in 0 .. n - 1, k \in S PROVE k + 1 \in S
    <3> DEFINE q == power(b)[n - (k + 1)]
    <3>1. k + 1 \in 1 .. n /\ n - (k + 1) \in Nat /\ (n - (k + 1)) + 1 = n - k
           /\ z + k \in 0 .. (z + n) - 1 /\ (z + k) + 1 = z + (k + 1) /\ k + 1 \in 0 .. n
      BY <1>1
    <3>2. q \in Nat \ {0} /\ power(b)[n - k] = b * q
      BY <1>1, <3>1, PowerPos, PowerOf
    <3>3. v \div q = b * (v \div (b * q)) + ((v \div q) % b)
      BY <1>1, <3>2, DivTwice
    <3>4. r[z + k] = v \div (b * q)
      BY <2>2, <3>2
    <3>5. Val(t[z + (k + 1)]) = (v \div q) % b
      BY <1>5, <3>1
    <3>6. r[z + (k + 1)] = b * r[z + k] + Val(t[z + (k + 1)])
      BY <1>2, <3>1
    <3>7. r[z + (k + 1)] = v \div q
      BY <3>3, <3>4, <3>5, <3>6
    <3> QED BY <3>1, <3>7
  <2> HIDE DEF S
  <2>3. n \in S
    <3>1. 0 .. n \subseteq S /\ n \in 0 .. n
      BY <1>1, <2>1, <2>2, Upto
    <3> QED BY <3>1
  <2> QED BY <2>3 DEF S
<1>7. x(n) = v
  <2>1. n - n = 0 /\ power(b)[0] = 1
    BY <1>1, PowerOf
  <2> QED BY <2>1
<1>8. ToSet(t) \subseteq ToSet(L)
  <2> SUFFICES ASSUME NEW k \in 1 .. z + n PROVE t[k] \in ToSet(L)
    <3>1. t \in Seq(Char) /\ Len(t) = z + n
      BY DEF IsDigits
    <3> QED BY <3>1 DEF ToSet
  <2>1. CASE k <= z
    <3>1. k \in 1 .. z
      BY <2>1
    <3> QED BY <1>3, <3>1 DEF IsDigits
  <2>2. CASE k > z
    <3>1. k - z \in 1 .. n /\ z + (k - z) = k
      BY <1>1, <2>2
    <3>2. t[k] = L[(x(k - z) % b) + 1] /\ (x(k - z) % b) + 1 \in 1 .. 16
      BY <1>5, <3>1
    <3> QED BY <3>2, Letters
  <2> QED BY <1>1, <2>1, <2>2
<1>9. t[1] = "0" => z > 0 \/ (n = 1 /\ v = 0)
  <2> SUFFICES ASSUME t[1] = "0", z = 0 PROVE n = 1 /\ v = 0
    OBVIOUS
  <2>1. 1 \in 1 .. n /\ t[0 + 1] = t[1]
    BY <1>1
  <2>2. Digits(v, b, n, L)[1] = "0"
    BY <2>1 DEF IsDigits
  <2> QED BY <2>2, FirstDigit
<1> QED BY <1>2, <1>6, <1>7, <1>8, <1>9

-----------------------------------------------------------------------------
\* What repchar prints, and where the blanks of a field end.
LEMMA Repeated ==
  ASSUME NEW c \in Char, NEW r \in Int
  PROVE  /\ alt_log_repchar(c, r) \in Seq(Char)
         /\ Len(alt_log_repchar(c, r)) = IF r > 0 THEN r ELSE 0
         /\ \A i \in 1 .. r : alt_log_repchar(c, r)[i] = c
         /\ r <= 0 => alt_log_repchar(c, r) = << >>
<1> DEFINE s == alt_log_repchar(c, r)
           n == IF r > 0 THEN r ELSE 0
<1>1. n \in Nat /\ 1 .. r = 1 .. n
  OBVIOUS
<1>2. s = [i \in 1 .. n |-> c]
  BY <1>1 DEF alt_log_repchar
<1> HIDE DEF s, n
<1>3. s \in Seq(Char) /\ Len(s) = n
  BY <1>1, <1>2
<1>4. \A i \in 1 .. r : s[i] = c
  BY <1>1, <1>2
<1>5. r <= 0 => s = << >>
  BY <1>3 DEF n
<1> QED BY <1>3, <1>4, <1>5 DEF s, n

\* Where the blanks of a field end.
LEMMA BlanksEnd ==
  ASSUME NEW S, NEW t \in Seq(S), NEW r \in 0 .. Len(t),
         \A i \in 1 .. r : t[i] = Blank,
         r < Len(t) => t[r + 1] # Blank
  PROVE  Blanks(t) = 1 .. r /\ AfterBlanks(t) = SubSeq(t, r + 1, Len(t))
<1>1. Blanks(t) = 1 .. r
  <2>1. ASSUME NEW i \in 1 .. r PROVE i \in Blanks(t)
    BY DEF Blanks
  <2>2. ASSUME NEW i \in Blanks(t) PROVE i \in 1 .. r
    <3>1. i \in 1 .. Len(t) /\ \A j \in 1 .. i : t[j] = Blank
      BY DEF Blanks
    <3>2. r + 1 \notin 1 .. i
      <4> SUFFICES ASSUME r + 1 \in 1 .. i PROVE FALSE
        OBVIOUS
      <4>1. r < Len(t) /\ t[r + 1] = Blank
        BY <3>1
      <4> QED BY <4>1
    <3> QED BY <3>1, <3>2
  <2> QED BY <2>1, <2>2
<1>2. Cardinality(1 .. r) = r
  BY FS_Interval
<1> QED BY <1>1, <1>2 DEF AfterBlanks

\* A text behind blanks that does not begin with one.
LEMMA BlanksThen ==
  ASSUME NEW r \in Int, NEW S, NEW u \in Seq(S), Blank \in S, u # << >> => u[1] # Blank
  PROVE  LET t == alt_log_repchar(Blank, r) \o u
             n == IF r > 0 THEN r ELSE 0
         IN  /\ t \in Seq(S) /\ Len(t) = n + Len(u)
             /\ Blanks(t) = 1 .. n /\ AfterBlanks(t) = u
<1> DEFINE b == alt_log_repchar(Blank, r)
           t == b \o u
           n == IF r > 0 THEN r ELSE 0
<1>1. n \in Nat /\ Len(u) \in Nat
  OBVIOUS
<1>2. b \in Seq(S) /\ Len(b) = n /\ \A i \in 1 .. n : b[i] = Blank
  <2>1. 1 .. r = 1 .. n
    OBVIOUS
  <2>2. b = [i \in 1 .. n |-> Blank]
    BY <2>1 DEF alt_log_repchar
  <2> HIDE DEF b, n
  <2> QED BY <1>1, <2>2
<1> HIDE DEF b, n
<1>3. t \in Seq(S) /\ Len(t) = n + Len(u)
  BY <1>2
<1>4. \A i \in 1 .. n : t[i] = Blank
  BY <1>1, <1>2
<1>5. \A i \in 1 .. Len(u) : t[n + i] = u[i]
  BY <1>1, <1>2
<1> HIDE DEF t
<1>6. n < Len(t) => t[n + 1] # Blank
  <2> SUFFICES ASSUME n < Len(t) PROVE t[n + 1] # Blank
    OBVIOUS
  <2>1. 1 \in 1 .. Len(u) /\ u # << >>
    BY <1>1, <1>3
  <2> QED BY <1>5, <2>1
<1>7. Blanks(t) = 1 .. n /\ AfterBlanks(t) = SubSeq(t, n + 1, Len(t))
  <2>1. n \in 0 .. Len(t)
    BY <1>1, <1>3
  <2> QED BY <1>3, <1>4, <1>6, <2>1, BlanksEnd
<1>8. SubSeq(t, n + 1, Len(t)) = u
  <2>1. SubSeq(t, n + 1, Len(t)) \in Seq(S) /\ Len(SubSeq(t, n + 1, Len(t))) = Len(u)
    BY <1>1, <1>3
  <2>2. ASSUME NEW i \in 1 .. Len(u) PROVE SubSeq(t, n + 1, Len(t))[i] = u[i]
    <3>1. SubSeq(t, n + 1, Len(t))[i] = t[n + i]
      BY <1>1, <1>3
    <3> QED BY <1>5, <3>1
  <2> QED BY <2>1, <2>2, SeqEqual
<1> QED BY <1>3, <1>7, <1>8 DEF t, b, n

-----------------------------------------------------------------------------
\* What an integer conversion prints.
IntegerTypes == {"d", "i", "u", "o", "x", "X"}
NumberConversion(c) ==
  c.zero \in BOOLEAN /\ c.type \in IntegerTypes /\ c.arg \in 0 .. power(2)[Bits] - 1

Neg(c) == c.type \in {"d", "i"} /\ c.arg >= power(2)[Bits - 1]
Mag(c) == IF Neg(c) THEN power(2)[Bits] - c.arg ELSE c.arg
Sign(c) == IF Neg(c) THEN <<"-">> ELSE << >>
LettersOf(c) == IF c.type = "X" THEN Capital ELSE Small

NumberField(t, c, r, z, n, d) ==
  /\ r \in Nat /\ z \in Nat /\ Needs(Mag(c), Base(c.type), n)
  /\ IsDigits(d, z, Mag(c), Base(c.type), n, LettersOf(c))
  /\ t = alt_log_repchar(Blank, r) \o (Sign(c) \o d)
  /\ IF c.zero THEN r = 0 ELSE z = 0
  /\ Len(t) >= Width(c) /\ (r > 0 \/ z > 0 => Len(t) = Width(c))

\* What is written of a number is its absolute value.
LEMMA Magnitude ==
  ASSUME NEW c, NumberConversion(c)
  PROVE  /\ Neg(c) \in BOOLEAN /\ Mag(c) \in 0 .. power(2)[Bits] - 1 /\ Mag(c) \in Nat
         /\ Mag(c) = 0 => c.arg = 0
         /\ Base(c.type) \in {8, 10, 16} /\ Base(c.type) \in 2 .. 16
         /\ LettersOf(c) \in {Small, Capital}
<1>1. Bits \in Nat \ {0} /\ Bits - 1 \in Nat
  BY PrintfAssumption
<1>2. power(2)[Bits - 1] \in Nat \ {0} /\ power(2)[Bits] \in Nat \ {0}
  BY <1>1, PowerPos
<1>3. c.arg \in 0 .. power(2)[Bits] - 1 /\ c.type \in IntegerTypes
  BY DEF NumberConversion
<1>4. Neg(c) \in BOOLEAN
  BY DEF Neg
<1>5. Neg(c) => c.arg > 0
  BY <1>2, <1>3 DEF Neg
<1>6. Mag(c) \in 0 .. power(2)[Bits] - 1 /\ (Mag(c) = 0 => c.arg = 0)
  BY <1>2, <1>3, <1>5 DEF Mag
<1>7. Mag(c) \in Nat
  BY <1>2, <1>6
<1>8. Base(c.type) \in {8, 10, 16} /\ Base(c.type) \in 2 .. 16
  BY DEF Base
<1>9. LettersOf(c) \in {Small, Capital}
  BY DEF LettersOf
<1> QED BY <1>4, <1>6, <1>7, <1>8, <1>9

\* A field of blanks, sign, zeros and digits is the field of its argument.
LEMMA NumberReads ==
  ASSUME NEW c, NumberConversion(c), NEW t, NEW r, NEW z, NEW n, NEW d, NumberField(t, c, r, z, n, d)
  PROVE  IsNumber(t, c)
<1> DEFINE v == Mag(c)
           b == Base(c.type)
           L == LettersOf(c)
           u == Sign(c) \o d
<1>1. /\ Neg(c) \in BOOLEAN /\ v \in Nat /\ (v = 0 => c.arg = 0)
      /\ b \in 2 .. 16 /\ L \in {Small, Capital}
  BY Magnitude
<1>2. /\ r \in Nat /\ z \in Nat /\ Needs(v, b, n) /\ n \in Nat \ {0}
      /\ IsDigits(d, z, v, b, n, L)
      /\ t = alt_log_repchar(Blank, r) \o u
      /\ IF c.zero THEN r = 0 ELSE z = 0
      /\ Len(t) >= Width(c) /\ (r > 0 \/ z > 0 => Len(t) = Width(c))
  BY DEF NumberField, Needs
<1>3. Read(d, b) = v /\ ToSet(d) \subseteq ToSet(L) /\ (d[1] = "0" => z > 0 \/ (n = 1 /\ v = 0))
  <2> HIDE DEF v, b, L
  <2> QED BY <1>1, <1>2, DigitsRead, SMTT(30)
<1>4. d \in Seq(Char) /\ Len(d) = z + n /\ Len(d) > 0 /\ 1 \in 1 .. Len(d)
  BY <1>2 DEF IsDigits
<1>5. d[1] # "-" /\ d[1] # Blank
  <2>1. d[1] \in ToSet(L)
    <3>1. d[1] \in ToSet(d)
      BY <1>4 DEF ToSet
    <3> QED BY <1>3, <3>1
  <2>2. 1 \in 1 .. 16 /\ DOMAIN L = 1 .. 16
    BY <1>1, Letters
  <2>3. PICK i \in 1 .. 16 : d[1] = L[i]
    BY <2>1, <2>2 DEF ToSet
  <2> QED BY <1>1, <2>3, Letters
<1>6. "-" \in Char /\ Blank \in Char /\ "-" # Blank
  BY DEF Char, Blank
<1>7. /\ u \in Seq(Char) /\ u # << >> /\ u[1] # Blank
      /\ Neg(c) <=> u[1] = "-"
      /\ (IF Neg(c) THEN Tail(u) ELSE u) = d
  <2>1. CASE Neg(c)
    <3>1. u = <<"-">> \o d
      BY <2>1 DEF Sign
    <3>2. u \in Seq(Char) /\ u[1] = "-" /\ Len(u) = 1 + Len(d)
      BY <1>4, <1>6, <3>1
    <3>3. Tail(u) = d
      <4>1. Tail(u) \in Seq(Char) /\ Len(Tail(u)) = Len(d)
        BY <1>4, <3>2
      <4>2. ASSUME NEW i \in 1 .. Len(d) PROVE Tail(u)[i] = d[i]
        BY <1>4, <1>6, <3>1, <3>2
      <4> QED BY <1>4, <4>1, <4>2, SeqEqual
    <3>4. u # << >>
      BY <1>4, <3>2
    <3> QED BY <1>6, <2>1, <3>2, <3>3, <3>4
  <2>2. CASE ~Neg(c)
    <3>1. u = << >> \o d
      BY <2>2 DEF Sign
    <3>2. u = d
      BY <1>4, <3>1, ConcatEmptySeq
    <3>3. d # << >>
      BY <1>4
    <3> QED BY <1>4, <1>5, <2>2, <3>2, <3>3
  <2> QED BY <2>1, <2>2
<1> HIDE DEF u, v, b, L
<1>8. Blanks(t) = 1 .. r /\ AfterBlanks(t) = u
  <2>1. r = IF r > 0 THEN r ELSE 0
    BY <1>2
  <2> QED BY <1>2, <1>6, <1>7, <2>1, BlanksThen
<1>9. Blanks(t) = {} <=> r = 0
  <2>1. r # 0 => 1 \in 1 .. r
    BY <1>2
  <2>2. r = 0 => 1 .. r = {}
    OBVIOUS
  <2> QED BY <1>8, <2>1, <2>2
<1> DEFINE digits == IF Neg(c) THEN Tail(u) ELSE u
           padded == IF c.zero THEN digits[1] = "0" /\ Len(digits) > 1 ELSE Blanks(t) # {}
<1>10. padded => Len(t) = Width(c)
  <2>1. CASE c.zero
    <3> SUFFICES ASSUME d[1] = "0", Len(d) > 1 PROVE Len(t) = Width(c)
      BY <1>7, <2>1
    <3>1. z > 0
      BY <1>2, <1>3, <1>4
    <3> QED BY <1>2, <3>1
  <2>2. CASE ~c.zero
    BY <1>2, <1>9, <2>2
  <2> QED BY <2>1, <2>2
<1>11. ~c.zero => (digits[1] = "0" => c.arg = 0 /\ Len(digits) = 1)
  <2> SUFFICES ASSUME ~c.zero, d[1] = "0" PROVE c.arg = 0 /\ Len(d) = 1
    BY <1>7
  <2>1. z = 0
    BY <1>2
  <2> QED BY <1>1, <1>2, <1>3, <1>4, <2>1
<1>12. c.zero => Blanks(t) = {}
  BY <1>2, <1>9
<1>13. Read(digits, b) = v /\ Len(digits) > 0 /\ ToSet(digits) \subseteq ToSet(L)
  BY <1>3, <1>4, <1>7
<1> HIDE DEF digits
<1>14. /\ Neg(c) <=> AfterBlanks(t)[1] = "-"
       /\ digits = IF Neg(c) THEN Tail(AfterBlanks(t)) ELSE AfterBlanks(t)
  BY <1>7, <1>8 DEF digits
<1> QED BY <1>2, <1>10, <1>11, <1>12, <1>13, <1>14 DEF IsNumber, Neg, v, b, L, Mag, LettersOf

\* Digits are characters, and as many as asked for.
LEMMA DigitsWritten ==
  ASSUME NEW v \in Nat, NEW b \in 2 .. 16, NEW n \in Nat, NEW L \in {Small, Capital}
  PROVE  Digits(v, b, n, L) \in Seq(Char) /\ Len(Digits(v, b, n, L)) = n
<1> DEFINE x(i) == ((v \div power(b)[n - i]) % b) + 1
<1>1. ASSUME NEW i \in 1 .. n PROVE L[x(i)] \in Char
  <2>1. n - i \in Nat
    OBVIOUS
  <2>2. x(i) \in 1 .. 16
    BY <2>1, OneDigit
  <2> HIDE DEF x
  <2> QED BY <2>2, Letters
<1>2. Digits(v, b, n, L) = [i \in 1 .. n |-> L[x(i)]]
  BY DEF Digits
<1> HIDE DEF x
<1> QED BY <1>1, <1>2

\* Zeros and digits; without zeros, the digits alone.
LEMMA Zeros ==
  ASSUME NEW v \in Nat, NEW b \in 2 .. 16, NEW n \in Nat, NEW L \in {Small, Capital}, NEW k \in Int
  PROVE  /\ IsDigits(alt_log_repchar("0", k) \o Digits(v, b, n, L), IF k > 0 THEN k ELSE 0, v, b, n, L)
         /\ IsDigits(Digits(v, b, n, L), 0, v, b, n, L)
<1> DEFINE D == Digits(v, b, n, L)
           Z == alt_log_repchar("0", k)
           z == IF k > 0 THEN k ELSE 0
<1>1. D \in Seq(Char) /\ Len(D) = n
  BY DigitsWritten
<1>2. Z \in Seq(Char) /\ Len(Z) = z /\ z \in Nat /\ \A i \in 1 .. z : Z[i] = "0"
  <2>1. "0" \in Char
    <3>1. 1 \in 1 .. 16 /\ Small[1] = "0" /\ Small \in {Small, Capital}
      BY DEF Small
    <3> QED BY <3>1, Letters
  <2>2. 1 .. k = 1 .. z /\ z \in Nat
    OBVIOUS
  <2> QED BY <2>1, <2>2, Repeated
<1> HIDE DEF D, Z, z
<1>3. IsDigits(Z \o D, z, v, b, n, L)
  <2>1. Z \o D \in Seq(Char) /\ Len(Z \o D) = z + n
    BY <1>1, <1>2
  <2>2. \A i \in 1 .. z : (Z \o D)[i] = "0"
    BY <1>1, <1>2
  <2>3. \A i \in 1 .. n : (Z \o D)[z + i] = D[i]
    BY <1>1, <1>2
  <2> QED BY <2>1, <2>2, <2>3 DEF IsDigits, D
<1>4. IsDigits(D, 0, v, b, n, L)
  BY <1>1 DEF IsDigits, D
<1> QED BY <1>3, <1>4 DEF D, Z, z

\* The flags that the letter of a conversion sets.
FlagsOf(fmt, c, before) ==
  /\ fmt.zero = c.zero /\ fmt.before = before /\ fmt.base = Base(c.type)
  /\ fmt.signed = (c.type \in {"d", "i"}) /\ fmt.capital = (c.type = "X")

\* The width read, or the mark that there is none.
WidthRead(c, before) ==
  Width(c) \in Nat /\ (before = Width(c) \/ (before = -1 /\ Width(c) = 0))

\* doIntegerPrint prints blanks, sign, zeros and digits.
LEMMA IntegerShape ==
  ASSUME NEW c, NumberConversion(c), NEW before, WidthRead(c, before), NEW fmt, FlagsOf(fmt, c, before)
  PROVE  \E r, z, n, d : NumberField(doIntegerPrint(fmt, c.arg), c, r, z, n, d)
<1> DEFINE v == Mag(c)
           b == Base(c.type)
           L == LettersOf(c)
           s == Sign(c)
           n == digitCount(v, b)
           D == Digits(v, b, n, L)
           room == before - n - Len(s)
           some == IF room > 0 THEN room ELSE 0
           t == doIntegerPrint(fmt, c.arg)
<1>1. Neg(c) \in BOOLEAN /\ v \in 0 .. power(2)[Bits] - 1 /\ v \in Nat
      /\ b \in 2 .. 16 /\ L \in {Small, Capital} /\ c.zero \in BOOLEAN
  BY Magnitude DEF NumberConversion
<1>2. Needs(v, b, n) /\ n \in Nat \ {0}
  <2>1. b \in Nat \ {0, 1}
    BY <1>1
  <2> HIDE DEF v, b
  <2> QED BY <1>1, <2>1, Counted DEF Needs
<1>3. s \in Seq(Char) /\ Len(s) \in Nat
  <2>1. "-" \in Char
    BY DEF Char
  <2> QED BY <1>1, <2>1 DEF Sign
<1>4. t = IF c.zero THEN s \o alt_log_repchar("0", room) \o D
                    ELSE alt_log_repchar(Blank, room) \o s \o D
  <2>1. fmt.signed /\ c.arg >= power(2)[Bits - 1] <=> Neg(c)
    BY DEF FlagsOf, Neg
  <2>2. v = IF Neg(c) THEN power(2)[Bits] - c.arg ELSE c.arg
    BY DEF Mag
  <2>3. s = IF Neg(c) THEN <<"-">> ELSE << >>
    BY DEF Sign
  <2>4. L = IF fmt.capital THEN Capital ELSE Small
    BY DEF LettersOf, FlagsOf
  <2>5. fmt.zero = c.zero /\ fmt.before = before /\ fmt.base = b
    BY DEF FlagsOf
  <2>6. D = [i \in 1 .. n |-> L[((v \div power(b)[n - i]) % b) + 1]]
    BY DEF Digits
  <2> HIDE DEF v, b, L, s, n, D
  <2>7. digitCount(IF Neg(c) THEN power(2)[Bits] - c.arg ELSE c.arg, fmt.base) = n
    BY <2>2, <2>5 DEF n
  <2> QED BY <2>1, <2>2, <2>3, <2>4, <2>5, <2>6, <2>7 DEF doIntegerPrint
<1>5. D \in Seq(Char) /\ Len(D) = n
  <2> HIDE DEF v, b, L, n
  <2>1. n \in Nat
    BY <1>2
  <2> QED BY <1>1, <2>1, DigitsWritten
<1>6. /\ IsDigits(alt_log_repchar("0", room) \o D, some, v, b, n, L)
      /\ IsDigits(D, 0, v, b, n, L)
  <2>1. room \in Int
    BY <1>2, <1>3 DEF WidthRead
  <2> HIDE DEF v, b, L, n, room
  <2> QED BY <1>1, <1>2, <2>1, Zeros DEF D
<1>7. room \in Int /\ some \in Nat /\ Width(c) \in Nat
  BY <1>2, <1>3 DEF WidthRead
<1>8. /\ n + Len(s) + some >= Width(c)
      /\ some > 0 => n + Len(s) + some = Width(c)
  <2> HIDE DEF n, s
  <2> QED BY <1>2, <1>3 DEF WidthRead
<1>9. /\ Blank \in Char /\ "0" \in Char
  <2>1. 1 \in 1 .. 16 /\ Small[1] = "0" /\ Small \in {Small, Capital}
    BY DEF Small
  <2>2. "0" \in Char
    BY <2>1, Letters
  <2> QED BY <2>2 DEF Char, Blank
<1> HIDE DEF v, b, L, s, n, D, room, t
<1>10. CASE c.zero
  <2> DEFINE d == alt_log_repchar("0", room) \o D
  <2>1. d \in Seq(Char) /\ Len(d) = some + n
    BY <1>6 DEF IsDigits
  <2>2. t = s \o d
    <3>1. alt_log_repchar("0", room) \in Seq(Char)
      BY <1>7, <1>9, Repeated
    <3> QED BY <1>3, <1>4, <1>5, <1>10, <3>1, ConcatAssociative, SMTT(30)
  <2>3. t = alt_log_repchar(Blank, 0) \o (s \o d)
    <3>1. alt_log_repchar(Blank, 0) = << >>
      BY <1>9, Repeated
    <3>2. s \o d \in Seq(Char)
      BY <1>3, <2>1
    <3> QED BY <2>2, <3>1, <3>2, ConcatEmptySeq
  <2> HIDE DEF d, some
  <2>4. Len(t) = n + Len(s) + some
    <3>1. Len(t) = Len(s) + Len(d)
      BY <1>3, <2>1, <2>2, ConcatProperties
    <3> QED BY <1>2, <1>3, <1>7, <2>1, <3>1
  <2>5. NumberField(t, c, 0, some, n, d)
    BY <1>2, <1>6, <1>7, <1>8, <1>10, <2>3, <2>4 DEF NumberField, v, b, L, s, d
  <2> QED BY <2>5 DEF t
<1>11. CASE ~c.zero
  <2>1. alt_log_repchar(Blank, room) \in Seq(Char) /\ Len(alt_log_repchar(Blank, room)) = some
    BY <1>7, <1>9, Repeated
  <2>2. t = alt_log_repchar(Blank, room) \o (s \o D)
    BY <1>3, <1>4, <1>5, <1>11, <2>1, ConcatAssociative, SMTT(30)
  <2>3. t = alt_log_repchar(Blank, some) \o (s \o D)
    <3>1. alt_log_repchar(Blank, room) = alt_log_repchar(Blank, some)
      <4>1. 1 .. room = 1 .. some
        BY <1>7
      <4> QED BY <4>1 DEF alt_log_repchar
    <3> QED BY <2>2, <3>1
  <2> HIDE DEF some
  <2>4. Len(t) = n + Len(s) + some
    <3>1. s \o D \in Seq(Char) /\ Len(s \o D) = Len(s) + Len(D)
      BY <1>3, <1>5, ConcatProperties
    <3>2. Len(t) = Len(alt_log_repchar(Blank, room)) + Len(s \o D)
      BY <2>1, <2>2, <3>1, ConcatProperties
    <3> QED BY <1>2, <1>3, <1>5, <1>7, <2>1, <3>1, <3>2
  <2>5. NumberField(t, c, some, 0, n, D)
    BY <1>2, <1>6, <1>7, <1>8, <1>11, <2>3, <2>4 DEF NumberField, v, b, L, s
  <2> QED BY <2>5 DEF t
<1> QED BY <1>1, <1>10, <1>11

-----------------------------------------------------------------------------
\* What %x of alt_printf prints.
LEMMA HexPower ==
  ASSUME NEW k \in Nat
  PROVE  power(2)[4 * k] = power(16)[k]
<1> DEFINE S == {j \in Nat : power(2)[4 * j] = power(16)[j]}
<1>1. 0 \in S
  <2>1. 4 * 0 = 0
    OBVIOUS
  <2> QED BY <2>1, PowerOf
<1>2. ASSUME NEW j \in 0 .. k - 1, j \in S PROVE j + 1 \in S
  <2> DEFINE m == 4 * j
             x == power(2)[m]
  <2>1. m \in Nat /\ m + 1 \in Nat /\ m + 2 \in Nat /\ m + 3 \in Nat /\ j \in Nat /\ j + 1 \in Nat
    OBVIOUS
  <2>2. 4 * (j + 1) = m + 4 /\ (m + 1) + 1 = m + 2 /\ (m + 2) + 1 = m + 3 /\ (m + 3) + 1 = m + 4
    OBVIOUS
  <2>3. x \in Nat
    BY <2>1, PowerPos
  <2>4. power(16)[j] = x
    BY <1>2
  <2>5. power(16)[j + 1] = 16 * x
    BY <2>1, <2>4, PowerOf
  <2> HIDE DEF m
  <2>6. power(2)[m + 1] = 2 * x /\ power(2)[m + 2] = 2 * power(2)[m + 1]
          /\ power(2)[m + 3] = 2 * power(2)[m + 2] /\ power(2)[m + 4] = 2 * power(2)[m + 3]
    <3>1. \A i \in Nat : power(2)[i + 1] = 2 * power(2)[i]
      BY PowerOf
    <3> QED BY <2>1, <2>2, <3>1
  <2> HIDE DEF x
  <2>7. power(2)[m + 4] = 16 * x
    BY <2>3, <2>6
  <2> QED BY <2>1, <2>2, <2>5, <2>7
<1> HIDE DEF S
<1>3. k \in S
  BY <1>1, <1>2, Upto
<1> QED BY <1>3 DEF S

\* alt_printf begins at the first digit that is not zero.
LEMMA HexDigits ==
  ASSUME NEW v \in 1 .. power(2)[Bits] - 1
  PROVE  \E n : Needs(v, 16, n) /\ hexadecimal(v) = Digits(v, 16, n, Small)
<1> DEFINE K == Bits \div 4
           digit(shift) == (v \div power(2)[shift]) % 16
           x(k) == (v \div power(16)[k]) % 16
           shifts == {4 * k : k \in 0 .. K - 1}
           good(s) == digit(s) # 0 /\ \A t \in shifts : t > s => digit(t) = 0
           first == CHOOSE s \in shifts : good(s)
<1>1. K \in Nat \ {0} /\ 4 * K = Bits
  BY PrintfAssumption
<1>2. v \in Nat \ {0} /\ v < power(16)[K]
  <2>1. power(2)[Bits] = power(16)[K] /\ power(2)[Bits] \in Nat
    BY <1>1, HexPower, PowerPos
  <2> QED BY <2>1
<1>3. PICK n \in 1 .. K : Needs(v, 16, n)
  <2> HIDE DEF K
  <2> QED BY <1>1, <1>2, NeedsLeast
<1>4. n \in Nat \ {0} /\ n - 1 \in 0 .. K - 1 /\ n - 1 \in Nat
  BY <1>1, <1>3
<1> HIDE DEF K
<1>5. \A k \in Nat : digit(4 * k) = x(k)
  BY HexPower
<1>6. x(n - 1) # 0
  <2> SUFFICES ASSUME x(n - 1) = 0 PROVE FALSE
    OBVIOUS
  <2>1. Digits(v, 16, n, Small)[1] = Small[x(n - 1) + 1]
    BY <1>4 DEF Digits
  <2>2. Small[0 + 1] = "0"
    BY DEF Small
  <2>3. Digits(v, 16, n, Small)[1] = "0"
    BY <2>1, <2>2
  <2>4. v = 0
    <3>1. v \in Nat /\ 16 \in 2 .. 16 /\ Small \in {Small, Capital}
      BY <1>2
    <3> QED BY <1>3, <2>3, <3>1, FirstDigit
  <2> QED BY <1>2, <2>4
<1>7. ASSUME NEW k \in 0 .. K - 1, k > n - 1 PROVE x(k) = 0
  <2>1. k \in Nat /\ n <= k /\ n \in Nat /\ 16 \in Nat \ {0, 1} /\ 16 \in Nat \ {0}
    BY <1>1, <1>4, <1>7
  <2>2. power(16)[n] <= power(16)[k]
    BY <2>1, PowerGrows
  <2>3. power(16)[k] \in Nat \ {0} /\ power(16)[n] \in Nat
    BY <2>1, PowerPos
  <2>4. v < power(16)[k]
    BY <1>2, <1>3, <2>2, <2>3 DEF Needs
  <2>5. v \div power(16)[k] = 0
    BY <1>2, <2>3, <2>4, Quotient
  <2> QED BY <2>5
<1> HIDE DEF digit, x
<1>8. \A k \in 0 .. K - 1 : k \in Nat /\ 4 * k \in shifts
  BY <1>1
<1>9. 4 * (n - 1) \in shifts /\ good(4 * (n - 1))
  <2>1. ASSUME NEW k \in 0 .. K - 1, 4 * k > 4 * (n - 1) PROVE digit(4 * k) = 0
    <3>1. k > n - 1
      BY <1>4, <1>8, <2>1
    <3> QED BY <1>5, <1>7, <1>8, <3>1
  <2>2. digit(4 * (n - 1)) # 0
    BY <1>4, <1>5, <1>6
  <2> QED BY <1>4, <1>8, <2>1, <2>2
<1>10. ASSUME NEW s \in shifts, good(s) PROVE s = 4 * (n - 1)
  <2>1. PICK k \in 0 .. K - 1 : s = 4 * k
    OBVIOUS
  <2>2. ~(4 * (n - 1) > 4 * k)
    BY <1>9, <1>10, <2>1
  <2>3. ~(4 * k > 4 * (n - 1))
    BY <1>9, <1>10, <2>1
  <2> QED BY <1>4, <1>8, <2>1, <2>2, <2>3
<1>11. first = 4 * (n - 1)
  <2> HIDE DEF shifts, good
  <2> QED BY <1>9, <1>10
<1>12. hexadecimal(v) = [i \in 1 .. (first \div 4) + 1 |-> Small[digit(first - 4 * (i - 1)) + 1]]
  BY <1>2 DEF hexadecimal, digit, K
<1> HIDE DEF first
<1>13. (first \div 4) + 1 = n
  BY <1>4, <1>11
<1>14. \A i \in 1 .. n : digit(first - 4 * (i - 1)) = x(n - i)
  <2> SUFFICES ASSUME NEW i \in 1 .. n PROVE digit(first - 4 * (i - 1)) = x(n - i)
    OBVIOUS
  <2>1. n - i \in Nat /\ 4 * (n - 1) - 4 * (i - 1) = 4 * (n - i)
    BY <1>4
  <2> QED BY <1>5, <1>11, <2>1
<1>15. hexadecimal(v) = Digits(v, 16, n, Small)
  BY <1>12, <1>13, <1>14 DEF Digits, x
<1> QED BY <1>3, <1>15

\* What alt_printf prints for %x reads back as its argument, zero included.
LEMMA HexReads ==
  ASSUME NEW v \in 0 .. power(2)[Bits] - 1
  PROVE  /\ IsNumber(hexadecimal(v), [zero |-> FALSE, text |-> << >>, type |-> "x", arg |-> v])
         /\ hexadecimal(v) \in Seq(Char)
<1> DEFINE c == [zero |-> FALSE, text |-> << >>, type |-> "x", arg |-> v]
           t == hexadecimal(v)
<1>1. v \in Nat
  OBVIOUS
<1>2. \E n : Needs(v, 16, n) /\ t = Digits(v, 16, n, Small)
  <2>1. CASE v = 0
    <3>1. 1 \in Nat /\ 1 - 1 = 0 /\ 0 + 1 = 1
      OBVIOUS
    <3>2. power(16)[0] = 1 /\ power(16)[1] = 16
      <4>1. 16 \in Nat /\ 0 \in Nat
        OBVIOUS
      <4>2. power(16)[0 + 1] = 16 * power(16)[0] /\ power(16)[0] = 1
        BY <4>1, PowerOf
      <4> QED BY <4>2
    <3>3. Needs(0, 16, 1)
      BY <3>2 DEF Needs
    <3>4. t = <<"0">>
      BY <2>1 DEF hexadecimal
    <3>5. Digits(0, 16, 1, Small) = <<Small[1]>>
      <4>1. 0 \div 1 = 0 /\ 0 % 16 = 0
        OBVIOUS
      <4>2. Digits(0, 16, 1, Small) = [i \in 1 .. 1 |-> Small[1]]
        <5>1. \A i \in 1 .. 1 : ((0 \div power(16)[1 - i]) % 16) + 1 = 1
          BY <3>1, <3>2, <4>1
        <5> QED BY <5>1 DEF Digits
      <4> QED BY <4>2
    <3>6. Small[1] = "0"
      BY DEF Small
    <3> QED BY <2>1, <3>3, <3>4, <3>5, <3>6
  <2>2. CASE v # 0
    <3>1. v \in 1 .. power(2)[Bits] - 1
      <4>1. power(2)[Bits] \in Nat
        BY PrintfAssumption, PowerPos
      <4> QED BY <2>2, <4>1
    <3> QED BY <3>1, HexDigits
  <2> QED BY <2>1, <2>2
<1>3. PICK n : Needs(v, 16, n) /\ t = Digits(v, 16, n, Small)
  BY <1>2
<1>4. n \in Nat /\ 16 \in 2 .. 16 /\ Small \in {Small, Capital}
  BY <1>3 DEF Needs
<1> HIDE DEF t
<1>5. t \in Seq(Char) /\ Len(t) = n
  BY <1>1, <1>3, <1>4, DigitsWritten
<1>6. IsDigits(t, 0, v, 16, n, Small)
  <2>1. 0 \in Int
    OBVIOUS
  <2> QED BY <1>1, <1>3, <1>4, <2>1, Zeros
<1>7. NumberConversion(c) /\ c.zero = FALSE /\ c.type = "x"
  BY DEF NumberConversion, IntegerTypes
<1>8. Width(c) = 0
  <2>1. ASSUME NEW e \in Seq(Char), Len(e) = 0 PROVE Read(e, 10) = 0
    BY <2>1, ReadUnfold
  <2>2. << >> \in Seq(Char) /\ Len(<< >>) = 0
    OBVIOUS
  <2>3. Read(<< >>, 10) = 0
    BY <2>1, <2>2, Zenon
  <2> QED BY <2>3 DEF Width
<1>9. Mag(c) = v /\ Base(c.type) = 16 /\ LettersOf(c) = Small /\ Sign(c) = << >>
  BY DEF Mag, Neg, Base, LettersOf, Sign
<1>10. t = alt_log_repchar(Blank, 0) \o (<< >> \o t)
  <2>1. alt_log_repchar(Blank, 0) = << >>
    <3>1. Blank \in Char /\ 0 \in Int
      BY DEF Char, Blank
    <3> QED BY <3>1, Repeated
  <2> QED BY <1>5, <2>1, ConcatEmptySeq
<1> HIDE DEF c
<1>11. NumberField(t, c, 0, 0, n, t)
  <2>1. Len(t) >= Width(c)
    BY <1>4, <1>5, <1>8
  <2> QED BY <1>3, <1>6, <1>7, <1>9, <1>10, <2>1 DEF NumberField
<1>12. IsNumber(t, c)
  BY <1>7, <1>11, NumberReads
<1> QED BY <1>5, <1>12 DEF t, c

-----------------------------------------------------------------------------
\* The states of the reader of a format.
Flags(z, b, a, base, signs, large) ==
  [zero |-> z, before |-> b, after |-> a, base |-> base, signed |-> signs, capital |-> large]
Fmt(z, b, a) == Flags(z, b, a, 10, TRUE, FALSE)
At(state, fmt, args, text) == [state |-> state, fmt |-> fmt, args |-> args, out |-> text]

\* One flag of a conversion changes and the others stay.
LEMMA FmtChanged ==
  ASSUME NEW z, NEW b, NEW a, NEW w
  PROVE  /\ [Fmt(z, b, a) EXCEPT !.zero = w] = Fmt(w, b, a)
         /\ [Fmt(z, b, a) EXCEPT !.before = w] = Fmt(z, w, a)
         /\ [Fmt(z, b, a) EXCEPT !.after = w] = Fmt(z, b, w)
         /\ Fmt(z, b, a).zero = z /\ Fmt(z, b, a).before = b /\ Fmt(z, b, a).after = a
<1> DEFINE yes == TRUE
           no == FALSE
           ten == 10
<1>1. ASSUME NEW x, NEW y, NEW u PROVE Fmt(x, y, u) = Flags(x, y, u, ten, yes, no)
  BY DEF Fmt
<1> HIDE DEF yes, no, ten
<1>2. /\ [Flags(z, b, a, ten, yes, no) EXCEPT !.zero = w] = Flags(w, b, a, ten, yes, no)
      /\ [Flags(z, b, a, ten, yes, no) EXCEPT !.before = w] = Flags(z, w, a, ten, yes, no)
      /\ [Flags(z, b, a, ten, yes, no) EXCEPT !.after = w] = Flags(z, b, w, ten, yes, no)
  BY DEF Flags
<1>3. LET f == Flags(z, b, a, ten, yes, no) IN f.zero = z /\ f.before = b /\ f.after = a
  BY DEF Flags
<1> QED BY <1>1, <1>2, <1>3

\* One part of what is known of a format changes and the others stay.
LEMMA AtChanged ==
  ASSUME NEW state, NEW f, NEW args, NEW text, NEW w
  PROVE  LET p == At(state, f, args, text)
         IN  /\ [p EXCEPT !.state = w] = At(w, f, args, text)
             /\ [p EXCEPT !.fmt = w] = At(state, w, args, text)
             /\ [p EXCEPT !.args = w] = At(state, f, w, text)
             /\ [p EXCEPT !.out = w] = At(state, f, args, w)
             /\ p.state = state /\ p.fmt = f /\ p.args = args /\ p.out = text
BY DEF At

\* Each character of a format is read from the state the one before it left.
LEMMA LogUnfold ==
  ASSUME NEW S, NEW format \in Seq(S), NEW args
  PROVE  LET q == logStates(format, args)
         IN  /\ q[0] = StartOfFormat(args)
             /\ \A k \in 0 .. Len(format) - 1 : q[k + 1] = logStep(q[k], format[k + 1])
<1> DEFINE n == Len(format)
           Def(p, k) == CHOOSE next \in {logStep(q, format[k]) : q \in {p}} : TRUE
           start == StartOfFormat(args)
           r == CHOOSE g : g = [k \in 0 .. n |-> IF k = 0 THEN start ELSE Def(g[k - 1], k)]
<1>1. logStates(format, args) = r
  BY DEF logStates
<1>2. n \in Nat /\ 0 \in Nat
  OBVIOUS
<1>3. FiniteNatInductiveDefHypothesis(r, start, Def, 0, n)
  BY DEF FiniteNatInductiveDefHypothesis
<1>4. ASSUME NEW p, NEW k PROVE Def(p, k) = logStep(p, format[k])
  <2>1. {logStep(q, format[k]) : q \in {p}} = {logStep(p, format[k])}
    OBVIOUS
  <2> QED BY <2>1
<1> HIDE DEF Def, r, n, start
<1>5. FiniteNatInductiveDefConclusion(r, start, Def, 0, n)
  BY <1>2, <1>3, FiniteNatInductiveDef
<1>6. r = [k \in 0 .. n |-> IF k = 0 THEN start ELSE Def(r[k - 1], k)]
  BY <1>5 DEF FiniteNatInductiveDefConclusion
<1>7. ASSUME NEW k \in 0 .. n - 1 PROVE r[k + 1] = logStep(r[k], format[k + 1])
  <2>1. k + 1 \in 0 .. n /\ k + 1 # 0 /\ (k + 1) - 1 = k
    BY <1>2
  <2>2. r[k + 1] = Def(r[k], k + 1)
    BY <1>6, <2>1
  <2> QED BY <1>4, <2>2
<1>8. r[0] = start
  BY <1>2, <1>6
<1> QED BY <1>1, <1>7, <1>8 DEF n, start

Types == IntegerTypes \cup {"c", "s"}

\* A letter of a format is no digit.
LEMMA NoDigit ==
  ASSUME NEW c \in Types \cup {".", "l", "%"}
  PROVE  c \notin ToSet(Decimal) /\ c # "0"
<1>1. ToSet(Decimal) = {"0", "1", "2", "3", "4", "5", "6", "7", "8", "9"}
  BY DEF Decimal, ToSet
<1> QED BY <1>1 DEF Types, IntegerTypes

\* What a character does in each state.
LEMMA ReadChar ==
  ASSUME NEW f, NEW args, NEW text, NEW c, c # "%"
  PROVE  logStep(At("chars", f, args, text), c) = At("chars", f, args, Append(text, c))
BY DEF logStep, pfState_chars, At

\* A percent sign begins a conversion with the flags reset.
LEMMA ReadPercent ==
  ASSUME NEW f, NEW args, NEW text
  PROVE  logStep(At("chars", f, args, text), "%")
           = At("firstFmtChar", Fmt(FALSE, -1, -1), args, text)
<1>1. NewConversion = Fmt(FALSE, -1, -1)
  BY DEF NewConversion, Fmt, Flags
<1>2. logStep(At("chars", f, args, text), "%") = At("firstFmtChar", NewConversion, args, text)
  BY DEF logStep, pfState_chars, At
<1> QED BY <1>1, <1>2

\* Two percent signs print one.
LEMMA ReadTwoPercent ==
  ASSUME NEW f, NEW args, NEW text
  PROVE  \E g : logStep(logStep(At("chars", f, args, text), "%"), "%")
                  = At("chars", g, args, Append(text, "%"))
<1>1. logStep(At("chars", f, args, text), "%") = At("firstFmtChar", NewConversion, args, text)
  BY DEF logStep, pfState_chars, At
<1>2. ASSUME NEW g
      PROVE  logStep(At("firstFmtChar", g, args, text), "%") = At("chars", g, args, Append(text, "%"))
  BY DEF logStep, pfState_firstFmtChar, At
<1> QED BY <1>1, <1>2

\* A zero behind the percent sign asks for zeros.
LEMMA ReadZero ==
  ASSUME NEW args, NEW text
  PROVE  logStep(At("firstFmtChar", Fmt(FALSE, -1, -1), args, text), "0")
           = At("otherFmtChar", Fmt(TRUE, -1, -1), args, text)
<1> DEFINE yes == TRUE
           no == FALSE
           f == Fmt(no, -1, -1)
<1> HIDE DEF yes, no
<1>1. [f EXCEPT !.zero = yes] = Fmt(yes, -1, -1)
  BY FmtChanged
<1> HIDE DEF f
<1>2. logStep(At("firstFmtChar", f, args, text), "0")
        = At("otherFmtChar", [f EXCEPT !.zero = yes], args, text)
  BY DEF logStep, pfState_firstFmtChar, At, yes
<1>3. logStep(At("firstFmtChar", f, args, text), "0") = At("otherFmtChar", Fmt(yes, -1, -1), args, text)
  BY <1>1, <1>2
<1> QED BY <1>3 DEF f, yes, no

\* Any other first character is read as a later one.
LEMMA ReadOther ==
  ASSUME NEW f, NEW args, NEW text, NEW c
  PROVE  /\ logStep(At("otherFmtChar", f, args, text), c)
              = pfState_otherFmtChar(At("otherFmtChar", f, args, text), c)
         /\ c \notin {"0", "%"} =>
              logStep(At("firstFmtChar", f, args, text), c)
                = pfState_otherFmtChar(At("otherFmtChar", f, args, text), c)
<1>1. [At("firstFmtChar", f, args, text) EXCEPT !.state = "otherFmtChar"]
        = At("otherFmtChar", f, args, text)
  BY DEF At
<1> QED BY <1>1 DEF logStep, pfState_firstFmtChar, At

\* The states in which a conversion is read, the first only at its first character.
Within(state, c) == state = "otherFmtChar" \/ (state = "firstFmtChar" /\ c \notin {"0", "%"})

\* A digit extends the width of the field.
LEMMA ReadWidth ==
  ASSUME NEW z, NEW b \in Int, NEW args, NEW text, NEW c \in ToSet(Decimal), NEW state, Within(state, c)
  PROVE  logStep(At(state, Fmt(z, b, -1), args, text), c)
           = At("otherFmtChar", Fmt(z, (IF b < 0 THEN 0 ELSE 10 * b) + Val(c), -1), args, text)
<1>1. c # "." /\ c # "l" /\ decimalValue(c) = Val(c)
  BY Decimals
<1> DEFINE p == At("otherFmtChar", Fmt(z, b, -1), args, text)
           w == (IF b < 0 THEN 0 ELSE 10 * b) + Val(c)
<1>2. p.fmt = Fmt(z, b, -1) /\ p.fmt.after = -1 /\ p.fmt.before = b
  <2>1. p.fmt = Fmt(z, b, -1)
    BY AtChanged
  <2> QED BY <2>1, FmtChanged
<1>3. pfState_otherFmtChar(p, c) = [p EXCEPT !.fmt.before = (IF @ < 0 THEN 0 ELSE 10 * @) + decimalValue(c)]
  <2>1. ~(-1 >= 0) /\ -1 < 0
    OBVIOUS
  <2> HIDE DEF p
  <2> QED BY <1>1, <1>2, <2>1 DEF pfState_otherFmtChar
<1>4. [p EXCEPT !.fmt.before = (IF @ < 0 THEN 0 ELSE 10 * @) + decimalValue(c)]
        = [p EXCEPT !.fmt = [p.fmt EXCEPT !.before = w]]
  BY <1>1, <1>2 DEF At
<1> HIDE DEF w
<1>5. [p EXCEPT !.fmt = [p.fmt EXCEPT !.before = w]] = At("otherFmtChar", Fmt(z, w, -1), args, text)
  <2>1. [Fmt(z, b, -1) EXCEPT !.before = w] = Fmt(z, w, -1)
    BY FmtChanged
  <2> QED BY <1>2, <2>1, AtChanged
<1> QED BY <1>3, <1>4, <1>5, ReadOther DEF Within, w

\* A flag l changes nothing, a precision is read and not used.
LEMMA ReadSkip ==
  ASSUME NEW z, NEW b, NEW args, NEW text, NEW state, NEW d \in ToSet(Decimal)
  PROVE  /\ Within(state, "l") => logStep(At(state, Fmt(z, b, -1), args, text), "l")
                                    = At("otherFmtChar", Fmt(z, b, -1), args, text)
         /\ Within(state, ".") => logStep(At(state, Fmt(z, b, -1), args, text), ".")
                                    = At("otherFmtChar", Fmt(z, b, 0), args, text)
         /\ logStep(At("otherFmtChar", Fmt(z, b, 0), args, text), d)
              = At("otherFmtChar", Fmt(z, b, Val(d)), args, text)
<1>1. d # "." /\ d # "l" /\ decimalValue(d) = Val(d) /\ Val(d) \in Int
  BY Decimals
<1>2. "l" \notin ToSet(Decimal) /\ "." \notin ToSet(Decimal)
  BY NoDigit
<1>3. /\ Fmt(z, b, -1).after = -1 /\ Fmt(z, b, 0).after = 0
      /\ [Fmt(z, b, -1) EXCEPT !.after = 0] = Fmt(z, b, 0)
      /\ [Fmt(z, b, 0) EXCEPT !.after = Val(d)] = Fmt(z, b, Val(d))
  BY FmtChanged
<1>4. ASSUME NEW f
      PROVE  /\ pfState_otherFmtChar(At("otherFmtChar", f, args, text), "l")
                   = At("otherFmtChar", f, args, text)
             /\ pfState_otherFmtChar(At("otherFmtChar", f, args, text), ".")
                   = At("otherFmtChar", [f EXCEPT !.after = 0], args, text)
             /\ f.after = 0 => pfState_otherFmtChar(At("otherFmtChar", f, args, text), d)
                   = At("otherFmtChar", [f EXCEPT !.after = Val(d)], args, text)
  <2> DEFINE p == At("otherFmtChar", f, args, text)
  <2>1. p.fmt = f
    BY AtChanged
  <2>2. pfState_otherFmtChar(p, "l") = p /\ pfState_otherFmtChar(p, ".") = [p EXCEPT !.fmt.after = 0]
    <3> HIDE DEF p
    <3> QED BY <1>2 DEF pfState_otherFmtChar
  <2>3. f.after = 0 => pfState_otherFmtChar(p, d) = [p EXCEPT !.fmt.after = 10 * @ + decimalValue(d)]
    <3>1. 0 >= 0 /\ ~(0 < 0)
      OBVIOUS
    <3> HIDE DEF p
    <3> QED BY <1>1, <2>1, <3>1 DEF pfState_otherFmtChar
  <2>4. [p EXCEPT !.fmt.after = 0] = At("otherFmtChar", [f EXCEPT !.after = 0], args, text)
    BY DEF At
  <2>5. f.after = 0 => [p EXCEPT !.fmt.after = 10 * @ + decimalValue(d)]
                         = At("otherFmtChar", [f EXCEPT !.after = Val(d)], args, text)
    <3>1. 10 * 0 + Val(d) = Val(d)
      BY <1>1
    <3> QED BY <1>1, <3>1 DEF At
  <2> QED BY <2>2, <2>3, <2>4, <2>5
<1> HIDE DEF Within
<1>5. ASSUME NEW c, Within(state, c), NEW f
      PROVE  logStep(At(state, f, args, text), c) = pfState_otherFmtChar(At("otherFmtChar", f, args, text), c)
  BY <1>5, ReadOther DEF Within
<1>6. logStep(At("otherFmtChar", Fmt(z, b, 0), args, text), d)
        = pfState_otherFmtChar(At("otherFmtChar", Fmt(z, b, 0), args, text), d)
  BY ReadOther
<1> QED BY <1>3, <1>4, <1>5, <1>6

\* What a conversion prints for the argument that is next.
ChangeOf(f, type) ==
  Flags(f.zero, f.before, f.after, Base(type), type \in {"d", "i"}, type = "X")

Printed(f, type, arg) ==
  CASE type = "c" -> Append(alt_log_repchar(Blank, f.before - 1), arg)
    [] type = "s" -> alt_log_repchar(Blank, f.before - Len(arg)) \o arg
    [] OTHER -> doIntegerPrint(ChangeOf(f, type), arg)

\* A conversion ends with its text printed and its argument taken.
LEMMA ConvertedIs ==
  ASSUME NEW state, NEW f, NEW args, NEW text, NEW t
  PROVE  Converted(At(state, f, args, text), t) = At("chars", f, Tail(args), text \o t)
<1> DEFINE p == At(state, f, args, text)
           y == Tail(args)
           u == text \o t
           go == "chars"
<1>1. p.args = args /\ p.out = text
  BY DEF At
<1>2. Converted(p, t) = [p EXCEPT !.state = go, !.args = y, !.out = u]
  BY <1>1 DEF Converted
<1> HIDE DEF y, u, go
<1>3. \A g : [g EXCEPT !.state = go, !.args = y, !.out = u]
              = [[[g EXCEPT !.state = go] EXCEPT !.args = y] EXCEPT !.out = u]
  OBVIOUS
<1>4. [p EXCEPT !.state = go] = At(go, f, args, text)
  BY DEF At
<1>5. [At(go, f, args, text) EXCEPT !.args = y] = At(go, f, y, text)
  BY DEF At
<1>6. [At(go, f, y, text) EXCEPT !.out = u] = At(go, f, y, u)
  BY DEF At
<1>7. Converted(p, t) = At(go, f, y, u)
  <2> HIDE DEF p
  <2> QED BY <1>2, <1>3, <1>4, <1>5, <1>6
<1> QED BY <1>7 DEF go, y, u

\* The letter of a conversion prints the next argument.
LEMMA ReadLetter ==
  ASSUME NEW z, NEW b, NEW a, NEW args, NEW text, NEW type \in Types, NEW state, Within(state, type)
  PROVE  logStep(At(state, Fmt(z, b, a), args, text), type)
           = At("chars", Fmt(z, b, a), Tail(args), text \o Printed(Fmt(z, b, a), type, Head(args)))
<1> DEFINE f == Fmt(z, b, a)
           p == At("otherFmtChar", f, args, text)
           after(t) == At("chars", f, Tail(args), text \o t)
<1>1. logStep(At(state, f, args, text), type) = pfState_otherFmtChar(p, type)
  BY ReadOther DEF Within
<1>2. type \notin ToSet(Decimal) /\ type # "." /\ type # "l"
  <2>1. type \notin ToSet(Decimal)
    BY NoDigit
  <2> QED BY <2>1 DEF Types, IntegerTypes
<1>3. pfState_otherFmtChar(p, type) = Letter(p, type)
  <2> HIDE DEF p
  <2> QED BY <1>2 DEF pfState_otherFmtChar
<1>4. p.fmt = f /\ p.args = args
  BY DEF At
<1>5. ASSUME NEW t PROVE Converted(p, t) = after(t)
  BY ConvertedIs
<1>6. f.before = b
  BY FmtChanged
<1>7. /\ f = ChangeOf(f, "d") /\ f = ChangeOf(f, "i")
      /\ [f EXCEPT !.signed = FALSE] = ChangeOf(f, "u")
      /\ [[f EXCEPT !.signed = FALSE] EXCEPT !.base = 8] = ChangeOf(f, "o")
      /\ [[f EXCEPT !.signed = FALSE] EXCEPT !.base = 16] = ChangeOf(f, "x")
      /\ [[f EXCEPT !.signed = FALSE] EXCEPT !.base = 16, !.capital = TRUE] = ChangeOf(f, "X")
  <2>1. f.zero = z /\ f.before = b /\ f.after = a
    BY FmtChanged
  <2> DEFINE yes == TRUE
             no == FALSE
  <2>2. ("d" \in {"d", "i"}) = yes /\ ("i" \in {"d", "i"}) = yes /\ ("u" \in {"d", "i"}) = no
         /\ ("o" \in {"d", "i"}) = no /\ ("x" \in {"d", "i"}) = no /\ ("X" \in {"d", "i"}) = no
    OBVIOUS
  <2>3. ("d" = "X") = no /\ ("i" = "X") = no /\ ("u" = "X") = no
         /\ ("o" = "X") = no /\ ("x" = "X") = no /\ ("X" = "X") = yes
    OBVIOUS
  <2>4. Base("d") = 10 /\ Base("i") = 10 /\ Base("u") = 10
         /\ Base("o") = 8 /\ Base("x") = 16 /\ Base("X") = 16
    BY DEF Base
  <2>5. /\ ChangeOf(f, "d") = Flags(z, b, a, 10, yes, no)
        /\ ChangeOf(f, "i") = Flags(z, b, a, 10, yes, no)
        /\ ChangeOf(f, "u") = Flags(z, b, a, 10, no, no)
        /\ ChangeOf(f, "o") = Flags(z, b, a, 8, no, no)
        /\ ChangeOf(f, "x") = Flags(z, b, a, 16, no, no)
        /\ ChangeOf(f, "X") = Flags(z, b, a, 16, no, yes)
    <3> HIDE DEF f
    <3> QED BY <2>1, <2>2, <2>3, <2>4 DEF ChangeOf
  <2>6. f = Flags(z, b, a, 10, yes, no)
    BY DEF Fmt
  <2> DEFINE ten == 10
             eight == 8
             sixteen == 16
  <2> HIDE DEF yes, no, ten, eight, sixteen
  <2>7. [Flags(z, b, a, ten, yes, no) EXCEPT !.signed = no] = Flags(z, b, a, ten, no, no)
    BY DEF Flags
  <2>8. /\ [Flags(z, b, a, ten, no, no) EXCEPT !.base = eight] = Flags(z, b, a, eight, no, no)
        /\ [Flags(z, b, a, ten, no, no) EXCEPT !.base = sixteen] = Flags(z, b, a, sixteen, no, no)
    BY DEF Flags
  <2>9. [Flags(z, b, a, ten, no, no) EXCEPT !.base = sixteen, !.capital = yes]
          = Flags(z, b, a, sixteen, no, yes)
    <3>1. \A h : [h EXCEPT !.base = sixteen, !.capital = yes]
                  = [[h EXCEPT !.base = sixteen] EXCEPT !.capital = yes]
      OBVIOUS
    <3>2. [Flags(z, b, a, sixteen, no, no) EXCEPT !.capital = yes] = Flags(z, b, a, sixteen, no, yes)
      BY DEF Flags
    <3> QED BY <2>8, <3>1, <3>2
  <2> HIDE DEF f
  <2> QED BY <2>5, <2>6, <2>7, <2>8, <2>9 DEF ten, eight, sixteen, yes, no
<1> HIDE DEF f, p, after
<1>8. Letter(p, type) = after(Printed(f, type, Head(args)))
  <2>1. CASE type \in {"d", "i"}
    BY <1>4, <1>5, <1>7, <2>1 DEF Letter, Printed
  <2>2. CASE type = "u"
    BY <1>4, <1>5, <1>7, <2>2 DEF Letter, Printed
  <2>3. CASE type = "o"
    BY <1>4, <1>5, <1>7, <2>3 DEF Letter, Printed
  <2>4. CASE type = "x"
    BY <1>4, <1>5, <1>7, <2>4 DEF Letter, Printed
  <2>5. CASE type = "X"
    BY <1>4, <1>5, <1>7, <2>5 DEF Letter, Printed
  <2>6. CASE type = "c"
    BY <1>4, <1>5, <2>6 DEF Letter, Printed
  <2>7. CASE type = "s"
    BY <1>4, <1>5, <2>7 DEF Letter, Printed
  <2> QED BY <2>1, <2>2, <2>3, <2>4, <2>5, <2>6, <2>7 DEF Types, IntegerTypes
<1> QED BY <1>1, <1>3, <1>8 DEF f, after

-----------------------------------------------------------------------------
\* A conversion prints the field of its argument.
LEMMA Strings == STRING \subseteq Char /\ Seq(STRING) \subseteq Seq(Char)
<1>1. STRING \subseteq Char
  BY DEF Char
<1>2. ASSUME NEW s \in Seq(STRING) PROVE s \in Seq(Char)
  <2>1. s \in [1 .. Len(s) -> STRING] /\ Len(s) \in Nat
    OBVIOUS
  <2>2. s \in [1 .. Len(s) -> Char]
    BY <1>1, <2>1
  <2> HIDE DEF Char
  <2> QED BY <2>1, <2>2
<1> QED BY <1>1, <1>2

\* An integer conversion prints the field of its argument.
LEMMA NumberPrinted ==
  ASSUME NEW c, NumberConversion(c), NEW b, WidthRead(c, b), NEW a
  PROVE  LET t == Printed(Fmt(c.zero, b, a), c.type, c.arg)
         IN  t \in Seq(Char) /\ IsNumber(t, c)
<1> DEFINE f == Fmt(c.zero, b, a)
           g == ChangeOf(f, c.type)
           t == doIntegerPrint(g, c.arg)
<1>1. c.type \notin {"c", "s"}
  BY DEF NumberConversion, IntegerTypes
<1>2. Printed(f, c.type, c.arg) = t
  <2> HIDE DEF f
  <2> QED BY <1>1 DEF Printed
<1>3. f.zero = c.zero /\ f.before = b
  BY FmtChanged
<1> HIDE DEF f
<1>4. FlagsOf(g, c, b)
  BY <1>3 DEF FlagsOf, ChangeOf, Flags
<1> HIDE DEF g
<1>5. PICK r, z, n, d : NumberField(t, c, r, z, n, d)
  BY <1>4, IntegerShape
<1> HIDE DEF t
<1>6. IsNumber(t, c)
  BY <1>5, NumberReads
<1>7. t \in Seq(Char)
  <2>1. /\ t = alt_log_repchar(Blank, r) \o (Sign(c) \o d) /\ r \in Nat
        /\ d \in Seq(Char)
    BY <1>5 DEF NumberField, IsDigits
  <2>2. Blank \in Char /\ "-" \in Char
    BY DEF Char, Blank
  <2>3. alt_log_repchar(Blank, r) \in Seq(Char)
    BY <2>1, <2>2, Repeated
  <2>4. Sign(c) \in Seq(Char)
    BY <2>2 DEF Sign
  <2> QED BY <2>1, <2>3, <2>4
<1> QED BY <1>2, <1>6, <1>7 DEF f

\* So does every conversion.
LEMMA FieldPrinted ==
  ASSUME NEW c, IsConversion(c), NEW b, WidthRead(c, b), NEW a
  PROVE  LET t == Printed(Fmt(c.zero, b, a), c.type, c.arg)
         IN  t \in Seq(Char) /\ IsField(t, c)
<1> DEFINE f == Fmt(c.zero, b, a)
           t == Printed(f, c.type, c.arg)
<1> SUFFICES t \in Seq(Char) /\ IsField(t, c)
  OBVIOUS
<1>1. f.before = b
  BY FmtChanged
<1> HIDE DEF f
<1>2. Width(c) \in Nat /\ b \in Int /\ (b = Width(c) \/ (b = -1 /\ Width(c) = 0))
  BY DEF WidthRead
<1>3. Blank \in Char
  BY DEF Char, Blank
<1>4. CASE c.type \in IntegerTypes
  <2>1. c.type \notin {"c", "s"}
    BY <1>4 DEF IntegerTypes
  <2>2. NumberConversion(c)
    BY <1>4, <2>1 DEF NumberConversion, IsConversion
  <2>3. t \in Seq(Char) /\ IsNumber(t, c)
    BY <2>2, NumberPrinted DEF f
  <2> HIDE DEF t
  <2> QED BY <2>1, <2>3 DEF IsField
<1>5. CASE c.type = "c"
  <2> DEFINE u == <<c.arg>>
             n == IF b - 1 > 0 THEN b - 1 ELSE 0
  <2>1. c.arg \in Char /\ c.arg # Blank
    <3>1. c.arg \in STRING \ {Blank}
      BY <1>5 DEF IsConversion
    <3> QED BY <3>1, Strings
  <2>2. u \in Seq(Char) /\ (u # << >> => u[1] # Blank) /\ Len(u) = 1
    BY <2>1
  <2>3. t = Append(alt_log_repchar(Blank, b - 1), c.arg)
    BY <1>1, <1>5 DEF Printed
  <2>4. alt_log_repchar(Blank, b - 1) \in Seq(Char)
    BY <1>2, <1>3, Repeated
  <2>5. t = alt_log_repchar(Blank, b - 1) \o u
    BY <2>1, <2>3, <2>4, AppendIsConcat
  <2> HIDE DEF u, t
  <2>6. t \in Seq(Char) /\ Len(t) = n + 1 /\ AfterBlanks(t) = u
    <3>1. b - 1 \in Int
      BY <1>2
    <3> QED BY <1>3, <2>2, <2>5, <3>1, BlanksThen
  <2>7. n + 1 = IF Width(c) > 1 THEN Width(c) ELSE 1
    BY <1>2
  <2> QED BY <1>5, <2>6, <2>7 DEF IsField, u
<1>6. CASE c.type = "s"
  <2> DEFINE u == c.arg
             n == IF b - Len(u) > 0 THEN b - Len(u) ELSE 0
  <2>1. u \in Seq(Char) /\ (u # << >> => u[1] # Blank)
    <3>1. c.arg \in Seq(STRING) /\ (c.arg # << >> => c.arg[1] # Blank)
      BY <1>6 DEF IsConversion, IntegerTypes
    <3> QED BY <3>1, Strings
  <2>2. t = alt_log_repchar(Blank, b - Len(u)) \o u
    BY <1>1, <1>6 DEF Printed
  <2> HIDE DEF u, t
  <2>3. b - Len(u) \in Int /\ Len(u) \in Nat
    BY <1>2, <2>1
  <2>4. t \in Seq(Char) /\ Len(t) = n + Len(u) /\ AfterBlanks(t) = u
    BY <1>3, <2>1, <2>2, <2>3, BlanksThen
  <2>5. n + Len(u) = IF Width(c) > Len(u) THEN Width(c) ELSE Len(u)
    BY <1>2, <2>3
  <2> QED BY <1>6, <2>4, <2>5 DEF IsField, u
<1>7. c.type \in IntegerTypes \cup {"c", "s"}
  BY DEF IsConversion, IntegerTypes
<1> QED BY <1>4, <1>5, <1>6, <1>7 DEF f

\* The characters of a conversion.
Start(c) == IF c.zero THEN 2 ELSE 1

\* What stands where in the text of a conversion.
LEMMA ConversionText ==
  ASSUME NEW c, IsConversion(c)
  PROVE  LET t == FormatOf(c)
             n == Len(c.text)
             m == Len(c.skip)
         IN  /\ t \in Seq(Char) /\ Len(t) = Start(c) + n + m + 1
             /\ n \in Nat /\ m \in Nat /\ c.text \in Seq(ToSet(Decimal))
             /\ t[1] = "%" /\ (c.zero => t[2] = "0")
             /\ \A i \in 1 .. n : t[Start(c) + i] = c.text[i]
             /\ \A i \in 1 .. m : t[Start(c) + n + i] = c.skip[i]
             /\ t[Start(c) + n + m + 1] = c.type
<1> DEFINE z == IF c.zero THEN <<"0">> ELSE << >>
           n == Len(c.text)
           m == Len(c.skip)
           s == Start(c)
           t1 == <<"%">> \o z
           t2 == t1 \o c.text
           t3 == t2 \o c.skip
           t4 == t3 \o <<c.type>>
<1>1. ToSet(Decimal) \subseteq Char /\ "%" \in Char /\ "0" \in Char /\ "l" \in Char /\ "." \in Char
  <2>1. "0" \in ToSet(Decimal)
    BY DEF Decimal, ToSet
  <2> QED BY <2>1 DEF Char
<1>2. c.type \in Char
  BY DEF Char, IsConversion
<1>3. c.zero \in BOOLEAN /\ c.text \in Seq(ToSet(Decimal))
  BY DEF IsConversion
<1>4. c.text \in Seq(Char) /\ n \in Nat
  <2>1. c.text \in [1 .. n -> ToSet(Decimal)] /\ n \in Nat
    BY <1>3
  <2>2. c.text \in [1 .. n -> Char]
    BY <1>1, <2>1
  <2> QED BY <2>1, <2>2
<1>5. c.skip \in Seq(Char) /\ m \in Nat
  <2>1. c.skip = << >> \/ c.skip = <<"l">> \/ \E d \in ToSet(Decimal) : c.skip = <<".", d>>
    BY DEF IsConversion
  <2>2. << >> \in Seq(Char) /\ <<"l">> \in Seq(Char)
    BY <1>1
  <2>3. \A d \in ToSet(Decimal) : <<".", d>> \in Seq(Char)
    BY <1>1
  <2>4. c.skip \in Seq(Char)
    BY <2>1, <2>2, <2>3
  <2> QED BY <2>4
<1>6. t1 \in Seq(Char) /\ Len(t1) = s /\ t1[1] = "%" /\ (c.zero => t1[2] = "0")
  <2>1. CASE c.zero
    <3>1. t1 = <<"%">> \o <<"0">>
      BY <2>1
    <3>2. t1 \in Seq(Char) /\ Len(t1) = 2 /\ t1[1] = "%" /\ t1[2] = "0"
      BY <1>1, <3>1
    <3> QED BY <2>1, <3>2 DEF Start
  <2>2. CASE ~c.zero
    <3>1. t1 = <<"%">> \o << >>
      BY <2>2
    <3>2. t1 = <<"%">>
      BY <1>1, <3>1, ConcatEmptySeq
    <3> HIDE DEF t1
    <3>3. t1 \in Seq(Char) /\ Len(t1) = 1 /\ t1[1] = "%"
      BY <1>1, <3>2
    <3> QED BY <2>2, <3>3 DEF Start
  <2> QED BY <2>1, <2>2
<1>7. s \in 1 .. 2 /\ (c.zero => s = 2)
  BY DEF Start
<1> HIDE DEF z, n, m, s, t1
<1>8. /\ t2 \in Seq(Char) /\ Len(t2) = s + n
      /\ \A i \in 1 .. s : t2[i] = t1[i]
      /\ \A i \in 1 .. n : t2[s + i] = c.text[i]
  BY <1>4, <1>6, <1>7 DEF n
<1> HIDE DEF t2
<1>9. /\ t3 \in Seq(Char) /\ Len(t3) = s + n + m
      /\ \A i \in 1 .. s + n : t3[i] = t2[i]
      /\ \A i \in 1 .. m : t3[s + n + i] = c.skip[i]
  <2>1. t2 \in Seq(Char) /\ c.skip \in Seq(Char) /\ Len(t2) \in Nat /\ m = Len(c.skip) /\ m \in Nat
    BY <1>5, <1>8 DEF m
  <2>2. /\ t3 \in Seq(Char) /\ Len(t3) = Len(t2) + m
        /\ \A i \in 1 .. Len(t2) : t3[i] = t2[i]
        /\ \A i \in 1 .. m : t3[Len(t2) + i] = c.skip[i]
    BY <2>1
  <2> QED BY <1>8, <2>2
<1> HIDE DEF t3
<1>10. /\ t4 \in Seq(Char) /\ Len(t4) = s + n + m + 1
       /\ \A i \in 1 .. s + n + m : t4[i] = t3[i]
       /\ t4[s + n + m + 1] = c.type
  BY <1>2, <1>4, <1>5, <1>7, <1>9
<1>11. FormatOf(c) = t4
  BY DEF FormatOf, t4, t3, t2, t1, z
<1> HIDE DEF t4
<1>12. \A i \in 1 .. s : t4[i] = t1[i]
  BY <1>4, <1>5, <1>7, <1>8, <1>9, <1>10
<1>13. \A i \in 1 .. n : t4[s + i] = c.text[i]
  BY <1>4, <1>5, <1>7, <1>8, <1>9, <1>10, SMTT(30)
<1>14. \A i \in 1 .. m : t4[s + n + i] = c.skip[i]
  BY <1>4, <1>5, <1>7, <1>9, <1>10, SMTT(30)
<1>15. t4[1] = "%" /\ (c.zero => t4[2] = "0")
  BY <1>6, <1>7, <1>12
<1> QED BY <1>3, <1>4, <1>5, <1>10, <1>11, <1>13, <1>14, <1>15 DEF n, m, s

\* The text of a format that begins after o characters.
StandsAt(format, o, t) == \A i \in 1 .. Len(t) : format[o + i] = t[i]

\* The format has a conversion there, and its argument is the next one.
Reading(c, format, args, o, f, rest, text) ==
  /\ IsConversion(c) /\ format \in Seq(Char) /\ o \in Nat
  /\ o + Len(FormatOf(c)) <= Len(format) /\ StandsAt(format, o, FormatOf(c))
  /\ logStates(format, args)[o] = At("chars", f, rest, text) /\ Head(rest) = c.arg

\* Behind it, its field has been printed.
FieldRead(c, format, args, o, rest, text) ==
  \E g, field :
     /\ logStates(format, args)[o + Len(FormatOf(c))] = At("chars", g, Tail(rest), text \o field)
     /\ field \in Seq(Char) /\ IsField(field, c)

\* A conversion that stands anywhere in a format prints the field of the next argument.
LEMMA ConversionRead ==
  ASSUME NEW c, NEW format, NEW args, NEW o, NEW f, NEW rest, NEW text,
         Reading(c, format, args, o, f, rest, text)
  PROVE  FieldRead(c, format, args, o, rest, text)
<1>0. IsConversion(c) /\ format \in Seq(Char) /\ o \in Nat
  BY DEF Reading
<1> DEFINE q == logStates(format, args)
           t == FormatOf(c)
           n == Len(c.text)
           m == Len(c.skip)
           s == Start(c)
           r == Reader(c.text, 10)
           width(j) == IF j = 0 THEN -1 ELSE r[j]
<1>1. /\ t \in Seq(Char) /\ Len(t) = s + n + m + 1
      /\ n \in Nat /\ m \in Nat /\ c.text \in Seq(ToSet(Decimal))
      /\ t[1] = "%" /\ (c.zero => t[2] = "0")
      /\ \A i \in 1 .. n : t[s + i] = c.text[i]
      /\ \A i \in 1 .. m : t[s + n + i] = c.skip[i]
      /\ t[s + n + m + 1] = c.type
  BY <1>0, ConversionText
<1>2. s \in 1 .. 2 /\ (c.zero => s = 2) /\ (~c.zero => s = 1) /\ c.zero \in BOOLEAN
  BY <1>0 DEF Start, IsConversion
<1>3. /\ q[o] = At("chars", f, rest, text) /\ Len(format) \in Nat /\ o + Len(t) <= Len(format)
      /\ \A i \in 1 .. Len(t) : format[o + i] = t[i]
      /\ Head(rest) = c.arg
  BY <1>0 DEF Reading, StandsAt
<1>4. \A k \in 0 .. Len(format) - 1 : q[k + 1] = logStep(q[k], format[k + 1])
  BY <1>0, LogUnfold
<1>5. r[0] = 0 /\ Width(c) = r[n] /\ \A k \in 0 .. n - 1 : r[k + 1] = 10 * r[k] + Val(c.text[k + 1])
  BY <1>1, ReadUnfold DEF Width
<1> HIDE DEF q, t, n, m, s, r
<1>6. ASSUME NEW i \in 1 .. s + n + m + 1
      PROVE  q[o + i] = logStep(q[o + (i - 1)], t[i])
  <2>1. o + (i - 1) \in 0 .. Len(format) - 1 /\ (o + (i - 1)) + 1 = o + i
    BY <1>0, <1>1, <1>2, <1>3
  <2>2. format[o + i] = t[i]
    BY <1>1, <1>3
  <2> QED BY <1>4, <2>1, <2>2
<1>7. \A i \in 1 .. n : c.text[i] \in ToSet(Decimal) /\ Val(c.text[i]) \in Nat
  <2> SUFFICES ASSUME NEW i \in 1 .. n PROVE c.text[i] \in ToSet(Decimal) /\ Val(c.text[i]) \in Nat
    OBVIOUS
  <2>1. c.text[i] \in ToSet(Decimal)
    BY <1>1 DEF n
  <2> QED BY <2>1, Decimals
<1>8. ~c.zero /\ n > 0 => c.text[1] # "0"
  <2>1. n > 0 => c.text # << >>
    BY DEF n
  <2> QED BY <1>0, <2>1 DEF IsConversion
<1>9. PICK state :
        /\ q[o + s] = At(state, Fmt(c.zero, -1, -1), rest, text)
        /\ state = "otherFmtChar" \/ (state = "firstFmtChar" /\ ~c.zero)
  <2>1. q[o + 1] = At("firstFmtChar", Fmt(FALSE, -1, -1), rest, text)
    <3>1. 1 \in 1 .. s + n + m + 1 /\ o + (1 - 1) = o
      BY <1>0, <1>1, <1>2
    <3>2. q[o + 1] = logStep(q[o], "%")
      BY <1>1, <1>6, <3>1
    <3>3. logStep(At("chars", f, rest, text), "%") = At("firstFmtChar", Fmt(FALSE, -1, -1), rest, text)
      BY ReadPercent, Zenon
    <3> QED BY <1>3, <3>2, <3>3, Zenon
  <2>2. CASE c.zero
    <3>1. 2 \in 1 .. s + n + m + 1 /\ 2 - 1 = 1 /\ s = 2
      BY <1>0, <1>1, <1>2, <2>2
    <3>2. q[o + 2] = logStep(q[o + 1], "0")
      BY <1>1, <1>6, <2>2, <3>1
    <3>3. q[o + 2] = At("otherFmtChar", Fmt(TRUE, -1, -1), rest, text)
      BY <2>1, <3>2, ReadZero
    <3>4. Fmt(c.zero, -1, -1) = Fmt(TRUE, -1, -1)
      BY <2>2 DEF Fmt, Flags
    <3> QED BY <3>1, <3>3, <3>4
  <2>3. CASE ~c.zero
    <3>1. s = 1
      BY <1>2, <2>3
    <3>2. Fmt(c.zero, -1, -1) = Fmt(FALSE, -1, -1)
      BY <1>2, <2>3 DEF Fmt, Flags
    <3> QED BY <2>1, <2>3, <3>1, <3>2
  <2> QED BY <2>2, <2>3
<1>10. \A k \in 0 .. n : r[k] \in Nat
  <2> DEFINE S == {k \in 0 .. n : r[k] \in Nat}
  <2>1. 0 \in S
    BY <1>1, <1>5
  <2>2. ASSUME NEW k \in 0 .. n - 1, k \in S PROVE k + 1 \in S
    <3>1. k + 1 \in 1 .. n /\ k + 1 \in 0 .. n
      BY <1>1
    <3>2. r[k + 1] = 10 * r[k] + Val(c.text[k + 1]) /\ Val(c.text[k + 1]) \in Nat /\ r[k] \in Nat
      BY <1>5, <1>7, <2>2, <3>1
    <3>3. r[k + 1] \in Nat
      BY <3>2
    <3> QED BY <3>1, <3>3
  <2> HIDE DEF S
  <2>3. 0 .. n \subseteq S
    BY <1>1, <2>1, <2>2, Upto
  <2> QED BY <2>3 DEF S
<1> DEFINE Reached(j) == \E st :
             /\ q[o + s + j] = At(st, Fmt(c.zero, width(j), -1), rest, text)
             /\ st = "otherFmtChar" \/ (st = "firstFmtChar" /\ j = 0 /\ ~c.zero)
<1>11. Reached(n)
  <2> DEFINE S == {j \in 0 .. n : Reached(j)}
  <2>1. 0 \in S
    <3>1. o + s + 0 = o + s /\ 0 \in 0 .. n
      BY <1>0, <1>1, <1>2
    <3>2. width(0) = -1
      OBVIOUS
    <3> HIDE DEF width
    <3> QED BY <1>9, <3>1, <3>2
  <2>2. ASSUME NEW j \in 0 .. n - 1, j \in S PROVE j + 1 \in S
    <3> DEFINE d == c.text[j + 1]
    <3>1. PICK st : /\ q[o + s + j] = At(st, Fmt(c.zero, width(j), -1), rest, text)
                    /\ st = "otherFmtChar" \/ (st = "firstFmtChar" /\ j = 0 /\ ~c.zero)
      BY <2>2
    <3>2. /\ j + 1 \in 1 .. n /\ j + 1 \in 0 .. n /\ s + (j + 1) \in 1 .. s + n + m + 1
          /\ o + ((s + (j + 1)) - 1) = o + s + j /\ o + (s + (j + 1)) = o + s + (j + 1)
      BY <1>0, <1>1, <1>2
    <3>3. q[o + s + (j + 1)] = logStep(q[o + s + j], d)
      BY <1>1, <1>6, <3>2
    <3>4. d \in ToSet(Decimal) /\ d # "%"
      <4>1. d \in ToSet(Decimal)
        BY <1>7, <3>2
      <4> QED BY <4>1, Decimals
    <3>5. Within(st, d)
      <4>1. st = "firstFmtChar" => d # "0"
        <5> SUFFICES ASSUME st = "firstFmtChar" PROVE d # "0"
          OBVIOUS
        <5>1. j = 0 /\ ~c.zero
          BY <3>1
        <5>2. n > 0 /\ j + 1 = 1
          BY <1>1, <3>2, <5>1
        <5> QED BY <1>8, <5>1, <5>2
      <4> HIDE DEF d
      <4> QED BY <3>1, <3>4, <4>1 DEF Within
    <3>6. width(j) \in Int /\ (IF width(j) < 0 THEN 0 ELSE 10 * width(j)) + Val(d) = width(j + 1)
      <4>1. r[j] \in Nat /\ r[j + 1] = 10 * r[j] + Val(d) /\ Val(d) \in Nat /\ j + 1 # 0
        BY <1>1, <1>5, <1>7, <1>10, <3>2
      <4>2. CASE j = 0
        BY <1>5, <4>1, <4>2
      <4>3. CASE j # 0
        BY <4>1, <4>3
      <4> QED BY <4>2, <4>3
    <3> HIDE DEF d, width
    <3>7. logStep(At(st, Fmt(c.zero, width(j), -1), rest, text), d)
            = At("otherFmtChar", Fmt(c.zero, width(j + 1), -1), rest, text)
      <4>1. logStep(At(st, Fmt(c.zero, width(j), -1), rest, text), d)
              = At("otherFmtChar", Fmt(c.zero, (IF width(j) < 0 THEN 0 ELSE 10 * width(j)) + Val(d), -1), rest, text)
        BY <3>4, <3>5, <3>6, ReadWidth
      <4> QED BY <3>6, <4>1
    <3>8. Reached(j + 1)
      BY <3>1, <3>3, <3>7
    <3> QED BY <3>2, <3>8
  <2> HIDE DEF S
  <2>3. 0 .. n \subseteq S
    BY <1>1, <2>1, <2>2, Upto
  <2>4. n \in S
    BY <1>1, <2>3
  <2> QED BY <2>4 DEF S
<1> DEFINE b == width(n)
<1>12. WidthRead(c, b)
  BY <1>1, <1>5, <1>10 DEF WidthRead
<1>13. PICK st :
         /\ q[o + s + n] = At(st, Fmt(c.zero, b, -1), rest, text)
         /\ st = "otherFmtChar" \/ st = "firstFmtChar"
  BY <1>11
<1> HIDE DEF width, b, Reached
<1>14. \E st2, a : /\ q[o + s + n + m] = At(st2, Fmt(c.zero, b, a), rest, text)
                   /\ st2 = "otherFmtChar" \/ st2 = "firstFmtChar"
  <2>1. CASE c.skip = << >>
    <3>1. o + s + n + m = o + s + n
      BY <1>0, <1>1, <1>2, <2>1 DEF m
    <3> QED BY <1>13, <3>1
  <2>2. CASE c.skip = <<"l">>
    <3>1. m = 1 /\ c.skip[1] = "l"
      BY <2>2 DEF m
    <3>2. s + n + 1 \in 1 .. s + n + m + 1 /\ o + ((s + n + 1) - 1) = o + s + n
            /\ o + (s + n + 1) = o + s + n + m
      <4>1. o \in Nat /\ s \in Nat /\ n \in Nat /\ m = 1
        BY <1>0, <1>1, <1>2, <3>1
      <4> QED BY <4>1
    <3>3. q[o + s + n + m] = logStep(q[o + s + n], "l")
      BY <1>1, <1>6, <3>1, <3>2
    <3>4. Within(st, "l")
      BY <1>13 DEF Within
    <3>5. PICK d : d \in ToSet(Decimal)
      BY DEF ToSet, Decimal
    <3>6. logStep(At(st, Fmt(c.zero, b, -1), rest, text), "l") = At("otherFmtChar", Fmt(c.zero, b, -1), rest, text)
      BY <3>4, <3>5, ReadSkip
    <3>7. q[o + s + n + m] = At("otherFmtChar", Fmt(c.zero, b, -1), rest, text)
      BY <1>13, <3>3, <3>6
    <3> QED BY <3>7
  <2>3. ASSUME NEW d \in ToSet(Decimal), c.skip = <<".", d>>
        PROVE  q[o + s + n + m] = At("otherFmtChar", Fmt(c.zero, b, Val(d)), rest, text)
    <3>1. m = 2 /\ c.skip[1] = "." /\ c.skip[2] = d
      BY <2>3 DEF m
    <3>2. /\ s + n + 1 \in 1 .. s + n + m + 1 /\ o + ((s + n + 1) - 1) = o + s + n
          /\ s + n + 2 \in 1 .. s + n + m + 1 /\ o + ((s + n + 2) - 1) = o + (s + n + 1)
          /\ o + (s + n + 2) = o + s + n + m
      BY <1>0, <1>1, <1>2, <3>1
    <3>6. t[s + n + 1] = "." /\ t[s + n + 2] = d
      BY <1>1, <3>1
    <3>3. q[o + (s + n + 1)] = logStep(q[o + s + n], ".")
      BY <1>6, <3>2, <3>6
    <3>4. q[o + s + n + m] = logStep(q[o + (s + n + 1)], d)
      BY <1>6, <3>2, <3>6
    <3>5. Within(st, ".")
      BY <1>13 DEF Within
    <3> QED BY <1>13, <3>3, <3>4, <3>5, ReadSkip
  <2>4. c.skip = << >> \/ c.skip = <<"l">> \/ \E d \in ToSet(Decimal) : c.skip = <<".", d>>
    BY <1>0 DEF IsConversion
  <2> QED BY <2>1, <2>2, <2>3, <2>4
<1>15. PICK st2, a : /\ q[o + s + n + m] = At(st2, Fmt(c.zero, b, a), rest, text)
                     /\ st2 = "otherFmtChar" \/ st2 = "firstFmtChar"
  BY <1>14
<1>16. c.type \in Types /\ Within(st2, c.type)
  <2>1. c.type \in Types
    BY <1>0 DEF Types, IntegerTypes, IsConversion
  <2>2. c.type # "0" /\ c.type # "%"
    BY <2>1 DEF Types, IntegerTypes
  <2> QED BY <1>15, <2>1, <2>2 DEF Within
<1> DEFINE field == Printed(Fmt(c.zero, b, a), c.type, c.arg)
<1>17. q[o + Len(t)] = At("chars", Fmt(c.zero, b, a), Tail(rest), text \o field)
  <2>1. s + n + m + 1 \in 1 .. s + n + m + 1 /\ o + ((s + n + m + 1) - 1) = o + s + n + m
    BY <1>0, <1>1, <1>2
  <2>2. q[o + Len(t)] = logStep(q[o + s + n + m], c.type)
    BY <1>1, <1>6, <2>1
  <2> QED BY <1>3, <1>15, <1>16, <2>2, ReadLetter
<1>18. field \in Seq(Char) /\ IsField(field, c)
  BY <1>0, <1>12, FieldPrinted
<1> QED BY <1>17, <1>18 DEF q, t, FieldRead

-----------------------------------------------------------------------------
\* One text behind the other.
LEMMA Appended ==
  ASSUME NEW s \in Seq(Char), NEW t \in Seq(Char)
  PROVE  /\ s \o t \in Seq(Char) /\ Len(s \o t) = Len(s) + Len(t)
         /\ \A i \in 1 .. Len(s) : (s \o t)[i] = s[i]
         /\ \A i \in 1 .. Len(t) : (s \o t)[Len(s) + i] = t[i]
OBVIOUS

\* Two fields with text around them.
LEMMA Apart ==
  ASSUME NEW x \in Seq(Char), NEW y \in Seq(Char), NEW text, text = Append(Append(x, "%") \o y, "!")
  PROVE  LET k == Len(x) + 1
         IN  /\ k \in 1 .. Len(text) - 1 /\ text[k] = "%"
             /\ SubSeq(text, 1, k - 1) = x /\ SubSeq(text, k + 1, Len(text) - 1) = y
<1> DEFINE n == Len(x)
           m == Len(y)
           x1 == Append(x, "%")
           xy == x1 \o y
<1>1. "%" \in Char /\ "!" \in Char
  BY DEF Char
<1>2. n \in Nat /\ m \in Nat
  OBVIOUS
<1>3. x1 \in Seq(Char) /\ Len(x1) = n + 1 /\ x1[n + 1] = "%" /\ \A i \in 1 .. n : x1[i] = x[i]
  BY <1>1
<1> HIDE DEF x1
<1>4. /\ xy \in Seq(Char) /\ Len(xy) = n + 1 + m
      /\ \A i \in 1 .. n + 1 : xy[i] = x1[i]
      /\ \A i \in 1 .. m : xy[n + 1 + i] = y[i]
  <2> HIDE DEF m
  <2>1. m = Len(y) /\ n + 1 = Len(x1)
    BY <1>3 DEF m
  <2>2. /\ xy \in Seq(Char) /\ Len(xy) = Len(x1) + Len(y)
        /\ \A i \in 1 .. Len(x1) : xy[i] = x1[i]
        /\ \A i \in 1 .. Len(y) : xy[Len(x1) + i] = y[i]
    BY <1>3, Appended
  <2> QED BY <2>1, <2>2
<1> HIDE DEF xy
<1>5. /\ text \in Seq(Char) /\ Len(text) = n + 1 + m + 1
      /\ \A i \in 1 .. n + 1 + m : text[i] = xy[i]
  <2> DEFINE e == "!"
  <2>1. text = Append(xy, e) /\ e \in Char
    BY <1>1 DEF xy, x1
  <2>2. n + 1 + m \in Nat
    BY <1>2
  <2> HIDE DEF n, m, e
  <2>3. /\ text \in Seq(Char) /\ Len(text) = Len(xy) + 1
        /\ \A i \in 1 .. Len(xy) : text[i] = xy[i]
    <3>1. /\ Append(xy, e) \in Seq(Char) /\ Len(Append(xy, e)) = Len(xy) + 1
          /\ \A i \in 1 .. Len(xy) : Append(xy, e)[i] = xy[i]
      BY <1>4, <2>1, AppendProperties
    <3> QED BY <2>1, <3>1
  <2> QED BY <1>4, <2>3
<1> HIDE DEF n, m
<1>6. \A i \in 1 .. n : text[i] = x[i]
  <2>1. \A i \in 1 .. n : i \in 1 .. n + 1 /\ i \in 1 .. n + 1 + m
    BY <1>2
  <2> QED BY <1>3, <1>4, <1>5, <2>1
<1>7. \A i \in 1 .. m : text[(n + 1) + i] = y[i]
  <2>1. \A i \in 1 .. m : (n + 1) + i \in 1 .. n + 1 + m /\ (n + 1) + i = n + 1 + i
    BY <1>2
  <2> QED BY <1>4, <1>5, <2>1
<1>8. text[n + 1] = "%"
  BY <1>2, <1>3, <1>4, <1>5
<1>9. SubSeq(text, 1, (n + 1) - 1) = x
  <2>1. (n + 1) - 1 = n
    BY <1>2
  <2>2. SubSeq(text, 1, n) \in Seq(Char) /\ Len(SubSeq(text, 1, n)) = n
         /\ \A i \in 1 .. n : SubSeq(text, 1, n)[i] = text[i]
    BY <1>2, <1>5, SMTT(30)
  <2>3. Len(x) = n
    BY DEF n
  <2> QED BY <1>6, <2>1, <2>2, <2>3, SeqEqual
<1>10. SubSeq(text, (n + 1) + 1, Len(text) - 1) = y
  <2> DEFINE u == SubSeq(text, n + 2, n + 1 + m)
  <2>1. (n + 1) + 1 = n + 2 /\ Len(text) - 1 = n + 1 + m
    BY <1>2, <1>5
  <2>2. u \in Seq(Char) /\ Len(u) = m /\ \A i \in 1 .. m : u[i] = text[(n + 1) + i]
    BY <1>2, <1>5
  <2> HIDE DEF u
  <2>3. Len(y) = m
    BY DEF m
  <2>4. u = y
    BY <1>7, <2>2, <2>3, SeqEqual
  <2> QED BY <2>1, <2>4 DEF u
<1>11. n + 1 \in 1 .. Len(text) - 1
  BY <1>2, <1>5
<1> QED BY <1>8, <1>9, <1>10, <1>11 DEF n

\* Nothing is printed when a format begins.
LEMMA StartIs ==
  ASSUME NEW args
  PROVE  StartOfFormat(args) = At("chars", NewConversion, args, << >>)
BY DEF StartOfFormat, At

\* Two conversions print their fields, whatever the first one was.
LEMMA PrintsTwo ==
  ASSUME NEW c, IsConversion(c), NEW d, IsConversion(d), NEW format,
         format = FormatOf(c) \o <<"%", "%">> \o FormatOf(d) \o <<"!">>
  PROVE  LET text == alt_log_private_printf(format, <<c.arg, d.arg>>)
         IN  \E k \in 1 .. Len(text) - 1 :
               /\ text[k] = "%"
               /\ IsField(SubSeq(text, 1, k - 1), c)
               /\ IsField(SubSeq(text, k + 1, Len(text) - 1), d)
<1> DEFINE s == FormatOf(c)
           t == FormatOf(d)
           n == Len(s)
           m == Len(t)
           s2 == s \o <<"%", "%">>
           st == s2 \o t
           args == <<c.arg, d.arg>>
           q == logStates(format, args)
<1>1. "%" \in Char /\ "!" \in Char /\ <<"%", "%">> \in Seq(Char) /\ <<"!">> \in Seq(Char)
  <2>1. "%" \in Char /\ "!" \in Char
    BY DEF Char
  <2> QED BY <2>1
<1>2. s \in Seq(Char) /\ t \in Seq(Char)
  BY ConversionText
<1> HIDE DEF s, t
<1>3. n \in Nat /\ m \in Nat
  BY <1>2
<1>4. /\ s2 \in Seq(Char) /\ Len(s2) = n + 2 /\ s2[n + 1] = "%" /\ s2[n + 2] = "%"
      /\ \A i \in 1 .. n : s2[i] = s[i]
  BY <1>1, <1>2, <1>3
<1> HIDE DEF s2
<1>5. /\ st \in Seq(Char) /\ Len(st) = n + 2 + m
      /\ \A i \in 1 .. n + 2 : st[i] = s2[i]
      /\ \A i \in 1 .. m : st[n + 2 + i] = t[i]
  <2> HIDE DEF n, m
  <2>1. n + 2 = Len(s2) /\ m = Len(t)
    BY <1>4 DEF m
  <2>2. /\ st \in Seq(Char) /\ Len(st) = Len(s2) + Len(t)
        /\ \A i \in 1 .. Len(s2) : st[i] = s2[i]
        /\ \A i \in 1 .. Len(t) : st[Len(s2) + i] = t[i]
    BY <1>2, <1>4, Appended
  <2> QED BY <2>1, <2>2
<1> HIDE DEF st
<1>6. /\ format \in Seq(Char) /\ Len(format) = n + 2 + m + 1
      /\ \A i \in 1 .. n + 2 + m : format[i] = st[i]
      /\ format[n + 2 + m + 1] = "!"
  <2>1. format = st \o <<"!">>
    BY DEF st, s2, s, t
  <2>2. Len(<<"!">>) = 1 /\ <<"!">>[1] = "!"
    OBVIOUS
  <2> HIDE DEF n, m
  <2> DEFINE e == <<"!">>
  <2>3. e \in Seq(Char) /\ Len(e) = 1 /\ e[1] = "!" /\ Len(st) = n + 2 + m /\ format = st \o e
    BY <1>1, <1>5, <2>1, <2>2
  <2> HIDE DEF e
  <2>4. /\ format \in Seq(Char) /\ Len(format) = Len(st) + Len(e)
        /\ \A i \in 1 .. Len(st) : format[i] = st[i]
        /\ \A i \in 1 .. Len(e) : format[Len(st) + i] = e[i]
    <3>1. /\ st \o e \in Seq(Char) /\ Len(st \o e) = Len(st) + Len(e)
          /\ \A i \in 1 .. Len(st) : (st \o e)[i] = st[i]
          /\ \A i \in 1 .. Len(e) : (st \o e)[Len(st) + i] = e[i]
      BY <1>5, <2>3, Appended
    <3> QED BY <2>3, <3>1
  <2> QED BY <2>3, <2>4
<1> DEFINE rest == Tail(args)
<1>7. Head(args) = c.arg /\ Head(rest) = d.arg
  OBVIOUS
<1> HIDE DEF n, m, args, rest
<1>8. /\ StandsAt(format, 0, s) /\ StandsAt(format, n + 2, t)
      /\ format[n + 1] = "%" /\ format[n + 2] = "%"
  <2>1. \A i \in 1 .. n : format[0 + i] = s[i]
    <3>1. \A i \in 1 .. n : i \in 1 .. n + 2 /\ i \in 1 .. n + 2 + m /\ 0 + i = i
      BY <1>3
    <3> QED BY <1>4, <1>5, <1>6, <3>1
  <2>2. \A i \in 1 .. m : format[(n + 2) + i] = t[i]
    <3>1. \A i \in 1 .. m : (n + 2) + i \in 1 .. n + 2 + m /\ (n + 2) + i = n + 2 + i
      BY <1>3
    <3> QED BY <1>5, <1>6, <3>1
  <2>3. format[n + 1] = "%" /\ format[n + 2] = "%"
    <3>1. \A i \in {n + 1, n + 2} : i \in 1 .. n + 2 /\ i \in 1 .. n + 2 + m
      BY <1>3
    <3> QED BY <1>4, <1>5, <1>6, <3>1
  <2> QED BY <2>1, <2>2, <2>3 DEF StandsAt, n, m
<1>9. q[0] = At("chars", NewConversion, args, << >>)
       /\ \A k \in 0 .. Len(format) - 1 : q[k + 1] = logStep(q[k], format[k + 1])
  BY <1>6, LogUnfold, StartIs
<1>10. PICK g, x : /\ q[n] = At("chars", g, rest, << >> \o x)
                   /\ x \in Seq(Char) /\ IsField(x, c)
  <2>1. 0 \in Nat /\ 0 + Len(s) <= Len(format) /\ 0 + Len(s) = n
    BY <1>3, <1>6 DEF n
  <2> DEFINE o == 0
             none == << >>
  <2>2. \E g, x : /\ q[o + Len(FormatOf(c))] = At("chars", g, Tail(args), none \o x)
                  /\ x \in Seq(Char) /\ IsField(x, c)
    <3>1. format \in Seq(Char) /\ 0 + Len(FormatOf(c)) <= Len(format) /\ StandsAt(format, 0, FormatOf(c))
      BY <1>6, <1>8, <2>1 DEF s
    <3>2. Reading(c, format, args, 0, NewConversion, args, << >>)
      BY <1>7, <1>9, <2>1, <3>1 DEF Reading
    <3> HIDE DEF o, none
    <3>3. Reading(c, format, args, o, NewConversion, args, none)
      BY <3>2 DEF o, none
    <3>4. FieldRead(c, format, args, o, args, none)
      BY <3>3, ConversionRead
    <3> QED BY <3>4 DEF FieldRead
  <2> QED BY <2>1, <2>2 DEF s, rest
<1>11. << >> \o x = x
  BY <1>10, ConcatEmptySeq
<1> HIDE DEF q
<1>13. PICK f : q[n + 2] = At("chars", f, rest, Append(x, "%"))
  <2>1. n \in 0 .. Len(format) - 1 /\ n + 1 \in 0 .. Len(format) - 1 /\ (n + 1) + 1 = n + 2
    BY <1>3, <1>6
  <2>2. q[n + 1] = logStep(At("chars", g, rest, x), "%")
    BY <1>8, <1>9, <1>10, <1>11, <2>1
  <2>3. q[n + 2] = logStep(q[n + 1], "%")
    BY <1>8, <1>9, <2>1
  <2> QED BY <2>2, <2>3, ReadTwoPercent
<1>14. PICK h, y : /\ q[n + 2 + m] = At("chars", h, Tail(rest), Append(x, "%") \o y)
                   /\ y \in Seq(Char) /\ IsField(y, d)
  <2>1. n + 2 \in Nat /\ (n + 2) + Len(t) <= Len(format) /\ (n + 2) + Len(t) = n + 2 + m
    BY <1>3, <1>6 DEF m
  <2> DEFINE o == n + 2
             u == Append(x, "%")
  <2> HIDE DEF o, u
  <2>2. \E h, y : /\ q[o + Len(FormatOf(d))] = At("chars", h, Tail(rest), u \o y)
                  /\ y \in Seq(Char) /\ IsField(y, d)
    <3>1. /\ o \in Nat /\ format \in Seq(Char) /\ o + Len(FormatOf(d)) <= Len(format)
          /\ StandsAt(format, o, FormatOf(d))
      BY <1>6, <1>8, <2>1 DEF t, o
    <3>2. Reading(d, format, args, o, f, rest, u)
      BY <1>7, <1>13, <3>1 DEF Reading, q, o, u
    <3> QED BY <3>2, ConversionRead DEF FieldRead, q
  <2> QED BY <2>1, <2>2 DEF t, o, u
<1> DEFINE text == alt_log_private_printf(format, args)
<1>15. text = Append(Append(x, "%") \o y, "!")
  <2> DEFINE xy == Append(x, "%") \o y
             e == n + 2 + m
  <2>1. e \in 0 .. Len(format) - 1 /\ e + 1 = Len(format)
    BY <1>3, <1>6
  <2>2. format[e + 1] = "!" /\ "!" # "%"
    BY <1>6
  <2> HIDE DEF xy
  <2>3. q[Len(format)] = logStep(At("chars", h, Tail(rest), xy), "!")
    BY <1>9, <1>14, <2>1, <2>2 DEF xy
  <2>4. q[Len(format)] = At("chars", h, Tail(rest), Append(xy, "!"))
    BY <2>2, <2>3, ReadChar
  <2>5. text = q[Len(format)].out
    BY DEF alt_log_private_printf, q
  <2>6. text = Append(xy, "!")
    BY <2>4, <2>5 DEF At
  <2> QED BY <2>6 DEF xy
<1> HIDE DEF text
<1>16. LET k == Len(x) + 1
       IN  /\ k \in 1 .. Len(text) - 1 /\ text[k] = "%"
           /\ SubSeq(text, 1, k - 1) = x /\ SubSeq(text, k + 1, Len(text) - 1) = y
  BY <1>10, <1>14, <1>15, Apart
<1>17. \E k \in 1 .. Len(text) - 1 :
               /\ text[k] = "%"
               /\ IsField(SubSeq(text, 1, k - 1), c)
               /\ IsField(SubSeq(text, k + 1, Len(text) - 1), d)
  BY <1>10, <1>14, <1>16
<1> QED BY <1>17 DEF text, args

-----------------------------------------------------------------------------
\* alt_printf, and the echo of a text.
LEMMA PrintfUnfold ==
  ASSUME NEW S, NEW format \in Seq(S), NEW args
  PROVE  LET q == printfStates(format, args)
         IN  /\ q[0] = StartOfFormat(args)
             /\ \A k \in 0 .. Len(format) - 1 : q[k + 1] = printfStep(q[k], format[k + 1])
<1> DEFINE n == Len(format)
           Def(p, k) == CHOOSE next \in {printfStep(q, format[k]) : q \in {p}} : TRUE
           start == StartOfFormat(args)
           r == CHOOSE g : g = [k \in 0 .. n |-> IF k = 0 THEN start ELSE Def(g[k - 1], k)]
<1>1. printfStates(format, args) = r
  BY DEF printfStates
<1>2. n \in Nat /\ 0 \in Nat
  OBVIOUS
<1>3. FiniteNatInductiveDefHypothesis(r, start, Def, 0, n)
  BY DEF FiniteNatInductiveDefHypothesis
<1>4. ASSUME NEW p, NEW k PROVE Def(p, k) = printfStep(p, format[k])
  <2>1. {printfStep(q, format[k]) : q \in {p}} = {printfStep(p, format[k])}
    OBVIOUS
  <2> QED BY <2>1
<1> HIDE DEF Def, r, n, start
<1>5. FiniteNatInductiveDefConclusion(r, start, Def, 0, n)
  BY <1>2, <1>3, FiniteNatInductiveDef
<1>6. r = [k \in 0 .. n |-> IF k = 0 THEN start ELSE Def(r[k - 1], k)]
  BY <1>5 DEF FiniteNatInductiveDefConclusion
<1>7. ASSUME NEW k \in 0 .. n - 1 PROVE r[k + 1] = printfStep(r[k], format[k + 1])
  <2>1. k + 1 \in 0 .. n /\ k + 1 # 0 /\ (k + 1) - 1 = k
    BY <1>2
  <2>2. r[k + 1] = Def(r[k], k + 1)
    BY <1>6, <2>1
  <2> QED BY <1>4, <2>2
<1>8. r[0] = start
  BY <1>2, <1>6
<1> QED BY <1>1, <1>7, <1>8 DEF n, start

\* The characters of a format that alt_printf is called with here.
LEMMA PrintfRead ==
  ASSUME NEW f, NEW args, NEW text
  PROVE  /\ printfStep(At("chars", f, args, text), "!") = At("chars", f, args, Append(text, "!"))
         /\ printfStep(At("chars", f, args, text), "%") = At("format", f, args, text)
         /\ printfStep(At("format", f, args, text), "%") = At("chars", f, args, Append(text, "%"))
         /\ printfStep(At("format", f, args, text), "x")
              = At("chars", f, Tail(args), text \o hexadecimal(Head(args)))
<1>1. printfStep(At("chars", f, args, text), "!") = At("chars", f, args, Append(text, "!"))
  BY DEF printfStep, At
<1>2. printfStep(At("chars", f, args, text), "%") = At("format", f, args, text)
  BY DEF printfStep, At
<1>3. printfStep(At("format", f, args, text), "%") = At("chars", f, args, Append(text, "%"))
  BY DEF printfStep, At
<1>4. printfStep(At("format", f, args, text), "x")
        = Converted(At("format", f, args, text), hexadecimal(Head(args)))
  BY DEF printfStep, At
<1> QED BY <1>1, <1>2, <1>3, <1>4, ConvertedIs

\* alt_printf prints two numbers, with a percent sign between them.
LEMMA PrintsHex ==
  ASSUME NEW args, NEW format, NEW v, NEW w, args = <<v, w>>,
         v \in 0 .. power(2)[Bits] - 1, w \in 0 .. power(2)[Bits] - 1,
         format = <<"%", "x", "%", "%", "%", "x", "!">>
  PROVE  LET text == alt_printf(format, args)
             plain(n) == [zero |-> FALSE, text |-> << >>, type |-> "x", arg |-> n]
         IN  \E k \in 1 .. Len(text) - 1 :
               /\ text[k] = "%"
               /\ IsNumber(SubSeq(text, 1, k - 1), plain(v))
               /\ IsNumber(SubSeq(text, k + 1, Len(text) - 1), plain(w))
<1> DEFINE q == printfStates(format, args)
           f == NewConversion
           x == hexadecimal(v)
           y == hexadecimal(w)
           rest == Tail(args)
           none == << >>
           plain(n) == [zero |-> FALSE, text |-> << >>, type |-> "x", arg |-> n]
           text == alt_printf(format, args)
<1>1. IsNumber(x, plain(v)) /\ IsNumber(y, plain(w)) /\ x \in Seq(Char) /\ y \in Seq(Char)
  BY HexReads
<1>2. Head(args) = v /\ Head(rest) = w
  OBVIOUS
<1>3. none \o x = x
  BY <1>1, ConcatEmptySeq
<1>4. /\ format \in Seq(Char) /\ Len(format) = 7
      /\ format[1] = "%" /\ format[2] = "x" /\ format[3] = "%" /\ format[4] = "%"
      /\ format[5] = "%" /\ format[6] = "x" /\ format[7] = "!"
  <2>1. "%" \in Char /\ "x" \in Char /\ "!" \in Char
    BY DEF Char
  <2> QED BY <2>1
<1>5. /\ q[0] = At("chars", f, args, none)
      /\ \A k \in 0 .. 6 : q[k + 1] = printfStep(q[k], format[k + 1])
  <2>1. /\ q[0] = StartOfFormat(args)
        /\ \A k \in 0 .. Len(format) - 1 : q[k + 1] = printfStep(q[k], format[k + 1])
    BY <1>4, PrintfUnfold
  <2>2. StartOfFormat(args) = At("chars", f, args, none)
    BY StartIs
  <2>3. Len(format) - 1 = 6
    BY <1>4
  <2> HIDE DEF q, f, none
  <2> QED BY <2>1, <2>2, <2>3
<1>6. text = q[7].out
  BY <1>4 DEF alt_printf
<1> HIDE DEF q, f, x, y, rest, none, plain, text
<1>7. /\ q[1] = printfStep(q[0], "%") /\ q[2] = printfStep(q[1], "x")
      /\ q[3] = printfStep(q[2], "%") /\ q[4] = printfStep(q[3], "%")
      /\ q[5] = printfStep(q[4], "%") /\ q[6] = printfStep(q[5], "x")
      /\ q[7] = printfStep(q[6], "!")
  BY <1>4, <1>5
<1>8. q[1] = At("format", f, args, none)
  BY <1>5, <1>7, PrintfRead
<1>9. q[2] = At("chars", f, rest, x)
  <2>1. printfStep(At("format", f, args, none), "x")
          = At("chars", f, Tail(args), none \o hexadecimal(Head(args)))
    <3> DEFINE a == args
    <3> HIDE DEF a
    <3>1. printfStep(At("format", f, a, none), "x")
            = At("chars", f, Tail(a), none \o hexadecimal(Head(a)))
      BY PrintfRead
    <3> QED BY <3>1 DEF a
  <2>2. q[2] = At("chars", f, rest, none \o x)
    BY <1>2, <1>7, <1>8, <2>1 DEF rest, x
  <2> QED BY <1>3, <2>2
<1>10. q[3] = At("format", f, rest, x)
  BY <1>7, <1>9, PrintfRead, SMTT(30)
<1>11. q[4] = At("chars", f, rest, Append(x, "%"))
  BY <1>7, <1>10, PrintfRead, SMTT(30)
<1>12. q[5] = At("format", f, rest, Append(x, "%"))
  BY <1>7, <1>11, PrintfRead, SMTT(30)
<1>13. q[6] = At("chars", f, Tail(rest), Append(x, "%") \o y)
  <2>1. printfStep(At("format", f, rest, Append(x, "%")), "x")
          = At("chars", f, Tail(rest), Append(x, "%") \o hexadecimal(Head(rest)))
    BY PrintfRead
  <2> QED BY <1>2, <1>7, <1>12, <2>1 DEF y
<1>14. q[7] = At("chars", f, Tail(rest), Append(Append(x, "%") \o y, "!"))
  BY <1>7, <1>13, PrintfRead, SMTT(30)
<1>15. text = Append(Append(x, "%") \o y, "!")
  BY <1>6, <1>14 DEF At
<1>16. LET k == Len(x) + 1
       IN  /\ k \in 1 .. Len(text) - 1 /\ text[k] = "%"
           /\ SubSeq(text, 1, k - 1) = x /\ SubSeq(text, k + 1, Len(text) - 1) = y
  BY <1>1, <1>15, Apart
<1>17. \E k \in 1 .. Len(text) - 1 :
               /\ text[k] = "%"
               /\ IsNumber(SubSeq(text, 1, k - 1), plain(v))
               /\ IsNumber(SubSeq(text, k + 1, Len(text) - 1), plain(w))
  BY <1>1, <1>16
<1> QED BY <1>17 DEF text, plain

\* The echo is the text up to its length, with its end replaced.
LEMMA Echoes ==
  ASSUME NEW text \in Seq(STRING)
  PROVE  LET shown == IF Len(text) < EchoLen THEN Len(text) ELSE EchoLen
             echo == alt_log_write(text)
         IN  IF shown < 2 THEN echo = << >>
             ELSE /\ Len(echo) = 3 + shown
                  /\ \A i \in 3 .. Len(echo) - 2 :
                         echo[i] = IF text[i - 2] = CtrlD THEN "D" ELSE text[i - 2]
<1> DEFINE n == IF EchoLen > Len(text) THEN Len(text) ELSE EchoLen
           shown == IF Len(text) < EchoLen THEN Len(text) ELSE EchoLen
           kept(i) == IF text[i] = CtrlD THEN "D" ELSE text[i]
           copied == [i \in 1 .. n - 1 |-> kept(i)]
           lineEnd == <<"\n", "\r">>
           arg == copied \o lineEnd
           args == <<arg>>
           format == <<"E", ":", "%", "s">>
           q == logStates(format, args)
           echo == alt_log_write(text)
<1>1. n = shown /\ n \in Nat
  BY PrintfAssumption
<1>2. CASE n < 2
  <2>1. echo = << >>
    BY <1>2 DEF alt_log_write
  <2> QED BY <1>1, <1>2, <2>1
<1>3. CASE ~(n < 2)
  <2>1. echo = alt_log_private_printf(format, args)
    BY <1>3 DEF alt_log_write
  <2>2. "E" \in Char /\ ":" \in Char /\ "%" \in Char /\ "s" \in Char /\ "D" \in Char
          /\ "\n" \in Char /\ "\r" \in Char
    BY DEF Char
  <2>3. lineEnd \in Seq(Char) /\ Len(lineEnd) = 2
    BY <2>2
  <2>4. copied \in Seq(Char) /\ Len(copied) = n - 1 /\ \A i \in 1 .. n - 1 : copied[i] = kept(i)
    <3>1. \A i \in 1 .. n - 1 : kept(i) \in Char
      <4> SUFFICES ASSUME NEW i \in 1 .. n - 1 PROVE kept(i) \in Char
        OBVIOUS
      <4>1. i \in 1 .. Len(text)
        BY <1>1
      <4>2. text[i] \in STRING
        BY <4>1
      <4> QED BY <2>2, <4>2, Strings
    <3>2. n - 1 \in Nat
      BY <1>1, <1>3
    <3> HIDE DEF kept, n
    <3> QED BY <3>1, <3>2
  <2>5. /\ format \in Seq(Char) /\ Len(format) = 4
        /\ format[1] = "E" /\ format[2] = ":" /\ format[3] = "%" /\ format[4] = "s"
    BY <2>2
  <2>6. Head(args) = arg
    <3> HIDE DEF arg
    <3> QED OBVIOUS
  <2> HIDE DEF copied, lineEnd, n, kept
  <2>7. /\ arg \in Seq(Char) /\ Len(arg) = n + 1
        /\ \A i \in 1 .. n - 1 : arg[i] = kept(i)
    <3>1. /\ arg \in Seq(Char) /\ Len(arg) = Len(copied) + Len(lineEnd)
          /\ \A i \in 1 .. Len(copied) : arg[i] = copied[i]
      BY <2>3, <2>4, Appended
    <3> QED BY <1>1, <2>3, <2>4, <3>1
  <2> HIDE DEF arg, args, format
  <2> DEFINE none == << >>
  <2>8. /\ q[0] = At("chars", NewConversion, args, none)
        /\ \A k \in 0 .. 3 : q[k + 1] = logStep(q[k], format[k + 1])
    <3>1. /\ q[0] = StartOfFormat(args)
          /\ \A k \in 0 .. Len(format) - 1 : q[k + 1] = logStep(q[k], format[k + 1])
      BY <2>5, LogUnfold
    <3>2. StartOfFormat(args) = At("chars", NewConversion, args, none)
      BY StartIs
    <3>3. Len(format) - 1 = 3
      BY <2>5
    <3> HIDE DEF q, none
    <3> QED BY <3>1, <3>2, <3>3
  <2> DEFINE one == Append(none, "E")
             two == Append(one, ":")
             f == Fmt(FALSE, -1, -1)
  <2> HIDE DEF q
  <2>9. /\ q[1] = logStep(q[0], "E") /\ q[2] = logStep(q[1], ":")
        /\ q[3] = logStep(q[2], "%") /\ q[4] = logStep(q[3], "s")
    BY <2>5, <2>8
  <2>15. two \in Seq(Char) /\ Len(two) = 2
    <3>1. \A s \in Seq(Char), e \in Char : Append(s, e) \in Seq(Char) /\ Len(Append(s, e)) = Len(s) + 1
      BY AppendProperties
    <3>2. none \in Seq(Char) /\ Len(none) = 0
      OBVIOUS
    <3> HIDE DEF none
    <3>3. one \in Seq(Char) /\ Len(one) = 1
      BY <2>2, <3>1, <3>2
    <3> DEFINE colon == ":"
    <3>4. two = Append(one, colon) /\ colon \in Char
      BY <2>2
    <3> HIDE DEF one, two, colon
    <3>5. two \in Seq(Char) /\ Len(two) = 1 + 1
      BY <3>1, <3>3, <3>4
    <3> QED BY <3>5
  <2> HIDE DEF none
  <2>10. q[2] = At("chars", NewConversion, args, two)
    <3>1. "E" # "%" /\ ":" # "%"
      OBVIOUS
    <3>2. q[1] = At("chars", NewConversion, args, one)
      BY <2>8, <2>9, <3>1, ReadChar
    <3> QED BY <2>9, <3>1, <3>2, ReadChar
  <2> HIDE DEF two, f
  <2>11. q[3] = At("firstFmtChar", f, args, two)
    <3>1. logStep(At("chars", NewConversion, args, two), "%") = At("firstFmtChar", f, args, two)
      BY ReadPercent, Zenon DEF f
    <3> QED BY <2>9, <2>10, <3>1
  <2>12. q[4] = At("chars", f, Tail(args), two \o Printed(f, "s", arg))
    <3> DEFINE no == FALSE
               less == -1
    <3>1. f = Fmt(no, less, less)
      BY DEF f
    <3>2. Within("firstFmtChar", "s") /\ "s" \in Types
      BY DEF Within, Types
    <3> HIDE DEF no, less
    <3>3. logStep(At("firstFmtChar", Fmt(no, less, less), args, two), "s")
            = At("chars", Fmt(no, less, less), Tail(args), two \o Printed(Fmt(no, less, less), "s", Head(args)))
      BY <3>2, ReadLetter
    <3> QED BY <2>6, <2>9, <2>11, <3>1, <3>3
  <2>13. Printed(f, "s", arg) = arg
    <3>1. f.before = -1
      <4> DEFINE no == FALSE
      <4>1. f = Fmt(no, -1, -1)
        BY DEF f
      <4> HIDE DEF no
      <4> QED BY <4>1, FmtChanged
    <3>2. Printed(f, "s", arg) = alt_log_repchar(Blank, -1 - Len(arg)) \o arg
      BY <3>1 DEF Printed
    <3>3. alt_log_repchar(Blank, -1 - Len(arg)) = << >>
      <4>1. Blank \in Char
        BY DEF Char, Blank
      <4>2. -1 - Len(arg) \in Int /\ -1 - Len(arg) <= 0
        BY <1>1, <2>7
      <4> QED BY <4>1, <4>2, Repeated
    <3> QED BY <2>7, <3>2, <3>3, ConcatEmptySeq
  <2>14. echo = two \o arg
    <3>1. echo = q[4].out
      BY <2>1, <2>5 DEF alt_log_private_printf, q
    <3> QED BY <2>12, <2>13, <3>1 DEF At
  <2> HIDE DEF echo
  <2>16. /\ Len(echo) = Len(two) + Len(arg)
         /\ \A i \in 1 .. Len(arg) : echo[Len(two) + i] = arg[i]
    BY <2>7, <2>14, <2>15, Appended
  <2>17. Len(echo) = 3 + n
    BY <1>1, <2>7, <2>15, <2>16
  <2>18. \A i \in 3 .. Len(echo) - 2 : echo[i] = kept(i - 2)
    <3> SUFFICES ASSUME NEW i \in 3 .. Len(echo) - 2 PROVE echo[i] = kept(i - 2)
      OBVIOUS
    <3>1. i - 2 \in 1 .. n - 1 /\ i - 2 \in 1 .. Len(arg) /\ 2 + (i - 2) = i
      BY <1>1, <2>7, <2>17
    <3> QED BY <2>7, <2>15, <2>16, <3>1
  <2> QED BY <1>1, <1>3, <2>17, <2>18 DEF kept, echo
<1> QED BY <1>2, <1>3

\* A call of a printf function prints its arguments.
LEMMA PrintCall ==
  ASSUME JobOK, Returned
  PROVE  PrintsArguments
<1> DEFINE p == job.first
           d == job.second
           text == alt_log_private_printf(job.format, <<p.arg, d.arg>>)
           v == job.args[1]
           w == job.args[2]
<1>1. CASE ~done \/ job.call \notin {"print", "hex", "echo"}
  BY <1>1 DEF PrintsArguments
<1>2. CASE done /\ job.call = "print"
  <2>1. /\ IsConversion(p) /\ IsConversion(d)
        /\ job.format = FormatOf(p) \o <<"%", "%">> \o FormatOf(d) \o <<"!">>
    BY <1>2, WhoCalls, CallAssumption
  <2>2. \E k \in 1 .. Len(text) - 1 :
            /\ text[k] = "%"
            /\ IsField(SubSeq(text, 1, k - 1), p)
            /\ IsField(SubSeq(text, k + 1, Len(text) - 1), d)
    BY <2>1, PrintsTwo
  <2>3. out = text
    BY <1>2 DEF Returned
  <2> HIDE DEF text, p, d
  <2>4. \E k \in 1 .. Len(out) - 1 :
            /\ out[k] = "%"
            /\ IsField(SubSeq(out, 1, k - 1), p)
            /\ IsField(SubSeq(out, k + 1, Len(out) - 1), d)
    BY <2>2, <2>3
  <2> QED BY <1>2, <2>4 DEF PrintsArguments, p, d
<1>3. CASE done /\ job.call = "hex"
  <2>1. /\ job.format = <<"%", "x", "%", "%", "%", "x", "!">>
        /\ job.args \in Seq(0 .. power(2)[Bits] - 1) /\ Len(job.args) = 2
    BY <1>3, WhoCalls, CallAssumption
  <2>2. job.args = <<v, w>> /\ v \in 0 .. power(2)[Bits] - 1 /\ w \in 0 .. power(2)[Bits] - 1
    <3> DEFINE Value == 0 .. power(2)[Bits] - 1
               args == job.args
    <3>1. args \in Seq(Value) /\ Len(args) = 2
      BY <2>1
    <3> HIDE DEF Value, args
    <3>2. args = <<args[1], args[2]>> /\ args[1] \in Value /\ args[2] \in Value
      BY <3>1
    <3> QED BY <3>2 DEF Value, args
  <2> DEFINE hex == alt_printf(job.format, job.args)
             plain(n) == [zero |-> FALSE, text |-> << >>, type |-> "x", arg |-> n]
             vv == plain(v)
             ww == plain(w)
  <2>3. \E k \in 1 .. Len(hex) - 1 :
            /\ hex[k] = "%"
            /\ IsNumber(SubSeq(hex, 1, k - 1), vv)
            /\ IsNumber(SubSeq(hex, k + 1, Len(hex) - 1), ww)
    BY <2>1, <2>2, PrintsHex
  <2>4. out = hex
    BY <1>3 DEF Returned
  <2> HIDE DEF hex, vv, ww
  <2>5. \E k \in 1 .. Len(out) - 1 :
            /\ out[k] = "%"
            /\ IsNumber(SubSeq(out, 1, k - 1), vv)
            /\ IsNumber(SubSeq(out, k + 1, Len(out) - 1), ww)
    BY <2>3, <2>4
  <2> QED BY <1>3, <2>5 DEF PrintsArguments, vv, ww
<1>4. CASE done /\ job.call = "echo"
  <2>1. job.text \in Seq(STRING)
    BY <1>4, WhoCalls, CallAssumption
  <2>2. out = alt_log_write(job.text)
    BY <1>4 DEF Returned
  <2> QED BY <1>4, <2>1, <2>2, Echoes DEF PrintsArguments
<1> QED BY <1>1, <1>2, <1>3, <1>4

\* Every conversion prints its argument whatever came before it, %x its shortest
\* digits, and the echo all of a text that fits but its last character.  This is
\* PrintsArguments for any words, any width of a field, and a word of any number of
\* hexadecimal digits.
THEOREM ArgumentsPrinted == SpecCall => []PrintsArguments
<1>1. JobOK /\ Returned => PrintsArguments
  BY PrintCall
<1> QED BY <1>1, CallsReturn, PTL

-----------------------------------------------------------------------------
\* The files.
USE FdAssumption

-----------------------------------------------------------------------------
\* The first element of a set of naturals.
LEMMA FirstIsLeast ==
  ASSUME NEW S, S \subseteq Nat, S # {}
  PROVE  First(S) \in S
<1>1. PICK x \in S : \A y \in S : x <= y
  BY HasLeast
<1> QED BY <1>1 DEF First

-----------------------------------------------------------------------------
\* The registered devices and file systems; the order of the redirections.
ListsOK ==
    /\ alt_dev_list \in Seq(Device)
    /\ alt_fs_list \in Seq(FileSystem)
    /\ redirects \in Seq(0..2)

\* Only devices are locked, and only after the first open; none at start-up.
DevOnly ==
    /\ \A f \in Fds : "ALT_FD_DEV" \in alt_fd_list[f].flags
                         => alt_fd_list[f].dev \in Device /\ alt_max_fd > 2
    /\ \A f \in Fds : Owner(f) => "ALT_FD_DEV" \in alt_fd_list[f].flags
    /\ ~Running => \A f \in Fds : ~Owner(f)

\* A descriptor that shares a device with its owner is the higher of the two.
LockAbove == \A f, g \in Fds : Owner(f) /\ SameDev(f, g) => f < g

FdInv == TypeOK /\ ListsOK /\ DevOnly /\ LockAbove

\* LockAbove excludes a second owner.
LEMMA InvOneOwner == FdInv => OneOwner
<1> SUFFICES ASSUME FdInv, NEW f \in Fds, NEW g \in Fds, Owner(f), Owner(g), SameDev(f, g)
             PROVE  FALSE
  BY DEF OneOwner
<1>1. f < g /\ g < f
  BY DEF FdInv, LockAbove, SameDev
<1> QED BY <1>1 DEF Fds

LEMMA InvInit == Init => FdInv
<1> SUFFICES ASSUME Init PROVE FdInv
  OBVIOUS
<1> USE DEF Init, FreeFd
<1>1. TypeOK
  BY DEF TypeOK, Fds, Dev, Mode, Flag, Open
<1>2. ListsOK
  BY DEF ListsOK
<1>3. DevOnly /\ LockAbove
  BY DEF DevOnly, LockAbove, Owner, Fds
<1> QED BY <1>1, <1>2, <1>3 DEF FdInv

-----------------------------------------------------------------------------
\* A name leads to a device or file system, or nowhere.
LEMMA LookupType ==
  ASSUME ListsOK, NEW name
  PROVE  Lookup(name) \in Dev \cup {NoDev}
<1>1. ASSUME NEW S, NEW list \in Seq(S), NEW hits, hits \subseteq DOMAIN list, hits # {}
      PROVE  list[First(hits)] \in S
  <2>1. First(hits) \in hits
    BY <1>1, FirstIsLeast
  <2> QED BY <1>1, <2>1
<1>2. alt_find_dev(name) \in Device \cup {NoDev}
  BY <1>1 DEF ListsOK, alt_find_dev, FirstIn
<1>3. alt_find_file(name) \in FileSystem \cup {NoDev}
  BY <1>1 DEF ListsOK, alt_find_file, FirstIn
<1> QED BY <1>2, <1>3 DEF Lookup, Dev

\* What open does: nothing but perhaps move the mark, or it takes one free
\* descriptor, without a lock, for a device that nobody owns.
OpenEffect(o, mode) ==
    /\ o.max \in -1..ALT_MAX_FD - 1 /\ o.max >= alt_max_fd
    /\ \/ o.fd = -1 /\ o.table = alt_fd_list
       \/ /\ o.fd \in Fds /\ o.fd > 2 /\ o.fd <= o.max /\ ~Open(o.fd)
          /\ \E d \in Dev, fl \in SUBSET Flag :
                /\ o.table = [alt_fd_list EXCEPT ![o.fd] = [dev |-> d, mode |-> mode, flags |-> fl]]
                /\ "ALT_FD_EXCL" \notin fl
                /\ "ALT_FD_DEV" \in fl => d \in Device
                /\ \A g \in Fds : Owner(g) => alt_fd_list[g].dev # d

LEMMA OpenedEffect ==
  ASSUME FdInv, NEW name, NEW mode \in Mode, NEW flags \in SUBSET Flag, NEW accepts \in BOOLEAN
  PROVE  OpenEffect(Opened(name, mode, flags, accepts), mode)
<1> DEFINE dev   == Lookup(name)
           free  == {f \in Fds : alt_fd_list[f].dev = NoDev}
           f     == First(free)
           max   == IF f > alt_max_fd THEN f ELSE alt_max_fd
           own   == IF dev \in Device THEN {"ALT_FD_DEV"} ELSE {}
           fl    == (flags \ {"ALT_FD_DEV", "ALT_FD_EXCL"}) \cup own
           entry == [dev |-> dev, mode |-> mode, flags |-> fl]
           taken == [alt_fd_list EXCEPT ![f] = entry]
           o     == Opened(name, mode, flags, accepts)
<1> USE DEF OpenEffect
<1>0. TypeOK /\ ListsOK /\ DevOnly
  BY DEF FdInv
<1>1. CASE dev = NoDev \/ free = {}
  <2>1. o = [fd |-> -1, table |-> alt_fd_list, max |-> alt_max_fd]
    BY <1>1, Zenon DEF Opened
  <2>2. alt_max_fd \in -1..ALT_MAX_FD - 1 /\ alt_max_fd >= alt_max_fd
    BY <1>0, FdAssumption DEF TypeOK
  <2> HIDE DEF o
  <2>3. o.fd = -1 /\ o.table = alt_fd_list /\ o.max = alt_max_fd
    BY <2>1
  <2>4. OpenEffect(o, mode)
    BY <2>2, <2>3
  <2> QED BY <2>4 DEF o
<1>2. CASE dev # NoDev /\ free # {}
  <2>1. f \in free
    BY <1>2, FirstIsLeast DEF Fds
  <2>2. f \in Fds /\ alt_fd_list[f] = FreeFd /\ f > 2 /\ ~Open(f)
    BY <1>0, <2>1 DEF TypeOK, Open, Fds
  <2>3. max \in -1..ALT_MAX_FD - 1 /\ max >= alt_max_fd /\ f <= max
    BY <1>0, <2>2 DEF TypeOK, Fds
  <2>4. fl \subseteq Flag /\ dev \in Dev /\ "ALT_FD_EXCL" \notin fl
        /\ ("ALT_FD_DEV" \in fl <=> dev \in Device)
    BY <1>0, <1>2, LookupType DEF Flag
  <2>5. alt_fd_list = [g \in Fds |-> alt_fd_list[g]]
    BY <1>0 DEF TypeOK
  <2> HIDE DEF f, fl, max, dev, free, o
  <2>6. CASE (dev \in Device /\ alt_file_locked(taken, max, f)) \/ ("open" \in Callbacks[dev] /\ ~accepts)
    <3>1. o = OpenFailed(taken, f, max)
      BY <1>2, <2>6 DEF Opened, o, f, fl, max, dev, free
    <3>2. [taken EXCEPT ![f] = FreeFd] = alt_fd_list
      BY <2>2, <2>5
    <3>3. o.fd = -1 /\ o.table = alt_fd_list /\ o.max = max
      BY <2>2, <3>1, <3>2 DEF OpenFailed, alt_release_fd
    <3>4. OpenEffect(o, mode)
      BY <2>3, <3>3
    <3> QED BY <3>4 DEF o
  <2>7. CASE ~((dev \in Device /\ alt_file_locked(taken, max, f)) \/ ("open" \in Callbacks[dev] /\ ~accepts))
    <3>1. o = [fd |-> f, table |-> taken, max |-> max]
      BY <1>2, <2>7 DEF Opened, o, f, fl, max, dev, free
    <3>2. ASSUME NEW g \in Fds, Owner(g), alt_fd_list[g].dev = dev PROVE FALSE
      <4>1. dev \in Device /\ g # f /\ g <= max
        BY <1>0, <2>2, <2>3, <3>2 DEF DevOnly, TypeOK, Open, Owner, FreeFd, Fds
      <4>2. taken[g] = alt_fd_list[g] /\ taken[f].dev = dev
        BY <2>2, <2>5, <4>1
      <4>3. alt_file_locked(taken, max, f)
        BY <3>2, <4>1, <4>2 DEF alt_file_locked, Owner
      <4> QED BY <2>7, <4>1, <4>3
    <3>3. /\ o.table = [alt_fd_list EXCEPT ![o.fd] = [dev |-> dev, mode |-> mode, flags |-> fl]]
          /\ o.fd = f /\ o.max = max
      BY <3>1
    <3>4. dev \in Dev /\ fl \in SUBSET Flag
      BY <2>4
    <3> HIDE DEF taken, entry
    <3>5. o.fd \in Fds /\ o.fd > 2 /\ o.fd <= o.max /\ ~Open(o.fd)
          /\ o.max \in -1..ALT_MAX_FD - 1 /\ o.max >= alt_max_fd
      BY <2>2, <2>3, <3>3
    <3>6. OpenEffect(o, mode)
      BY <2>4, <3>2, <3>3, <3>4, <3>5
    <3> QED BY <3>6 DEF o
  <2> QED BY <2>6, <2>7
<1> QED BY <1>1, <1>2

-----------------------------------------------------------------------------
\* While a descriptor keeps its device to itself, no other is opened on it.
Guarded ==
    \A d \in Dev :
        (\E f \in OpenOn(d) : f \in OpenOn(d)' /\ Owner(f) /\ Owner(f)')
        => OpenOn(d)' \subseteq OpenOn(d)

\* Who becomes the owner of a device shares it with the highest descriptor only.
Overlook ==
    \A f, g \in Fds : ~Owner(f) /\ Owner(f)' /\ SameDev(f, g) => g = alt_max_fd

\* Steps that leave the table alone.
LEMMA SameTable ==
  ASSUME FdInv, ListsOK', alt_fd_list' = alt_fd_list, redirects' = redirects,
         alt_max_fd' \in -1..ALT_MAX_FD - 1, alt_max_fd' >= alt_max_fd
  PROVE  FdInv' /\ Guarded /\ Overlook
<1>1. TypeOK'
  BY DEF FdInv, TypeOK, Open, Fds
<1>2. DevOnly' /\ LockAbove'
  BY DEF FdInv, TypeOK, DevOnly, LockAbove, Owner, SameDev, Running
<1>3. Guarded /\ Overlook
  BY DEF Guarded, OpenOn, Overlook, Owner
<1> QED BY <1>1, <1>2, <1>3 DEF FdInv

\* Steps that change the flags of one open descriptor and lock nothing.
LEMMA SetFlags ==
  ASSUME FdInv, NEW f \in Fds, Open(f), NEW fl \in SUBSET Flag,
         fl \subseteq alt_fd_list[f].flags \cup {"O_NONBLOCK"},
         "ALT_FD_DEV" \in alt_fd_list[f].flags => "ALT_FD_DEV" \in fl,
         alt_fd_list' = [alt_fd_list EXCEPT ![f].flags = fl],
         UNCHANGED <<alt_max_fd, alt_dev_list, alt_fs_list, redirects>>
  PROVE  FdInv' /\ Guarded /\ Overlook
<1>0. TypeOK /\ ListsOK /\ DevOnly /\ LockAbove
  BY DEF FdInv
<1>1. \A g \in Fds : /\ alt_fd_list'[g].dev = alt_fd_list[g].dev
                     /\ g # f => alt_fd_list'[g] = alt_fd_list[g]
                     /\ Owner(g)' => Owner(g)
                     /\ Open(g)' <=> Open(g)
  BY <1>0 DEF TypeOK, Owner, Open
<1>2. alt_fd_list'[f].flags = fl
  BY <1>0 DEF TypeOK
<1>3. TypeOK'
  BY <1>0, <1>1 DEF TypeOK
<1>4. ListsOK'
  BY <1>0 DEF ListsOK
<1>5. DevOnly'
  BY <1>0, <1>1, <1>2 DEF DevOnly, Running, Owner
<1>6. LockAbove'
  BY <1>0, <1>1 DEF LockAbove, SameDev
<1>7. Guarded /\ Overlook
  BY <1>1 DEF Guarded, OpenOn, Overlook
<1> QED BY <1>3, <1>4, <1>5, <1>6, <1>7 DEF FdInv

\* Steps that put a device nobody owns into one descriptor.
LEMMA TakeFd ==
  ASSUME FdInv, NEW f \in Fds, NEW d \in Dev, NEW mode \in Mode, NEW fl \in SUBSET Flag,
         "ALT_FD_EXCL" \notin fl, "ALT_FD_DEV" \in fl => d \in Device,
         \A g \in Fds : Owner(g) => alt_fd_list[g].dev # d,
         alt_fd_list' = [alt_fd_list EXCEPT ![f] = [dev |-> d, mode |-> mode, flags |-> fl]],
         alt_max_fd' \in -1..ALT_MAX_FD - 1, alt_max_fd' >= alt_max_fd, alt_max_fd' > 2,
         f <= 2 \/ f <= alt_max_fd',
         UNCHANGED <<alt_dev_list, alt_fs_list>>,
         redirects' \in Seq(0..2), redirects' = redirects \/ ~Running
  PROVE  FdInv' /\ Guarded /\ Overlook
<1>0. TypeOK /\ ListsOK /\ DevOnly /\ LockAbove
  BY DEF FdInv
<1>1. /\ alt_fd_list'[f] = [dev |-> d, mode |-> mode, flags |-> fl]
      /\ \A g \in Fds : g # f => alt_fd_list'[g] = alt_fd_list[g]
  BY <1>0 DEF TypeOK
<1>2. \A g \in Fds : Owner(g)' => Owner(g) /\ g # f
  BY <1>1 DEF Owner
<1>3. TypeOK'
  <2>1. alt_fd_list' \in [Fds -> [dev : Dev \cup {NoDev}, mode : Mode, flags : SUBSET Flag]]
    BY <1>0 DEF TypeOK
  <2>2. \A g \in Fds : Open(g)' => g = f \/ Open(g)
    BY <1>1 DEF Open
  <2>3. \A g \in Fds : ~Open(g)' => g # f /\ ~Open(g)
    BY <1>1 DEF Open
  <2>4. \A g \in Fds : Open(g)' => g <= 2 \/ g <= alt_max_fd'
    BY <1>0, <2>2 DEF TypeOK, Fds
  <2>5. \A g \in Fds : g <= 2 => Open(g)'
    BY <1>0, <2>3 DEF TypeOK
  <2>6. \A g \in Fds : ~Open(g)' => alt_fd_list'[g] = FreeFd
    BY <1>0, <1>1, <2>3 DEF TypeOK
  <2> QED BY <2>1, <2>4, <2>5, <2>6 DEF TypeOK
<1>4. ListsOK'
  BY <1>0 DEF ListsOK
<1>5. DevOnly'
  BY <1>0, <1>1, <1>2 DEF DevOnly, Running, Owner
<1>6. LockAbove'
  BY <1>0, <1>1, <1>2 DEF LockAbove, SameDev
<1>7. Guarded
  <2> SUFFICES ASSUME NEW e \in Dev, NEW g \in OpenOn(e), g \in OpenOn(e)', Owner(g), Owner(g)'
               PROVE  OpenOn(e)' \subseteq OpenOn(e)
    BY DEF Guarded
  <2>1. e # d
    BY DEF OpenOn
  <2> QED BY <1>1, <2>1 DEF OpenOn
<1>8. Overlook
  BY <1>2 DEF Overlook
<1> QED BY <1>3, <1>4, <1>5, <1>6, <1>7, <1>8 DEF FdInv

-----------------------------------------------------------------------------
\* The start-up code: registrations change no descriptor; a redirection opens
\* a descriptor, copies it to a standard one and gives it back.
LEMMA StepBoot ==
  ASSUME FdInv, \/ \E d \in Device : alt_dev_reg(d)
                \/ \E s \in FileSystem : alt_fs_reg(s)
                \/ alt_io_redirect
  PROVE  FdInv' /\ Guarded /\ Overlook
<1>0. TypeOK /\ ListsOK
  BY DEF FdInv
<1>1. ASSUME NEW d \in Device, alt_dev_reg(d) PROVE FdInv' /\ Guarded /\ Overlook
  <2>1. ListsOK'
    BY <1>0, <1>1 DEF alt_dev_reg, ListsOK
  <2> QED BY <1>0, <1>1, <2>1, SameTable DEF alt_dev_reg, TypeOK
<1>2. ASSUME NEW s \in FileSystem, alt_fs_reg(s) PROVE FdInv' /\ Guarded /\ Overlook
  <2>1. ListsOK'
    BY <1>0, <1>2 DEF alt_fs_reg, ListsOK
  <2> QED BY <1>0, <1>2, <2>1, SameTable DEF alt_fs_reg, TypeOK
<1>3. CASE alt_io_redirect
  <2>1. PICK name \in Name, accepts \in BOOLEAN, mode \in Mode :
            alt_open_fd(Head(redirects), name, mode, accepts)
    BY <1>3 DEF alt_io_redirect, Mode
  <2> DEFINE std == Head(redirects)
             o   == Opened(name, mode, {}, accepts)
  <2>2. std \in Fds /\ std <= 2 /\ ~Running /\ redirects' \in Seq(0..2)
    BY <1>0, <1>3 DEF ListsOK, Running, Fds, alt_io_redirect
  <2>3. UNCHANGED <<alt_dev_list, alt_fs_list>> /\ alt_max_fd' = o.max
    BY <1>3, <2>1 DEF alt_io_redirect, alt_open_fd
  <2>4. {} \in SUBSET Flag
    OBVIOUS
  <2>5. alt_fd_list' = IF o.fd = -1 THEN o.table
                       ELSE alt_release_fd([o.table EXCEPT ![std] = o.table[o.fd]], o.fd)
    BY <2>1 DEF alt_open_fd
  <2> HIDE DEF o, std
  <2>6. OpenEffect(o, mode)
    BY <2>4, OpenedEffect DEF o
  <2> USE DEF OpenEffect
  <2>7. CASE o.fd = -1 /\ o.table = alt_fd_list
    <3>1. alt_fd_list' = alt_fd_list
      BY <2>5, <2>7
    <3>2. DevOnly' /\ LockAbove' /\ TypeOK' /\ ListsOK'
      BY <1>0, <2>2, <2>3, <2>6, <3>1
         DEF FdInv, DevOnly, LockAbove, TypeOK, ListsOK, Owner, SameDev, Open, Fds
    <3>3. Guarded /\ Overlook
      BY <3>1 DEF Guarded, OpenOn, Overlook, Owner
    <3> QED BY <3>2, <3>3 DEF FdInv
  <2>8. CASE o.fd # -1
    <3>1. PICK d \in Dev, fl \in SUBSET Flag :
                     /\ o.table = [alt_fd_list EXCEPT ![o.fd] =
                                      [dev |-> d, mode |-> mode, flags |-> fl]]
                     /\ "ALT_FD_EXCL" \notin fl
                     /\ "ALT_FD_DEV" \in fl => d \in Device
                     /\ \A g \in Fds : Owner(g) => alt_fd_list[g].dev # d
      BY <2>6, <2>8
    <3>2. o.fd \in Fds /\ o.fd > 2 /\ o.fd <= o.max /\ alt_fd_list[o.fd] = FreeFd
      BY <1>0, <2>6, <2>8 DEF TypeOK
    <3>3. alt_fd_list' = [alt_fd_list EXCEPT ![std] = [dev |-> d, mode |-> mode, flags |-> fl]]
      <4>1. alt_fd_list = [g \in Fds |-> alt_fd_list[g]]
        BY <1>0 DEF TypeOK
      <4>2. o.table[o.fd] = [dev |-> d, mode |-> mode, flags |-> fl] /\ std # o.fd
        BY <2>2, <3>1, <3>2, <4>1 DEF Fds
      <4>3. alt_fd_list' = [[o.table EXCEPT ![std] = o.table[o.fd]] EXCEPT ![o.fd] = FreeFd]
        BY <2>5, <2>8, <3>2 DEF alt_release_fd
      <4> DEFINE entry == [dev |-> d, mode |-> mode, flags |-> fl]
      <4> HIDE DEF entry
      <4>4. /\ o.table = [alt_fd_list EXCEPT ![o.fd] = entry]
            /\ alt_fd_list' = [[o.table EXCEPT ![std] = entry] EXCEPT ![o.fd] = FreeFd]
        BY <3>1, <4>2, <4>3 DEF entry
      <4>5. alt_fd_list' = [alt_fd_list EXCEPT ![std] = entry]
        BY <2>2, <3>2, <4>1, <4>2, <4>4
      <4> QED BY <4>5 DEF entry
    <3>4. o.max > 2
      BY <2>6, <3>2 DEF Fds
    <3> QED BY <2>2, <2>3, <2>6, <3>1, <3>3, <3>4, TakeFd
  <2> QED BY <2>6, <2>7, <2>8
<1> QED BY <1>1, <1>2, <1>3

\* open and stat.
LEMMA StepOpen ==
  ASSUME FdInv, ALT_OPEN \/ ALT_STAT
  PROVE  FdInv' /\ Guarded /\ Overlook
<1>0. TypeOK /\ ListsOK
  BY DEF FdInv
<1>1. PICK name \in Name, mode \in Mode, flags \in SUBSET Flag, accepts \in BOOLEAN :
          LET o == Opened(name, mode, flags, accepts)
          IN  /\ alt_fd_list' \in {o.table, alt_release_fd(o.table, o.fd)}
              /\ alt_max_fd' = o.max
  <2>1. CASE ALT_OPEN
    BY <2>1 DEF ALT_OPEN
  <2>2. CASE ALT_STAT
    BY <2>2 DEF ALT_STAT, Mode
  <2> QED BY <2>1, <2>2
<1>2. UNCHANGED <<alt_dev_list, alt_fs_list, redirects>>
  BY DEF ALT_OPEN, ALT_STAT, Keep
<1>3. ListsOK'
  BY <1>0, <1>2 DEF ListsOK
<1> DEFINE o == Opened(name, mode, flags, accepts)
<1>4. OpenEffect(o, mode)
  BY <1>1, OpenedEffect
<1>9. alt_fd_list' \in {o.table, alt_release_fd(o.table, o.fd)} /\ alt_max_fd' = o.max
  BY <1>1
<1> HIDE DEF o
<1> USE DEF OpenEffect
<1>5. CASE alt_fd_list' = alt_fd_list
  BY <1>9, <1>2, <1>3, <1>4, <1>5, SameTable
<1>6. CASE o.fd = -1
  BY <1>9, <1>4, <1>5, <1>6 DEF alt_release_fd
<1>7. CASE o.fd # -1 /\ alt_fd_list' = o.table
  <2>1. redirects' \in Seq(0..2) /\ o.max > 2
    BY <1>3, <1>4, <1>7 DEF ListsOK, Fds
  <2> QED BY <1>9, <1>2, <1>4, <1>7, <2>1, TakeFd
<1>8. CASE o.fd # -1 /\ alt_fd_list' = alt_release_fd(o.table, o.fd)
  <2>1. alt_fd_list[o.fd] = FreeFd /\ o.fd > 2
    BY <1>0, <1>4, <1>8 DEF TypeOK
  <2>2. alt_fd_list' = alt_fd_list
    BY <1>0, <1>4, <1>8, <2>1 DEF alt_release_fd, TypeOK
  <2> QED BY <1>5, <2>2
<1> QED BY <1>9, <1>6, <1>7, <1>8

\* close.
LEMMA StepClose ==
  ASSUME FdInv, NEW f \in Fds, Open(f), ALT_CLOSE(f)
  PROVE  FdInv' /\ Guarded /\ Overlook
<1>0. TypeOK /\ ListsOK /\ DevOnly /\ LockAbove
  BY DEF FdInv
<1>1. UNCHANGED <<alt_max_fd, alt_dev_list, alt_fs_list, redirects>>
  BY DEF ALT_CLOSE, Keep
<1>2. ListsOK' /\ alt_max_fd' \in -1..ALT_MAX_FD - 1 /\ alt_max_fd' >= alt_max_fd
  BY <1>0, <1>1 DEF ListsOK, TypeOK
<1>3. CASE f <= 2
  BY <1>1, <1>2, <1>3, SameTable DEF ALT_CLOSE, alt_release_fd, Fds
<1>4. CASE f > 2
  <2>1. /\ alt_fd_list'[f] = FreeFd
        /\ \A g \in Fds : g # f => alt_fd_list'[g] = alt_fd_list[g]
    BY <1>0, <1>4 DEF ALT_CLOSE, alt_release_fd, TypeOK
  <2>2. alt_fd_list' \in [Fds -> [dev : Dev \cup {NoDev}, mode : Mode, flags : SUBSET Flag]]
    BY <1>0, <1>4 DEF ALT_CLOSE, alt_release_fd, TypeOK, FreeFd, Mode
  <2>3. ~Open(f)' /\ ~Owner(f)' /\ alt_fd_list'[f].flags = {} /\ alt_fd_list'[f].dev = NoDev
    BY <2>1 DEF Open, Owner, FreeFd
  <2>4. \A g \in Fds : g # f => (Open(g)' <=> Open(g)) /\ (Owner(g)' <=> Owner(g))
    BY <2>1 DEF Open, Owner
  <2>5. TypeOK'
    BY <1>0, <1>1, <1>4, <2>1, <2>2, <2>3, <2>4 DEF TypeOK, Fds
  <2>6. DevOnly'
    BY <1>0, <1>1, <2>1, <2>3, <2>4 DEF DevOnly, Running
  <2>7. LockAbove'
    <3> SUFFICES ASSUME NEW g \in Fds, NEW h \in Fds, Owner(g)', SameDev(g, h)'
                 PROVE  g < h
      BY DEF LockAbove
    <3>1. g # f /\ Owner(g) /\ alt_fd_list[g].dev \in Device
      BY <1>0, <2>3, <2>4 DEF DevOnly
    <3>2. h # f
      BY <2>1, <2>3, <3>1 DEF SameDev, Dev
    <3> QED BY <1>0, <2>1, <3>1, <3>2 DEF LockAbove, SameDev
  <2>8. Guarded /\ Overlook
    BY <2>1, <2>3, <2>4 DEF Guarded, OpenOn, Overlook
  <2> QED BY <1>2, <2>5, <2>6, <2>7, <2>8 DEF FdInv
<1> QED BY <1>3, <1>4 DEF Fds

\* The lock: a descriptor that the search misses is above the one that locks,
\* and an owner it would collide with is below the mark, hence found.
LEMMA StepLock ==
  ASSUME FdInv, NEW f \in Fds, Open(f), "ALT_FD_DEV" \in alt_fd_list[f].flags, alt_fd_lock(f),
         UNCHANGED <<alt_max_fd, alt_dev_list, alt_fs_list, redirects>>, Running
  PROVE  FdInv' /\ Guarded /\ Overlook
<1>0. TypeOK /\ ListsOK /\ DevOnly /\ LockAbove
  BY DEF FdInv
<1> DEFINE shared == \E i \in Fds : i < alt_max_fd /\ i # f /\ alt_fd_list[i].dev = alt_fd_list[f].dev
<1>1. ListsOK' /\ alt_max_fd' \in -1..ALT_MAX_FD - 1 /\ alt_max_fd' >= alt_max_fd
  BY <1>0 DEF ListsOK, TypeOK
<1>2. CASE shared
  BY <1>1, <1>2, SameTable DEF alt_fd_lock
<1>3. CASE ~shared
  <2>1. alt_fd_list' = [alt_fd_list EXCEPT ![f].flags = @ \cup {"ALT_FD_EXCL"}]
    BY <1>3 DEF alt_fd_lock
  <2>2. /\ alt_fd_list'[f] = [alt_fd_list[f] EXCEPT !.flags = @ \cup {"ALT_FD_EXCL"}]
        /\ \A g \in Fds : g # f => alt_fd_list'[g] = alt_fd_list[g]
        /\ \A g \in Fds : alt_fd_list'[g].dev = alt_fd_list[g].dev
    BY <1>0, <2>1 DEF TypeOK
  <2>3. TypeOK'
    <3>1. alt_fd_list' \in [Fds -> [dev : Dev \cup {NoDev}, mode : Mode, flags : SUBSET Flag]]
      BY <1>0, <2>1 DEF TypeOK, Flag
    <3>2. \A g \in Fds : Open(g)' <=> Open(g)
      BY <2>2 DEF Open
    <3> QED BY <1>0, <2>2, <3>1, <3>2 DEF TypeOK
  <2>4. \A g \in Fds : Owner(g)' <=> g = f \/ Owner(g)
    BY <1>0, <2>2 DEF Owner, TypeOK
  <2>5. alt_fd_list'[f].flags = alt_fd_list[f].flags \cup {"ALT_FD_EXCL"}
    BY <1>0, <2>2 DEF TypeOK
  <2>6. DevOnly'
    BY <1>0, <2>2, <2>4, <2>5 DEF DevOnly, Running, Owner
  <2>7. \A g \in Fds : SameDev(f, g) => g = alt_max_fd /\ f < g
    BY <1>0, <1>3 DEF TypeOK, DevOnly, SameDev, Open, Fds
  <2>8. LockAbove'
    <3> SUFFICES ASSUME NEW g \in Fds, NEW h \in Fds, Owner(g)', SameDev(g, h)'
                 PROVE  g < h
      BY DEF LockAbove
    <3>1. SameDev(g, h)
      BY <2>2 DEF SameDev
    <3>2. CASE g = f
      BY <2>7, <3>1, <3>2
    <3>3. CASE g # f
      BY <1>0, <2>4, <3>1, <3>3 DEF LockAbove
    <3> QED BY <3>2, <3>3
  <2>9. Guarded /\ Overlook
    BY <2>2, <2>4, <2>7 DEF Guarded, OpenOn, Overlook
  <2> QED BY <1>1, <2>3, <2>6, <2>8, <2>9 DEF FdInv
<1> QED BY <1>2, <1>3

\* ioctl, fcntl, the accesses, and every call on a negative descriptor.
LEMMA StepUse ==
  ASSUME FdInv, \/ BadFd
                \/ \E f \in Fds : Running /\ Open(f) /\ (ALT_IOCTL(f) \/ ALT_FCNTL(f) \/ ALT_ACCESS(f))
  PROVE  FdInv' /\ Guarded /\ Overlook
<1>0. TypeOK /\ ListsOK
  BY DEF FdInv
<1>1. UNCHANGED <<alt_max_fd, alt_dev_list, alt_fs_list, redirects>>
  BY DEF BadFd, ALT_IOCTL, ALT_FCNTL, ALT_ACCESS, Keep
<1>2. ListsOK' /\ alt_max_fd' \in -1..ALT_MAX_FD - 1 /\ alt_max_fd' >= alt_max_fd
  BY <1>0, <1>1 DEF ListsOK, TypeOK
<1>3. CASE alt_fd_list' = alt_fd_list
  BY <1>1, <1>2, <1>3, SameTable
<1>4. ASSUME NEW f \in Fds, Running, Open(f), ALT_IOCTL(f) PROVE FdInv' /\ Guarded /\ Overlook
  <2>1. CASE "ALT_FD_DEV" \in alt_fd_list[f].flags /\ alt_fd_lock(f)
    BY <1>1, <1>4, <2>1, StepLock
  <2>2. CASE alt_fd_unlock(f)
    <3> DEFINE fl == alt_fd_list[f].flags \ {"ALT_FD_EXCL"}
    <3>1. fl \in SUBSET Flag /\ alt_fd_list' = [alt_fd_list EXCEPT ![f].flags = fl]
      BY <1>0, <2>2 DEF alt_fd_unlock, TypeOK
    <3> QED BY <1>1, <1>4, <3>1, SetFlags
  <2> QED BY <1>3, <1>4, <2>1, <2>2 DEF ALT_IOCTL
<1>5. ASSUME NEW f \in Fds, Running, Open(f), ALT_FCNTL(f) PROVE FdInv' /\ Guarded /\ Overlook
  <2>1. PICK flags \in SetflArgs :
            alt_fd_list' = [alt_fd_list EXCEPT ![f].flags =
                               (@ \ {"O_NONBLOCK"}) \cup (flags \cap {"O_NONBLOCK"})]
    BY <1>5 DEF ALT_FCNTL
  <2> DEFINE fl == (alt_fd_list[f].flags \ {"O_NONBLOCK"}) \cup (flags \cap {"O_NONBLOCK"})
  <2>2. fl \in SUBSET Flag /\ alt_fd_list' = [alt_fd_list EXCEPT ![f].flags = fl]
    BY <1>0, <2>1 DEF TypeOK, Flag
  <2>3. fl \subseteq alt_fd_list[f].flags \cup {"O_NONBLOCK"}
    OBVIOUS
  <2>4. "ALT_FD_DEV" \in alt_fd_list[f].flags => "ALT_FD_DEV" \in fl
    OBVIOUS
  <2> HIDE DEF fl
  <2> QED BY <1>1, <1>5, <2>2, <2>3, <2>4, SetFlags
<1> QED BY <1>3, <1>4, <1>5 DEF BadFd, ALT_ACCESS

LEMMA InvStep == FdInv /\ [Next]_vars => FdInv' /\ ((Guarded /\ Overlook) \/ UNCHANGED vars)
<1> SUFFICES ASSUME FdInv, [Next]_vars PROVE FdInv' /\ ((Guarded /\ Overlook) \/ UNCHANGED vars)
  OBVIOUS
<1>1. CASE UNCHANGED vars
  BY <1>1 DEF vars, FdInv, TypeOK, ListsOK, DevOnly, LockAbove, Owner, Open, SameDev, Running
<1>2. CASE Next
  BY <1>2, StepBoot, StepOpen, StepClose, StepUse DEF Next
<1> QED BY <1>1, <1>2

-----------------------------------------------------------------------------
\* The table is well formed in every reachable state (alt_fd_list, alt_max_fd).
THEOREM TypeCorrect == Spec => []TypeOK
<1>1. FdInv => TypeOK
  BY DEF FdInv
<1> QED BY <1>1, InvInit, InvStep, PTL DEF Spec

\* Whatever is opened, locked, closed and redirected, no device has two owners.
THEOREM MutualExclusion == Spec => []OneOwner
  BY InvOneOwner, InvInit, InvStep, PTL DEF Spec

\* No call opens a device that is owned before and after it.
THEOREM LockedOut == Spec => NoOpenWhileLocked
<1>1. FdInv /\ [Next]_vars => [Guarded]_vars
  BY InvStep
<1>2. [Guarded]_vars <=> [\A d \in Dev :
          (\E f \in OpenOn(d) : f \in OpenOn(d)' /\ Owner(f) /\ Owner(f)')
          => OpenOn(d)' \subseteq OpenOn(d)]_vars
  BY DEF Guarded
<1> QED BY <1>1, <1>2, InvInit, InvStep, PTL DEF Spec, NoOpenWhileLocked

-----------------------------------------------------------------------------
\* Until the program runs no call has been made.
BootInv == FdInv /\ (~Running => result = [call |-> "boot", failed |-> FALSE])

LEMMA BootInit == Init => BootInv
  BY InvInit DEF Init, BootInv

LEMMA BootStep == BootInv /\ [Next]_vars => BootInv'
<1> SUFFICES ASSUME BootInv, [Next]_vars, redirects' # <<>>
             PROVE  UNCHANGED result /\ ~Running
  BY InvStep DEF BootInv, Running
<1>0. ListsOK
  BY DEF BootInv, FdInv
<1>1. CASE Next
  BY <1>0, <1>1 DEF Next, alt_dev_reg, alt_fs_reg, alt_io_redirect, ALT_OPEN, ALT_STAT, BadFd,
     ALT_CLOSE, ALT_IOCTL, ALT_FCNTL, ALT_ACCESS, Keep, Running, ListsOK
<1>2. CASE UNCHANGED vars
  BY <1>2 DEF vars, Running
<1> QED BY <1>1, <1>2

\* What a failed call and stat may do to the descriptors.
Undone ==
    (result'.failed \/ result'.call = "stat") /\ result'.call # "close" => alt_fd_list' = alt_fd_list

LEMMA OpenUndone ==
  ASSUME BootInv, ALT_OPEN \/ ALT_STAT
  PROVE  Undone
<1>0. FdInv /\ TypeOK
  BY DEF BootInv, FdInv
<1>1. CASE ALT_OPEN
  <2>1. PICK name \in Name, args \in OpenArgs, accepts \in BOOLEAN :
          LET o == Opened(name, args.mode, args.flags, accepts)
          IN  /\ alt_fd_list' = o.table
              /\ Done("open", o.fd = -1)
    BY <1>1 DEF ALT_OPEN
  <2> DEFINE o == Opened(name, args.mode, args.flags, accepts)
  <2>2. OpenEffect(o, args.mode)
    BY <1>0, OpenedEffect
  <2>3. alt_fd_list' = o.table /\ result'.call = "open" /\ (result'.failed <=> o.fd = -1)
    BY <2>1 DEF Done
  <2> HIDE DEF o
  <2> QED BY <2>2, <2>3 DEF OpenEffect, Undone, Fds
<1>2. CASE ALT_STAT
  <2>1. PICK name \in Name, accepts \in BOOLEAN :
          alt_fd_list' = alt_release_fd(Opened(name, "O_RDONLY", {}, accepts).table,
                                        Opened(name, "O_RDONLY", {}, accepts).fd)
    BY <1>2 DEF ALT_STAT
  <2> DEFINE o == Opened(name, "O_RDONLY", {}, accepts)
  <2>2. OpenEffect(o, "O_RDONLY")
    BY <1>0, OpenedEffect DEF Mode
  <2>3. alt_fd_list' = alt_release_fd(o.table, o.fd)
    BY <2>1
  <2> HIDE DEF o
  <2>4. CASE o.fd = -1 /\ o.table = alt_fd_list
    BY <2>3, <2>4 DEF alt_release_fd, Undone
  <2>5. CASE o.fd \in Fds /\ o.fd > 2 /\ ~Open(o.fd)
             /\ \E entry : o.table = [alt_fd_list EXCEPT ![o.fd] = entry]
    <3>1. alt_fd_list[o.fd] = FreeFd
      BY <1>0, <2>5 DEF TypeOK
    <3>2. alt_fd_list' = [o.table EXCEPT ![o.fd] = FreeFd]
      BY <2>3, <2>5 DEF alt_release_fd
    <3>3. alt_fd_list' = alt_fd_list
      BY <1>0, <2>5, <3>1, <3>2 DEF TypeOK
    <3> QED BY <3>3 DEF Undone
  <2> QED BY <2>2, <2>4, <2>5 DEF OpenEffect
<1> QED BY <1>1, <1>2

\* No call that fails, and no stat, changes the table; close is the exception.
THEOREM FailedUndone == Spec => FailureUndone
<1>1. BootInv /\ [Next]_vars => [Undone]_vars
  <2> SUFFICES ASSUME BootInv, Next PROVE Undone
    OBVIOUS
  <2>1. ASSUME alt_fd_list' = alt_fd_list PROVE Undone
    BY <2>1 DEF Undone
  <2>2. ASSUME NEW d \in Device, alt_dev_reg(d) PROVE Undone
    BY <2>1, <2>2 DEF alt_dev_reg
  <2>3. ASSUME NEW s \in FileSystem, alt_fs_reg(s) PROVE Undone
    BY <2>1, <2>3 DEF alt_fs_reg
  <2>4. CASE alt_io_redirect
    BY <2>4 DEF alt_io_redirect, BootInv, Running, Undone
  <2>5. CASE BadFd
    BY <2>1, <2>5 DEF BadFd
  <2>6. ASSUME NEW f \in Fds, ALT_CLOSE(f) PROVE Undone
    BY <2>6 DEF ALT_CLOSE, Done, Undone
  <2>7. ASSUME NEW f \in Fds, ALT_IOCTL(f) PROVE Undone
    <3>1. CASE alt_fd_lock(f)
      BY <2>1, <3>1 DEF alt_fd_lock, Done, Undone
    <3>2. CASE alt_fd_unlock(f)
      BY <3>2 DEF alt_fd_unlock, Done, Undone
    <3> QED BY <2>1, <2>7, <3>1, <3>2 DEF ALT_IOCTL
  <2>8. ASSUME NEW f \in Fds, ALT_FCNTL(f) PROVE Undone
    BY <2>8 DEF ALT_FCNTL, Done, Undone
  <2>9. ASSUME NEW f \in Fds, ALT_ACCESS(f) PROVE Undone
    BY <2>1, <2>9 DEF ALT_ACCESS
  <2> QED BY <2>2, <2>3, <2>4, <2>5, <2>6, <2>7, <2>8, <2>9, OpenUndone DEF Next
<1>2. [Undone]_vars <=> [(result'.failed \/ result'.call = "stat") /\ result'.call # "close"
                         => alt_fd_list' = alt_fd_list]_vars
  BY DEF Undone
<1> QED BY <1>1, <1>2, BootInit, BootStep, PTL DEF Spec, FailureUndone

\* A lock is granted past another descriptor only if that is the highest one.
THEOREM OverlooksHighest == Spec => LockOverlooksHighest
<1>1. FdInv /\ [Next]_vars => [Overlook]_vars
  BY InvStep
<1>2. [Overlook]_vars <=>
        [\A f, g \in Fds : ~Owner(f) /\ Owner(f)' /\ SameDev(f, g) => g = alt_max_fd]_vars
  BY DEF Overlook
<1> QED BY <1>1, <1>2, InvInit, InvStep, PTL DEF Spec, LockOverlooksHighest
===============================================================================
