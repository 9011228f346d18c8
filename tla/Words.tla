-------------------------------- MODULE Words --------------------------------
(***************************************************************************)
(* Machine words and the operators of ieee.numeric_std that the hardware   *)
(* description applies to them.  A word is the set of the positions of its *)
(* bits that are '1' (bit 0 is the least significant), so a word has       *)
(* exactly its width, addition wraps, and no operator depends on the width *)
(* being 32: the checks use words of a few bits where the values do not    *)
(* matter and words of 32 bits where they do.                              *)
(***************************************************************************)
EXTENDS Integers

CONSTANT WordBits       \* width of a word: 32 in the source

ASSUME WordBitsAssumption == WordBits \in Nat \ {0}

Bit  == 0 .. WordBits - 1
Word == SUBSET Bit

Xor(x, y) == (x \ y) \cup (y \ x)
And(x, y) == x \cap y
Not(x)    == Bit \ x

(***************************************************************************)
(* numeric_std takes the count of a rotation modulo the width and shifts   *)
(* in zeros.                                                               *)
(***************************************************************************)
rotate_right(x, n) == {i \in Bit : (i + n) % WordBits \in x}
shift_right(x, n)  == {i \in Bit : i + n \in x}

(***************************************************************************)
(* Addition modulo 2^WordBits.  A carry enters bit i when some lower bit j *)
(* generates one and every bit between the two propagates it.  The bound   *)
(* variables hold the operands, for TLC may evaluate the argument of an    *)
(* operator once for every bit.                                            *)
(***************************************************************************)
sum(x, y) ==
  LET Carry(i) == \E j \in 0 .. i - 1 :
                     /\ j \in x /\ j \in y
                     /\ \A m \in j + 1 .. i - 1 : m \in x \/ m \in y
  IN  {i \in Bit : ((i \in x) # (i \in y)) # Carry(i)}

x ++ y == UNION {sum(a, b) : a \in {x}, b \in {y}}

(***************************************************************************)
(* The hexadecimal literal whose upper and lower 16 bits are hi and lo,    *)
(* cut to the width of a word.                                             *)
(***************************************************************************)
Hex(hi, lo) ==
  {i \in Bit : IF i < 16 THEN (lo \div 2^i) % 2 = 1
                         ELSE (hi \div 2^(i - 16)) % 2 = 1}
==============================================================================
