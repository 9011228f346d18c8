------------------------------- MODULE Sha256C -------------------------------
(***************************************************************************)
(* src/Cpp_imp/Sha256C.cpp: the software reference, main() cut at its      *)
(* stages and at the iterations of its two long loops.  The constants are  *)
(* those of HashCompPkg; the arithmetic is not: an unsigned long has       *)
(* Native bits, 64 or 32 by platform, and the program relies on & masks to *)
(* keep 32-bit values in it.  An unsigned long is the set of its '1' bits. *)
(*                                                                         *)
(* The program hashes one literal; the model hashes any message of the     *)
(* constant Messages, because the stages are written for any input.size(). *)
(***************************************************************************)
EXTENDS SHA256

CONSTANTS
  Natives,      \* the widths of an unsigned long: 64 (LP64) or 32
  Messages      \* sequences of bytes, each the set of its '1' bits

ASSUME NativeAssumption == WordBits = 32 /\ Natives \subseteq {32, 64}

ASSUME MessagesAssumption == Messages \subseteq Seq(SUBSET (0 .. 7))

VARIABLES
  Native,       \* bits of an unsigned long on the platform it runs on
  pc,           \* the stage to come
  message,      \* input
  block,        \* the vector of bytes
  W,            \* the schedule, indexed from 0
  i,            \* the loop variable of the stage
  regs,         \* a..h
  H,
  printed       \* the hexadecimal digits written by the last loop

vars == <<Native, pc, message, block, W, i, regs, H, printed>>

Long == INSTANCE Words WITH WordBits <- Native

\* The operators of C on unsigned long, and the mask & 0xFFFFFFFF.
Sum(x, y)   == Long!++(x, y)
Shl(x, n)   == {b + n : b \in x} \cap Long!Bit
Shr(x, n)   == {b - n : b \in x} \cap Long!Bit
Mask(x)     == x \cap 0 .. 31

rotright(num, shift) == Shr(num, shift) \cup Shl(num, 32 - shift)
shfright(num, shift) == Shr(num, shift)

Sig0(X) == Long!Xor(Long!Xor(rotright(X, 7), rotright(X, 18)), shfright(X, 3))
Sig1(X) == Long!Xor(Long!Xor(rotright(X, 17), rotright(X, 19)), shfright(X, 10))
Ep0(x)  == Long!Xor(Long!Xor(rotright(x, 2), rotright(x, 13)), rotright(x, 22))
Ep1(x)  == Long!Xor(Long!Xor(rotright(x, 6), rotright(x, 11)), rotright(x, 25))
CMaj(X, Y, Z) == Long!Xor(Long!Xor(X \cap Y, X \cap Z), Y \cap Z)
CCh(X, Y, Z)  == Long!Xor(X \cap Y, Long!Not(X) \cap Z)

Init ==
  /\ Native \in Natives
  /\ pc = "pad"
  /\ message \in Messages
  /\ block = <<>>
  /\ W = <<>>
  /\ i = 0
  /\ regs = InitRegs
  /\ H = InitRegs
  /\ printed = <<>>

\* Division in C truncates towards zero.
Quot(x, y) == IF x < 0 THEN -((-x) \div y) ELSE x \div y

\* The length of the message in bits, of which the model keeps the lower 30.
length == 8 * Len(message)
lengthBits == {n \in 0 .. 29 : (length \div 2^n) % 2 = 1}

\* Byte n of the bitset<64> of the length, from the left.
lengthByte(n) == {j \in 0 .. 7 : 8 * (7 - n) + j \in lengthBits}

zeroBytes == Quot(447 - length - 7, 8)

Pad ==
  /\ pc = "pad"
  /\ block' = message \o << {7} >>
                      \o [n \in 1 .. IF zeroBytes > 0 THEN zeroBytes ELSE 0 |-> {}]
                      \o [n \in 1 .. 8 |-> lengthByte(n - 1)]
  /\ pc' = "resize"
  /\ UNCHANGED <<Native, message, W, i, regs, H, printed>>

\* Fault: the first byte becomes the lowest.
littleEndian(t) ==
  UNION {Shl(block[4 * t + n + 1], 8 * n) : n \in 0 .. 3}

\* W_temp[t], from the bytes 4t to 4t + 3 of the block.
bigEndian(t) ==
  UNION {Shl(block[4 * t + n + 1], 8 * (3 - n)) : n \in 0 .. 3}

Resize ==
  /\ pc = "resize"
  /\ W' = [t \in 0 .. 15 |-> Mask(bigEndian(t))]
  /\ i' = 16
  /\ pc' = "schedule"
  /\ UNCHANGED <<Native, message, block, regs, H, printed>>

newWord == Mask(Sum(Sum(Sum(Sig1(W[i - 2]), W[i - 7]), Sig0(W[i - 15])), W[i - 16]))

ScheduleWord ==
  /\ pc = "schedule"
  /\ W' = [t \in 0 .. i |-> IF t < i THEN W[t] ELSE newWord]
  /\ IF i < 63 THEN i' = i + 1 /\ UNCHANGED pc
               ELSE i' = 0 /\ pc' = "compress"
  /\ UNCHANGED <<Native, message, block, regs, H, printed>>

\* T1 and T2 are not masked; a and e are.
T1 == Sum(Sum(Sum(Sum(regs.h, Ep1(regs.e)), CCh(regs.e, regs.f, regs.g)), constants[i]), W[i])
T2 == Sum(Ep0(regs.a), CMaj(regs.a, regs.b, regs.c))

newE == Mask(Sum(regs.d, T1))

Compress ==
  /\ pc = "compress"
  /\ regs' = [h |-> regs.g, g |-> regs.f, f |-> regs.e, e |-> newE,
              d |-> regs.c, c |-> regs.b, b |-> regs.a, a |-> Mask(Sum(T1, T2))]
  /\ i' = i + 1
  /\ pc' = IF i < 63 THEN "compress" ELSE "add"
  /\ UNCHANGED <<Native, message, block, W, H, printed>>

AddH ==
  /\ pc = "add"
  /\ H' = [r \in DOMAIN H |-> Mask(Sum(H[r], regs[r]))]
  /\ pc' = "print"
  /\ UNCHANGED <<Native, message, block, W, i, regs, printed>>

\* The n lowest hexadecimal digits of x, the most significant first.
Hexits(x, n) == [d \in 1 .. n |-> {j \in 0 .. 3 : 4 * (n - d) + j \in x}]

\* Fault: the number is filled to eight digits.
hex_filled(x) == Hexits(x, 8)

\* std::hex writes a number without leading zeros, and zero as one digit.
hex(x) ==
  Hexits(x, CHOOSE n \in 1 .. Native \div 4 :
              /\ \A b \in x : b < 4 * n
              /\ n = 1 \/ \E b \in x : b >= 4 * (n - 1))

Write ==
  /\ pc = "print"
  /\ printed' = hex(H.a) \o hex(H.b) \o hex(H.c) \o hex(H.d)
             \o hex(H.e) \o hex(H.f) \o hex(H.g) \o hex(H.h)
  /\ pc' = "done"
  /\ UNCHANGED <<Native, message, block, W, i, regs, H>>

Next == Pad \/ Resize \/ ScheduleWord \/ Compress \/ AddH \/ Write

Spec == Init /\ [][Next]_vars

-----------------------------------------------------------------------------
\* The block SHA-256 pads a message of at most 55 bytes to: byte k of it (the
\* length needs no more than the last two), and its sixteen words.
PaddedByte(m, k) ==
  CASE k < Len(m)            -> m[k + 1]
    [] k = Len(m)            -> {7}
    [] k > Len(m) /\ k < 62  -> {}
    [] k > 61                -> {b \in 0 .. 7 : ((8 * Len(m)) \div 2^(8 * (63 - k) + b)) % 2 = 1}

PaddedWords(m) ==
  [t \in 0 .. 15 |-> UNION {{8 * (3 - j) + b : b \in PaddedByte(m, 4 * t + j)} : j \in 0 .. 3}]

\* On either width of unsigned long, and although rotright shifts bits beyond
\* bit 31 and T1 and T2 are not masked, the software computes the SHA-256
\* digest of every message of at most 55 bytes; a longer message still fills
\* the 64 bytes that are read.
HashesMessage ==
  /\ pc # "pad" => Len(block) >= 64
  /\ pc \in {"print", "done"} /\ Len(message) <= 55 =>
        /\ IsSchedule(W, PaddedWords(message), 64)
        /\ H = AddInit(RoundsOf(W, 64)[64])

\* The zeros that the eight digits of x begin with; the last digit is printed anyway.
LeadingZeros(x) == 8 - CHOOSE n \in 1 .. 8 :
                         /\ \A b \in x : b < 4 * n
                         /\ n = 1 \/ \E b \in x : b >= 4 * (n - 1)

\* The printed text is the digest, 64 digits long, exactly when no word of it
\* begins with a zero digit; it is shorter by every such zero otherwise.
PrintsDigits ==
  pc = "done" =>
    LET zeros == LeadingZeros(H.a) + LeadingZeros(H.b) + LeadingZeros(H.c) + LeadingZeros(H.d)
               + LeadingZeros(H.e) + LeadingZeros(H.f) + LeadingZeros(H.g) + LeadingZeros(H.h)
    IN  /\ Len(printed) = 64 - zeros
        /\ zeros = 0 =>
             printed = Hexits(H.a, 8) \o Hexits(H.b, 8) \o Hexits(H.c, 8) \o Hexits(H.d, 8)
                    \o Hexits(H.e, 8) \o Hexits(H.f, 8) \o Hexits(H.g, 8) \o Hexits(H.h, 8)
==============================================================================
