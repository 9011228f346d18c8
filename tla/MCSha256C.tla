------------------------------ MODULE MCSha256C ------------------------------
(* The software reference on the literal it hashes, on the other message of  *)
(* the benches, and on lengths around the end of the block.                  *)
EXTENDS Sha256C, KnownAnswers

\* The n-bit bytes of the schedule s, as the message they were padded from.
BytesOf(s, n) ==
  [m \in 1 .. n |-> LET w == s[(m - 1) \div 4 + 1]
                        q == 8 * (3 - ((m - 1) % 4))
                    IN  {b \in 0 .. 7 : b + q \in w}]

TeamGoFlexText == BytesOf(TeamGoFlex, 10)
abcdText       == BytesOf(abcd, 4)

KAMessages ==
  {TeamGoFlexText, abcdText} \cup {[m \in 1 .. n |-> {0, 5, 6}] : n \in {0, 1, 3, 55, 56, 64}}

\* The reference itself agrees with the literals of the hardware benches: their
\* schedules (HashCompTB.vhd:71-134, tb_deComp.vhd:78-141) and the digest of the
\* literal that the program hashes (HashCompTB.vhd:151).
ASSUME ReferenceAssumption ==
  LET words(s) == [t \in 0 .. 63 |-> s[t + 1]]
  IN  /\ IsSchedule(words(TeamGoFlex), PaddedWords(TeamGoFlexText), 64)
      /\ IsSchedule(words(abcd), PaddedWords(abcdText), 64)
      /\ AddInit(RoundsOf(words(TeamGoFlex), 64)[64]) = TeamGoFlexDigest
==============================================================================
