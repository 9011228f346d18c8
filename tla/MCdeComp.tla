------------------------------- MODULE MCdeComp -------------------------------
(* The decomposition at full size, 32 bits and 64 words, on the two blocks   *)
(* whose schedules the repository lists.                                     *)
EXTENDS deComp, KnownAnswers, TLC

\* The block whose words are the first sixteen of s.
BlockOf(s) == UNION {{(15 - t) * WordBits + i : i \in s[t + 1]} : t \in 0 .. 15}

KABlocks == {BlockOf(TeamGoFlex), BlockOf(abcd)}
===============================================================================
