------------------------------ MODULE MCHashCompTB ------------------------------
(* The bench at full size, 32 bits and 64 rounds, on the two blocks whose    *)
(* words the repository lists.                                               *)
EXTENDS HashCompTB, KnownAnswers

Schedule(s) == [t \in 0 .. 63 |-> s[t + 1]]

KABlocks == {Schedule(TeamGoFlex), Schedule(abcd)}

\* The last assertion of HashCompTB.vhd as it stands: the engine's digest of
\* "TeamGoFlex" is the literal of line 151.
KnownDigest ==
  pc = "check" /\ bus = Schedule(TeamGoFlex) => output = TeamGoFlexDigest
===============================================================================
