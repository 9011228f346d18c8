------------------------------ MODULE MCpadding ------------------------------
(* The padding and its bench, with every string and every length of a few    *)
(* bits.                                                                     *)
EXTENDS padding_tb, TLC

MCStrings == SUBSET (0 .. StrBits - 1)
MCLengths == SUBSET (0 .. LenBits - 1)
==============================================================================
