------------------------------ MODULE MCHashComp ------------------------------
(* Blocks that differ in their first or in their last word alone.            *)
EXTENDS HashComp

B0 == [t \in 0 .. Rounds - 1 |-> Hex(0, 1)]
B1 == [B0 EXCEPT ![0] = Hex(0, 2)]
B2 == [B0 EXCEPT ![Rounds - 1] = Hex(0, 0)]

MCBlocks == {B0, B1, B2}
===============================================================================
