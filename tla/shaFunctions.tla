----------------------------- MODULE shaFunctions -----------------------------
(* src/BlockDecomp/shaFunctions.vhd: the two functions of the schedule.      *)
EXTENDS Words

o0(x) == Xor(Xor(rotate_right(x, 7), rotate_right(x, 18)), shift_right(x, 3))
o1(x) == Xor(Xor(rotate_right(x, 17), rotate_right(x, 19)), shift_right(x, 10))
===============================================================================
