----------------------------- MODULE HashCompPkg -----------------------------
(***************************************************************************)
(* src/HashComp/HashCompPkg.vhd: the initial register values, the round    *)
(* constants and the six functions of the compression.                     *)
(***************************************************************************)
EXTENDS Words, Sequences

INIT_A == Hex(\h6a09, \he667)
INIT_B == Hex(\hbb67, \hae85)
INIT_C == Hex(\h3c6e, \hf372)
INIT_D == Hex(\ha54f, \hf53a)
INIT_E == Hex(\h510e, \h527f)
INIT_F == Hex(\h9b05, \h688c)
INIT_G == Hex(\h1f83, \hd9ab)
INIT_H == Hex(\h5be0, \hcd19)

\* Constant_k is indexed from 0, a sequence from 1.
constants ==
  LET K == <<
     Hex(\h428a, \h2f98), Hex(\h7137, \h4491), Hex(\hb5c0, \hfbcf),
     Hex(\he9b5, \hdba5), Hex(\h3956, \hc25b), Hex(\h59f1, \h11f1),
     Hex(\h923f, \h82a4), Hex(\hab1c, \h5ed5), Hex(\hd807, \haa98),
     Hex(\h1283, \h5b01), Hex(\h2431, \h85be), Hex(\h550c, \h7dc3),
     Hex(\h72be, \h5d74), Hex(\h80de, \hb1fe), Hex(\h9bdc, \h06a7),
     Hex(\hc19b, \hf174), Hex(\he49b, \h69c1), Hex(\hefbe, \h4786),
     Hex(\h0fc1, \h9dc6), Hex(\h240c, \ha1cc), Hex(\h2de9, \h2c6f),
     Hex(\h4a74, \h84aa), Hex(\h5cb0, \ha9dc), Hex(\h76f9, \h88da),
     Hex(\h983e, \h5152), Hex(\ha831, \hc66d), Hex(\hb003, \h27c8),
     Hex(\hbf59, \h7fc7), Hex(\hc6e0, \h0bf3), Hex(\hd5a7, \h9147),
     Hex(\h06ca, \h6351), Hex(\h1429, \h2967), Hex(\h27b7, \h0a85),
     Hex(\h2e1b, \h2138), Hex(\h4d2c, \h6dfc), Hex(\h5338, \h0d13),
     Hex(\h650a, \h7354), Hex(\h766a, \h0abb), Hex(\h81c2, \hc92e),
     Hex(\h9272, \h2c85), Hex(\ha2bf, \he8a1), Hex(\ha81a, \h664b),
     Hex(\hc24b, \h8b70), Hex(\hc76c, \h51a3), Hex(\hd192, \he819),
     Hex(\hd699, \h0624), Hex(\hf40e, \h3585), Hex(\h106a, \ha070),
     Hex(\h19a4, \hc116), Hex(\h1e37, \h6c08), Hex(\h2748, \h774c),
     Hex(\h34b0, \hbcb5), Hex(\h391c, \h0cb3), Hex(\h4ed8, \haa4a),
     Hex(\h5b9c, \hca4f), Hex(\h682e, \h6ff3), Hex(\h748f, \h82ee),
     Hex(\h78a5, \h636f), Hex(\h84c8, \h7814), Hex(\h8cc7, \h0208),
     Hex(\h90be, \hfffa), Hex(\ha450, \h6ceb), Hex(\hbef9, \ha3f7),
     Hex(\hc671, \h78f2)
     >>
  IN  [t \in 0 .. 63 |-> K[t + 1]]

\* Fault: a wrong distance.
ep1_wrong(x) ==
  Xor(Xor(rotate_right(x, 6), rotate_right(x, 11)), rotate_right(x, 24))

ep0(x)  == Xor(Xor(rotate_right(x, 2), rotate_right(x, 13)), rotate_right(x, 22))
ep1(x)  == Xor(Xor(rotate_right(x, 6), rotate_right(x, 11)), rotate_right(x, 25))
sig0(x) == Xor(Xor(rotate_right(x, 7), rotate_right(x, 18)), shift_right(x, 3))
sig1(x) == Xor(Xor(rotate_right(x, 17), rotate_right(x, 19)), shift_right(x, 10))

Ch(x, y, z)  == Xor(And(x, y), And(Not(x), z))
Maj(x, y, z) == Xor(Xor(And(x, y), And(x, z)), And(y, z))
==============================================================================
