-------------------------------- MODULE SHA256 --------------------------------
(***************************************************************************)
(* What SHA-256 asks of the components: the reference the designs are held *)
(* against.  Nothing here runs; every definition is a function or a        *)
(* predicate.  The reference shares the source's constants and logical     *)
(* functions (the known-answer runs anchor those to the digest and the     *)
(* schedule that the test benches expect) and none of its control.         *)
(***************************************************************************)
EXTENDS HashCompPkg

\* The eight working registers.
Regs == [a : Word, b : Word, c : Word, d : Word,
         e : Word, f : Word, g : Word, h : Word]

InitRegs == [a |-> INIT_A, b |-> INIT_B, c |-> INIT_C, d |-> INIT_D,
             e |-> INIT_E, f |-> INIT_F, g |-> INIT_G, h |-> INIT_H]

\* One round of the compression on registers r with round constant k, word w.
Round(r, k, w) ==
  LET T1 == r.h ++ ep1(r.e) ++ Ch(r.e, r.f, r.g) ++ k ++ w
      T2 == ep0(r.a) ++ Maj(r.a, r.b, r.c)
  IN  [a |-> T1 ++ T2,  b |-> r.a, c |-> r.b, d |-> r.c,
       e |-> r.d ++ T1, f |-> r.e, g |-> r.f, h |-> r.g]

\* R lists the registers after each of the first n rounds of schedule b.
IsCompression(R, b, n) ==
  /\ R[0] = InitRegs
  /\ \A t \in 0 .. n - 1 : R[t + 1] = Round(R[t], constants[t], b[t])

\* The list for schedule b.  The bound variable holds the registers of a round,
\* for TLC to evaluate them before the next.
RoundsOf(b, n) ==
  LET R[t \in 0 .. n] ==
        IF t = 0 THEN InitRegs
        ELSE CHOOSE next \in {Round(r, constants[t - 1], b[t - 1]) : r \in {R[t - 1]}} : TRUE
  IN  R

\* The registers r added to the initial ones: the digest after the last round.
AddInit(r) ==
  [a |-> r.a ++ INIT_A, b |-> r.b ++ INIT_B, c |-> r.c ++ INIT_C,
   d |-> r.d ++ INIT_D, e |-> r.e ++ INIT_E, f |-> r.f ++ INIT_F,
   g |-> r.g ++ INIT_G, h |-> r.h ++ INIT_H]

\* w, of n words, is the message schedule of the 16-word block b.
IsSchedule(w, b, n) ==
  /\ \A t \in 0 .. 15 : w[t] = b[t]
  /\ \A t \in 16 .. n - 1 :
        w[t] = sig1(w[t - 2]) ++ w[t - 7] ++ sig0(w[t - 15]) ++ w[t - 16]
===============================================================================
