----------------------------- MODULE AltException -----------------------------
(***************************************************************************)
(* Exceptions of the processor and the emulation of its multiplications    *)
(* and divisions: HAL/src/alt_exception_entry.S, alt_exception_muldiv.S    *)
(* and alt_instruction_exception_entry.c.  An exception is what the        *)
(* processor sees (an interrupt that is pending, or an instruction it does *)
(* not have), what is linked in, and the registers; its end is the         *)
(* registers and the instruction the program goes on with.                 *)
(*                                                                         *)
(* A few registers stand for the kinds the code treats differently; et,    *)
(* ea, bt and ba, which it says it does not emulate, are left out.         *)
(***************************************************************************)
EXTENDS Integers

CONSTANT RegBits    \* bits of a register, 32 in the code

ASSUME RegAssumption == RegBits \in Nat /\ RegBits >= 2

EntrySaved == {"r2", "ra"}      \* r1 .. r15 and ra
EmulationSaved == {"r16", "fp"} \* r16 .. r23 and fp
Register == {"zero", "gp", "sp"} \cup EntrySaved \cup EmulationSaved

\* 2^n
pow2[n \in Nat] == IF n = 0 THEN 1 ELSE 2 * pow2[n - 1]

Limit == pow2[RegBits]
Top == pow2[RegBits - 1]
wrap(n) == n % Limit
negative(v) == v >= Top
negated(v) == wrap(-v)

-----------------------------------------------------------------------------
\* Division: remainder and dividend are shifted left together, and the quotient
\* takes the place of the dividend.
shifted(s) == [rem |-> wrap(2 * s.rem) + (s.quot \div Top), quot |-> wrap(2 * s.quot)]

\* Fault: a remainder as large as the divisor is not divided.
divideTurn_late(s, d) ==
    LET t == shifted(s)
    IN  IF t.rem <= d THEN t ELSE [rem |-> t.rem - d, quot |-> t.quot + 1]

divideTurn(s, d) ==
    LET t == shifted(s)
    IN  IF t.rem < d THEN t ELSE [rem |-> t.rem - d, quot |-> t.quot + 1]

\* The loop runs once for each bit.  The bound variable holds the state before a
\* turn, for TLC to evaluate it once.
divided(a, b) ==
    LET s[k \in 0 .. RegBits] ==
          IF k = 0 THEN [rem |-> 0, quot |-> a]
          ELSE CHOOSE next \in {divideTurn(t, b) : t \in {s[k - 1]}} : TRUE
    IN  s

divu(a, b) == divided(a, b)[RegBits].quot

magnitude(v) == IF negative(v) THEN negated(v) ELSE v

div(a, b) ==
    LET q == divu(magnitude(a), magnitude(b))
    IN  IF negative(a) = negative(b) THEN q ELSE negated(q)

\* Multiplication: the low product is shifted left under the bits of the
\* multiplier from the top, the high one right, with its carry, from the bottom.
multiplyTurn(s, a) ==
    [low  |-> wrap(2 * s.low + (IF negative(s.down) THEN a ELSE 0)),
     high |-> (s.high + (IF s.up % 2 = 1 THEN a ELSE 0)) \div 2,
     down |-> wrap(2 * s.down),
     up   |-> s.up \div 2]

multiplied(a, b) ==
    LET s[k \in 0 .. RegBits] ==
          IF k = 0 THEN [low |-> 0, high |-> 0, down |-> b, up |-> b]
          ELSE CHOOSE next \in {multiplyTurn(t, a) : t \in {s[k - 1]}} : TRUE
    IN  s

product(a, b) == multiplied(a, b)[RegBits]

mulxsu(a, b) == wrap(product(a, b).high - (IF negative(a) THEN b ELSE 0))

Result(op, a, b) ==
    CASE op = "div"    -> div(a, b)
      [] op = "divu"   -> divu(a, b)
      [] op \in {"mul", "muli"} -> product(a, b).low
      [] op = "mulxuu" -> product(a, b).high
      [] op = "mulxsu" -> mulxsu(a, b)
      [] op = "mulxss" -> wrap(mulxsu(a, b) - (IF negative(b) THEN a ELSE 0))

Emulated == {"div", "divu", "mul", "muli", "mulxuu", "mulxsu", "mulxss"}

-----------------------------------------------------------------------------
\* What a handler in C, or the emulation, may leave in the registers it need
\* not preserve.
clobbered(regs) == [r \in Register |-> IF r \in EntrySaved THEN Top ELSE regs[r]]

\* alt_exception_entry.S, exit: the registers that the entry has saved come from
\* the stack, the others are left as they are.
Exit(stack, regs, resume) ==
    [regs   |-> [r \in Register |-> IF r \in EntrySaved THEN stack[r] ELSE regs[r]],
     resume |-> resume]

\* The emulation takes its operands from the stack, where sp is that of its own
\* frame, 76 and 60 bytes below the program's, and puts its result there; from
\* there the registers it saves, but not zero, gp or sp, are loaded again.
Frame(regs) == [regs EXCEPT !["sp"] = wrap(@ - 136)]

immediate(inst) ==
    wrap(IF inst.imm >= pow2[RegBits \div 2 - 1] THEN inst.imm - pow2[RegBits \div 2] ELSE inst.imm)

Emulate(inst, regs) ==
    LET frame == Frame(regs)
        isMuli == inst.op = "muli"
        b == IF isMuli THEN immediate(inst) ELSE frame[inst.b]
        stack == [frame EXCEPT ![IF isMuli THEN inst.b ELSE inst.c] = Result(inst.op, frame[inst.a], b)]
        live == clobbered(regs)
    IN  Exit(stack,
             [r \in Register |-> IF r \in EmulationSaved THEN stack[r] ELSE live[r]],
             "next")

\* An exception that nothing serves stops the program; a handler that was
\* registered says whether its instruction is skipped or tried again.
Unknown(handler, regs) ==
    CASE handler = "none" -> [regs |-> clobbered(regs), resume |-> "break"]
      [] handler = "NIOS2_EXCEPTION_RETURN_SKIP_INST" -> Exit(regs, clobbered(regs), "next")
      [] handler = "NIOS2_EXCEPTION_RETURN_REISSUE_INST" -> Exit(regs, clobbered(regs), "this")

\* The interrupt comes first; its instruction is tried again.
alt_exception(x) ==
    IF x.pending THEN Exit(x.regs, clobbered(x.regs), "this")
    ELSE IF x.linked /\ x.inst.op \in Emulated THEN Emulate(x.inst, x.regs)
    ELSE Unknown(x.handler, x.regs)
=============================================================================
