---------------------------- MODULE MCAltLib ----------------------------
(****************************************************************************)
(* The library functions over a bounded set of calls.                       *)
(****************************************************************************)
EXTENDS AltLib

\* The calls of the printf functions: two conversions with text around them
MCWord == {0, 1, 8, 15, 16, 99, 100, 127, 128, 200, 255}

\* skip is what the reader passes over: the flag "l" and a precision
Conversion(types, texts, skips, args) ==
    [zero : BOOLEAN, text : texts, skip : skips, type : types, arg : args]

Numbers == Conversion({"d", "i", "u", "o", "x", "X"}, {<< >>, <<"3">>, <<"1", "2">>}, {<< >>, <<"l">>, <<".", "2">>}, MCWord)
OtherNumbers == Conversion({"d", "X"}, {<< >>, <<"4">>}, {<< >>}, {10, 250})
Texts == Conversion({"s"}, {<< >>, <<"3">>}, {<< >>}, {<< >>, <<"a">>, <<"a", "b", "%", "d">>})
Characters == Conversion({"c"}, {<< >>, <<"3">>}, {<< >>}, {"a"})

PrintJobs(cs, ds) ==
    {[call |-> "print", first |-> c, second |-> d,
      format |-> FormatOf(c) \o <<"%", "%">> \o FormatOf(d) \o <<"!">>] : c \in cs, d \in ds}

HexJobs ==
    {[call |-> "hex", args |-> <<v, w>>, format |-> <<"%", "x", "%", "%", "%", "x", "!">>] :
        v \in MCWord, w \in MCWord}

EchoJobs ==
    [call : {"echo"}, text : UNION {[1 .. n -> {"a", "b", CtrlD}] : n \in 0 .. EchoLen + 1}]

MCPrints ==
    PrintJobs(Numbers, OtherNumbers) \cup PrintJobs(OtherNumbers, Texts)
      \cup PrintJobs(Characters, OtherNumbers) \cup HexJobs \cup EchoJobs

\* A time set at tick n0 and read at tick n1
MCClocks ==
    {j \in [call : {"clock"}, time : [sec : {0, 1, 30}, usec : 0 .. US - 1],
            rate : {0, 1, 3, 4, 5, 12}, set : 0 .. 24, read : 0 .. 24] : j.set <= j.read}

\* The exceptions: all operands in three registers, two pairs in every three, and
\* an instruction that nobody emulates
Reg == 0 .. Limit - 1
Kept == [r \in Register |-> IF r = "zero" THEN 0 ELSE IF r = "sp" THEN 20 ELSE 7]
Instruction(op, a, b, c, i) == [op |-> op, a |-> a, b |-> b, c |-> c, imm |-> i]
Half == 0 .. pow2[RegBits \div 2] - 1

ExceptionJobs(inst, x, y) ==
    LET regs == [Kept EXCEPT ![inst.a] = x, ![inst.b] = y, !["zero"] = 0]
        with(pendings, linkeds, handlers) ==
          [call : {"exception"}, inst : {inst}, regs : {regs},
           pending : pendings, linked : linkeds, handler : handlers]
    IN  with({FALSE}, {TRUE}, {"none"})
          \cup IF x = 3 /\ y = 5 THEN with(BOOLEAN, BOOLEAN, Handler) ELSE {}

MCExceptions ==
    UNION {ExceptionJobs(Instruction(op, "r2", "r16", "fp", 0), x, y) :
             op \in Emulated \ {"muli"}, x \in Reg, y \in Reg}
      \cup UNION {ExceptionJobs(Instruction("muli", "r2", "r16", "fp", i), x, 1) : x \in Reg, i \in Half}
      \cup UNION {ExceptionJobs(Instruction(op, a, b, c, 2), v[1], v[2]) :
                    op \in Emulated \cup {"trap"}, a \in Register, b \in Register, c \in Register,
                    v \in {<<3, 5>>, <<29, 4>>}}

\* What the power-up, the last program or the start-up it interrupted left: zero,
\* the value that belongs there, or another one.
Garbage == 99
Sizes == [rodata : {1, 2}, rwdata : 0 .. 3, bss : 0 .. 2, partition : 0 .. 1]
Images(size) == {i \in [1 .. size.rwdata -> 0 .. 12] :
                    \A k \in DOMAIN i : i[k] \in {0, 1, 10 + k} /\ (k > 1 => i[k] = 10 + k)}

MCResets ==
    UNION {[call : {"reset"}, size : {size}, logging : IF size.rwdata >= 2 THEN BOOLEAN ELSE {FALSE},
            image : Images(size),
            left : [1 .. size.rwdata + size.bss + size.partition -> {0, Garbage, 12}]] : size \in Sizes}
=============================================================================
