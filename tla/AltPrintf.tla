---------------------------- MODULE AltPrintf ----------------------------
(***************************************************************************)
(* The board support package's two small printf functions, and the echo of *)
(* a written text in the log.  A character is a one-character string, a    *)
(* word has Bits bits where the code's has 32, and an argument is a word   *)
(* (%d %i %u %o %x %X), a character (%c) or a text (%s).  int and long     *)
(* have the same width, so that the flag "l" changes nothing.  No          *)
(* character of a text is NUL, which in the code would end it early.       *)
(***************************************************************************)
EXTENDS Integers, Sequences, SequencesExt

CONSTANTS
    Bits,      \* bits of a word
    EchoLen    \* ALT_LOG_WRITE_ECHO_LEN

ASSUME PrintfAssumption == Bits \in Nat \ {0} /\ Bits % 4 = 0 /\ EchoLen \in Nat

Blank == " "
Decimal == <<"0", "1", "2", "3", "4", "5", "6", "7", "8", "9">>
Small == <<"0", "1", "2", "3", "4", "5", "6", "7", "8", "9", "a", "b", "c", "d", "e", "f">>
Capital == <<"0", "1", "2", "3", "4", "5", "6", "7", "8", "9", "A", "B", "C", "D", "E", "F">>
decimalValue(c) == (CHOOSE i \in 1 .. 10 : Decimal[i] = c) - 1

\* base^n
power(base) ==
    LET p[n \in Nat] == IF n = 0 THEN 1 ELSE base * p[n - 1]
    IN  p

\* alt_log_repchar: nothing is printed for a count of zero or less
alt_log_repchar(c, r) == [i \in 1 .. r |-> c]

\* The number of digits the loop of divisions counts: p = base^(digitCount - 1)
digitCount(v, base) ==
    CHOOSE n \in 1 .. Bits : v < power(base)[n] /\ (n = 1 \/ power(base)[n - 1] <= v)

\* What is printed for an integer conversion: sign, padding and digits
doIntegerPrint(fmt, arg) ==
    LET negative == fmt.signed /\ arg >= power(2)[Bits - 1]
        v == IF negative THEN power(2)[Bits] - arg ELSE arg
        n == digitCount(v, fmt.base)
        letters == IF fmt.capital THEN Capital ELSE Small
        digits == [i \in 1 .. n |-> letters[((v \div power(fmt.base)[n - i]) % fmt.base) + 1]]
        sign == IF negative THEN <<"-">> ELSE << >>
        room == fmt.before - n - Len(sign)
    IN  IF fmt.zero THEN sign \o alt_log_repchar("0", room) \o digits
                    ELSE alt_log_repchar(Blank, room) \o sign \o digits

-----------------------------------------------------------------------------
(***************************************************************************)
(* alt_log_private_printf reads the format one character at a time, in one *)
(* of three states.  p is what it knows: its state, the flags of the       *)
(* conversion it is in, the arguments left and what it has printed.        *)
(***************************************************************************)
NewConversion == [zero |-> FALSE, before |-> -1, after |-> -1,
                  base |-> 10, signed |-> TRUE, capital |-> FALSE]

StartOfFormat(args) ==
    [state |-> "chars", fmt |-> NewConversion, args |-> args, out |-> << >>]

\* Fault: the flags of the last conversion are kept, except its width
pfState_chars_keeps(p, c) ==
    IF c = "%" THEN [p EXCEPT !.state = "firstFmtChar", !.fmt.before = -1]
               ELSE [p EXCEPT !.out = Append(@, c)]

pfState_chars(p, c) ==
    IF c = "%" THEN [p EXCEPT !.state = "firstFmtChar", !.fmt = NewConversion]
               ELSE [p EXCEPT !.out = Append(@, c)]

\* The conversion prints text for its argument and the format goes on
Converted(p, text) ==
    [p EXCEPT !.state = "chars", !.args = Tail(@), !.out = @ \o text]

\* The letter that ends a conversion; any other letter prints nothing
Letter(p, c) ==
    LET fmt == p.fmt
        integer(f) == Converted(p, doIntegerPrint(f, Head(p.args)))
        unsigned == [fmt EXCEPT !.signed = FALSE]
    IN  CASE c \in {"d", "i"} -> integer(fmt)
          [] c = "u" -> integer(unsigned)
          [] c = "o" -> integer([unsigned EXCEPT !.base = 8])
          [] c = "x" -> integer([unsigned EXCEPT !.base = 16])
          [] c = "X" -> integer([unsigned EXCEPT !.base = 16, !.capital = TRUE])
          [] c = "c" -> Converted(p, Append(alt_log_repchar(Blank, fmt.before - 1), Head(p.args)))
          [] c = "s" -> Converted(p, alt_log_repchar(Blank, fmt.before - Len(Head(p.args)))
                                         \o Head(p.args))
          [] OTHER -> [p EXCEPT !.state = "chars"]

pfState_otherFmtChar(p, c) ==
    CASE c = "." -> [p EXCEPT !.fmt.after = 0]
      [] c \in ToSet(Decimal) /\ p.fmt.after < 0 ->
             [p EXCEPT !.fmt.before = (IF @ < 0 THEN 0 ELSE 10 * @) + decimalValue(c)]
      [] c \in ToSet(Decimal) /\ p.fmt.after >= 0 ->
             [p EXCEPT !.fmt.after = 10 * @ + decimalValue(c)]
      [] c = "l" -> p
      [] OTHER -> Letter(p, c)

pfState_firstFmtChar(p, c) ==
    CASE c = "0" -> [p EXCEPT !.fmt.zero = TRUE, !.state = "otherFmtChar"]
      [] c = "%" -> [p EXCEPT !.out = Append(@, c), !.state = "chars"]
      [] OTHER -> pfState_otherFmtChar([p EXCEPT !.state = "otherFmtChar"], c)

logStep(p, c) ==
    CASE p.state = "chars" -> pfState_chars(p, c)
      [] p.state = "firstFmtChar" -> pfState_firstFmtChar(p, c)
      [] p.state = "otherFmtChar" -> pfState_otherFmtChar(p, c)

\* The state after each character of the format.  The bound variable holds the
\* one before it, for TLC to evaluate it once.
logStates(format, args) ==
    LET p[k \in 0 .. Len(format)] ==
          IF k = 0 THEN StartOfFormat(args)
          ELSE CHOOSE next \in {logStep(q, format[k]) : q \in {p[k - 1]}} : TRUE
    IN  p

alt_log_private_printf(format, args) == logStates(format, args)[Len(format)].out

(***************************************************************************)
(* alt_log_write echoes the start of a written text.  The line end takes   *)
(* the place of the last character copied, and Ctrl-D is replaced.         *)
(***************************************************************************)
CtrlD == "\\4"

alt_log_write(text) ==
    LET length == IF EchoLen > Len(text) THEN Len(text) ELSE EchoLen
        copied == [i \in 1 .. length - 1 |-> IF text[i] = CtrlD THEN "D" ELSE text[i]]
    IN  IF length < 2 THEN << >>
        ELSE alt_log_private_printf(<<"E", ":", "%", "s">>, <<copied \o <<"\n", "\r">> >>)

-----------------------------------------------------------------------------
(***************************************************************************)
(* alt_printf knows %c, %s, %x and %% and no width.  A hexadecimal number  *)
(* is printed from its first digit that is not zero, a zero as one digit.  *)
(***************************************************************************)
hexadecimal(v) ==
    LET digit(shift) == (v \div power(2)[shift]) % 16
        shifts == {4 * k : k \in 0 .. (Bits \div 4) - 1}
        first == CHOOSE s \in shifts : digit(s) # 0 /\ \A t \in shifts : t > s => digit(t) = 0
    IN  IF v = 0 THEN <<"0">>
        ELSE [i \in 1 .. (first \div 4) + 1 |-> Small[digit(first - 4 * (i - 1)) + 1]]

printfStep(p, c) ==
    CASE p.state = "chars" /\ c # "%" -> [p EXCEPT !.out = Append(@, c)]
      [] p.state = "chars" /\ c = "%" -> [p EXCEPT !.state = "format"]
      [] p.state = "format" /\ c = "%" -> [p EXCEPT !.out = Append(@, c), !.state = "chars"]
      [] p.state = "format" /\ c = "c" -> Converted(p, <<Head(p.args)>>)
      [] p.state = "format" /\ c = "x" -> Converted(p, hexadecimal(Head(p.args)))
      [] p.state = "format" /\ c = "s" -> Converted(p, Head(p.args))
      [] OTHER -> [p EXCEPT !.state = "chars"]

printfStates(format, args) ==
    LET p[k \in 0 .. Len(format)] ==
          IF k = 0 THEN StartOfFormat(args)
          ELSE CHOOSE next \in {printfStep(q, format[k]) : q \in {p[k - 1]}} : TRUE
    IN  p

alt_printf(format, args) == printfStates(format, args)[Len(format)].out
=============================================================================
