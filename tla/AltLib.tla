------------------------------- MODULE AltLib -------------------------------
(****************************************************************************)
(* The library functions of AltPrintf, AltCache and AltTime, the exceptions *)
(* of AltException and the start-up of StartUp.  A behaviour is one call:   *)
(* job says which function is called with what, and out is what it does.    *)
(* The properties compare out with what the function is for.                *)
(****************************************************************************)
EXTENDS AltPrintf, AltCache, AltTime, AltException, StartUp

CONSTANTS
    Prints,         \* the calls of the printf functions
    Clocks,         \* a time set at one tick and read at a later one
    Exceptions,     \* what raises an exception, and what is linked in
    Resets          \* what a reset finds in memory

Handler == {"none", "NIOS2_EXCEPTION_RETURN_SKIP_INST", "NIOS2_EXCEPTION_RETURN_REISSUE_INST"}

\* A conversion of a format: the flag for zeros, the digits of its width, what the
\* reader passes over (a flag "l" or a precision), its letter and its argument.
\* The field of a text is told from its blanks, so the text begins with another
\* character.
IsConversion(c) ==
    /\ c.zero \in BOOLEAN
    /\ c.text \in Seq(ToSet(Decimal)) /\ (c.text # << >> => c.text[1] # "0")
    /\ c.skip \in {<< >>, <<"l">>} \cup {<<".", d>> : d \in ToSet(Decimal)}
    /\ \/ c.type \in {"d", "i", "u", "o", "x", "X"} /\ c.arg \in 0 .. power(2)[Bits] - 1
       \/ c.type = "c" /\ c.arg \in STRING \ {Blank}
       \/ c.type = "s" /\ c.arg \in Seq(STRING) /\ (c.arg # << >> => c.arg[1] # Blank)

FormatOf(c) ==
    <<"%">> \o (IF c.zero THEN <<"0">> ELSE << >>) \o c.text \o c.skip \o <<c.type>>

\* The registers of a program are words, and zero is zero.
Registers == {r \in [Register -> 0 .. Limit - 1] : r["zero"] = 0}

Instructions == [op : Emulated \cup {"trap"}, a : Register, b : Register, c : Register,
                 imm : 0 .. pow2[RegBits \div 2] - 1]

\* A reset finds the image of the program intact, because it never writes there
\* and start-up does not; image holds the words of .rwdata, the flag first.  Its
\* data, .bss and the rest (left) may be anything.
ASSUME CallAssumption ==
    /\ \A j \in Prints :
          \/ /\ j.call = "print" /\ IsConversion(j.first) /\ IsConversion(j.second)
             /\ j.format = FormatOf(j.first) \o <<"%", "%">> \o FormatOf(j.second) \o <<"!">>
          \/ /\ j.call = "hex" /\ j.format = <<"%", "x", "%", "%", "%", "x", "!">>
             /\ j.args \in Seq(0 .. power(2)[Bits] - 1) /\ Len(j.args) = 2
          \/ j.call = "echo" /\ j.text \in Seq(STRING)
    /\ Clocks \subseteq [call : {"clock"}, time : [sec : Nat, usec : 0 .. US - 1],
                         rate : Nat, set : Nat, read : Nat]
    /\ \A j \in Clocks : j.set <= j.read
    /\ Exceptions \subseteq [call : {"exception"}, inst : Instructions, regs : Registers,
                             pending : BOOLEAN, linked : BOOLEAN, handler : Handler]
    /\ Resets \subseteq [call : {"reset"}, logging : BOOLEAN, image : Seq(Int), left : Seq(Int),
                         size : [rodata : Nat, rwdata : Nat, bss : Nat, partition : Nat]]
    /\ \A j \in Resets : /\ Len(j.image) = j.size.rwdata
                         /\ Len(j.left) = j.size.rwdata + j.size.bss + j.size.partition
                         /\ j.logging => j.size.rwdata >= 2

VARIABLES job, out, done

callVars == <<job, out, done>>

\* The memory of a reset: what is below .rwdata, the data as they were left,
\* their image, and the rest
MemoryAt(j) ==
    LET code == [k \in 1 .. j.size.rodata |-> 50 + k]
        words == code \o SubSeq(j.left, 1, j.size.rwdata) \o j.image
                   \o SubSeq(j.left, j.size.rwdata + 1, Len(j.left))
    IN  [a \in 0 .. Len(words) - 1 |-> words[a + 1]]

InitCall ==
    /\ \/ job \in Prints \cup Clocks \cup Exceptions \cup Resets
       \/ job \in [call : {"alt_dcache_flush", "alt_dcache_flush_no_writeback", "alt_icache_flush"},
                   start : Address, len : Address]
       \/ job \in [call : {"alt_dcache_flush_all", "alt_icache_flush_all"}]
       \/ job \in [call : {"crt0_initi", "crt0_initd"}, ecc : BOOLEAN]
       \/ job \in [call : {"sleep"}, us : 0 .. WordLimit - 1]
    /\ out = << >>
    /\ done = FALSE

-----------------------------------------------------------------------------
Does(what) == ~done /\ done' = TRUE /\ out' = what /\ UNCHANGED job

PrintLog ==
    /\ job.call = "print"
    /\ Does(alt_log_private_printf(job.format, <<job.first.arg, job.second.arg>>))

PrintHex == job.call = "hex" /\ Does(alt_printf(job.format, job.args))

Echo == job.call = "echo" /\ Does(alt_log_write(job.text))

FlushData == job.call = "alt_dcache_flush" /\ Does(alt_dcache_flush(job.start, job.len))
Discard ==
    /\ job.call = "alt_dcache_flush_no_writeback"
    /\ Does(alt_dcache_flush_no_writeback(job.start, job.len))
FlushCode == job.call = "alt_icache_flush" /\ Does(alt_icache_flush(job.start, job.len))
FlushAllData == job.call = "alt_dcache_flush_all" /\ Does(alt_dcache_flush_all)
FlushAllCode == job.call = "alt_icache_flush_all" /\ Does(alt_icache_flush_all)

InitCode == job.call = "crt0_initi" /\ Does(crt0_initi)
InitData == job.call = "crt0_initd" /\ Does(crt0_initd(job.ecc))

Reset == job.call = "reset" /\ Does(_start(MemoryAt(job), job.size, job.logging))

SetAndRead ==
    /\ job.call = "clock"
    /\ LET reset == ALT_SETTIMEOFDAY(job.time, job.set, job.rate)
       IN  Does(IF reset = NoClock THEN NoClock
                ELSE ALT_GETTIMEOFDAY(reset[1], job.read, job.rate))

Sleep == job.call = "sleep" /\ Does(ALT_USLEEP(job.us))

Serve == job.call = "exception" /\ Does(alt_exception(job))

NextCall ==
    \/ PrintLog \/ PrintHex \/ Echo
    \/ FlushData \/ Discard \/ FlushCode \/ FlushAllData \/ FlushAllCode
    \/ InitCode \/ InitData \/ Reset
    \/ SetAndRead \/ Sleep \/ Serve

SpecCall == InitCall /\ [][NextCall]_callVars

-----------------------------------------------------------------------------
\* The number that digits stand for, read from left to right
Read(digits, base) ==
    LET value(c) == (CHOOSE i \in 1 .. 16 : Small[i] = c \/ Capital[i] = c) - 1
        r[k \in 0 .. Len(digits)] == IF k = 0 THEN 0 ELSE base * r[k - 1] + value(digits[k])
    IN  r[Len(digits)]

\* The width of a conversion, none being zero
Width(c) == Read(c.text, 10)

Blanks(t) == {i \in 1 .. Len(t) : \A j \in 1 .. i : t[j] = Blank}
AfterBlanks(t) == SubSeq(t, Cardinality(Blanks(t)) + 1, Len(t))

Base(type) == CASE type = "o" -> 8 [] type \in {"x", "X"} -> 16 [] OTHER -> 10

\* The text t is the field of the integer conversion c
IsNumber(t, c) ==
    LET body == AfterBlanks(t)
        signed == c.type \in {"d", "i"} /\ c.arg >= power(2)[Bits - 1]
        digits == IF signed THEN Tail(body) ELSE body
        padded == IF c.zero THEN digits[1] = "0" /\ Len(digits) > 1 ELSE Blanks(t) # {}
    IN  /\ signed <=> body[1] = "-"
        /\ Len(digits) > 0 /\ ToSet(digits) \subseteq ToSet(IF c.type = "X" THEN Capital ELSE Small)
        /\ Read(digits, Base(c.type)) = IF signed THEN power(2)[Bits] - c.arg ELSE c.arg
        /\ ~c.zero => (digits[1] = "0" => c.arg = 0 /\ Len(digits) = 1)
        /\ c.zero => Blanks(t) = {}
        /\ Len(t) >= Width(c)
        /\ padded => Len(t) = Width(c)

IsField(t, c) ==
    CASE c.type = "c" -> Len(t) = (IF Width(c) > 1 THEN Width(c) ELSE 1) /\ AfterBlanks(t) = <<c.arg>>
      [] c.type = "s" -> /\ AfterBlanks(t) = c.arg
                         /\ Len(t) = IF Width(c) > Len(c.arg) THEN Width(c) ELSE Len(c.arg)
      [] OTHER -> IsNumber(t, c)

\* alt_log_printf.c:114-341: a conversion prints its argument so that it reads
\* back as the same number, in the base and the letters asked for, with blanks
\* or zeros up to the width and none beyond it, and whatever the conversion
\* before it was: nothing of it stays in the reader of the format.  %x of alt_printf prints a number
\* with its shortest digits.  The echo of a text is all of it that fits but
\* its last character.
PrintsArguments ==
    done =>
        CASE job.call = "print" ->
                 \E k \in 1 .. Len(out) - 1 :
                     /\ out[k] = "%"
                     /\ IsField(SubSeq(out, 1, k - 1), job.first)
                     /\ IsField(SubSeq(out, k + 1, Len(out) - 1), job.second)
          [] job.call = "hex" ->
                 \E k \in 1 .. Len(out) - 1 :
                     LET plain(v) == [zero |-> FALSE, text |-> << >>, type |-> "x", arg |-> v]
                     IN  /\ out[k] = "%"
                         /\ IsNumber(SubSeq(out, 1, k - 1), plain(job.args[1]))
                         /\ IsNumber(SubSeq(out, k + 1, Len(out) - 1), plain(job.args[2]))
          [] job.call = "echo" ->
                 LET shown == IF Len(job.text) < EchoLen THEN Len(job.text) ELSE EchoLen
                 IN  IF shown < 2 THEN out = << >>
                     ELSE /\ Len(out) = 3 + shown
                          /\ \A i \in 3 .. Len(out) - 2 :
                                 out[i] = IF job.text[i - 2] = CtrlD THEN "D" ELSE job.text[i - 2]
          [] OTHER -> TRUE

\* The line an address lies in, and the place in the cache a line has
LineOf(a) == a \div LineSize
PlaceOf(line) == line % (CacheSize \div LineSize)
Region == {LineOf(a) : a \in job.start .. job.start + job.len - 1}
Flushed == {LineOf(a) : a \in out}

\* alt_dcache_flush.c:53-67 and its variants: every line of the region is
\* flushed, unless the region reaches into the last line of the address space,
\* where the loop's address wraps; a region larger than the instruction cache
\* has every place of the cache flushed, and "all" means all.  No line outside
\* the region is touched but the one after a region whose start is not aligned
\* (or the start's own when the region is empty): in the variant that discards,
\* that line loses its data.  crt0.S:175-178, 279-282: start-up initialises every
\* place of both caches, and with parity bits every word of the data cache but
\* only the first one of each line of the instruction cache.
FlushCovers ==
    done =>
        CASE job.call \in {"alt_dcache_flush", "alt_dcache_flush_no_writeback"} ->
                 job.start + job.len <= AddressLimit - LineSize =>
                     /\ out # NeverReturns
                     /\ Region \subseteq Flushed
                     /\ Flushed \ Region \subseteq
                            IF job.start % LineSize = 0 THEN {}
                            ELSE {LineOf(job.start), LineOf(job.start + job.len - 1) + 1}
          [] job.call = "alt_icache_flush" ->
                 job.start + job.len <= AddressLimit - LineSize =>
                     {PlaceOf(l) : l \in Region} \subseteq {PlaceOf(l) : l \in Flushed}
          [] job.call \in {"alt_dcache_flush_all", "alt_icache_flush_all"} ->
                 {PlaceOf(l) : l \in Flushed} = 0 .. (CacheSize \div LineSize) - 1
          [] job.call \in {"crt0_initi", "crt0_initd"} ->
                 IF job.ecc /\ job.call = "crt0_initd"
                 THEN {a % CacheSize : a \in out} = {a \in 0 .. CacheSize - 1 : a % WordSize = 0}
                 ELSE /\ {PlaceOf(l) : l \in Flushed} = 0 .. (CacheSize \div LineSize) - 1
                      /\ \A a \in out : a % LineSize = 0
          [] OTHER -> TRUE

\* crt0.S:431-506, alt_load.c:66-98, linker.x:212-310: whatever a reset finds in
\* memory, the program starts with its data as linked, with .bss zero, and with
\* the rest as it was, the image for the next reset included; no section is
\* written over another.  The message before alt_main follows the flag and the
\* text of the program; those before it the words that the reset found in
\* their place, because the data are not loaded yet.
StartsFresh ==
    done /\ job.call = "reset" =>
        LET before == MemoryAt(job)
            data == job.size.rodata .. job.size.rodata + job.size.rwdata - 1
            zeroed == {a \in DOMAIN before : \E k \in 1 .. job.size.bss :
                           a = job.size.rodata + 2 * job.size.rwdata + k - 1}
        IN  /\ DOMAIN out.mem = DOMAIN before
            /\ \A a \in data : out.mem[a] = job.image[a - job.size.rodata + 1]
            /\ \A a \in zeroed : out.mem[a] = 0
            /\ \A a \in DOMAIN before \ (data \cup zeroed) : out.mem[a] = before[a]
            /\ out.late = IF job.logging /\ job.image[1] # 0 THEN <<job.image[2]>> ELSE << >>
            /\ out.early = IF job.logging /\ job.left[1] # 0
                           THEN [i \in 1 .. 3 |-> job.left[2]] ELSE << >>

Micros(t) == t.sec * US + t.usec

\* alt_settod.c:82-84, alt_gettod.c:91-112: a time that was set reads back as
\* itself plus the ticks since, as long as the rate divides a second and the
\* 32-bit product of the ticks at the setting does not overflow.
\* alt_busy_sleep.c:74-129: a delay takes at least the turns asked for and for
\* each long loop less than one microsecond more, except a delay that is a whole
\* number of long loops, which goes once round all words at its end.
TimeKept ==
    done =>
        CASE job.call = "clock" ->
                 /\ out = NoClock <=> job.rate = 0
                 /\ job.rate # 0 /\ US % job.rate = 0 /\ job.set * (US \div job.rate) < WordLimit =>
                        LET then == Micros(job.time) + (job.read - job.set) * (US \div job.rate)
                        IN  /\ Micros(out[1]) = then
                            /\ out[1].usec \in 0 .. US - 1
          [] job.call = "sleep" ->
                 LET long == job.us \div BigLoop
                     whole == long > 0 /\ job.us % BigLoop = 0
                 IN  /\ out >= job.us * PerUs
                     /\ out <= job.us * PerUs + long * PerUs + (IF job.us = 0 THEN 1 ELSE 0)
                                   + (IF whole THEN WordLimit ELSE 0)
                     /\ whole => out >= job.us * PerUs + WordLimit
          [] OTHER -> TRUE

\* What the instruction set asks of an instruction: high and low words of
\* products, quotients rounded towards zero; nothing for a division by zero or
\* one that overflows.
signed(v) == IF v >= Top THEN v - Limit ELSE v
Undefined(op, a, b) ==
    op \in {"div", "divu"} /\ (b = 0 \/ (op = "div" /\ signed(a) = -Top /\ signed(b) = -1))
abs(n) == IF n < 0 THEN -n ELSE n
Exact(op, a, b) ==
    LET word(n) == n % Limit
        high(n) == word(n \div Limit)
        quotient == abs(signed(a)) \div abs(signed(b))
    IN  CASE op \in {"mul", "muli"} -> word(a * b)
          [] op = "mulxuu" -> high(a * b)
          [] op = "mulxsu" -> high(signed(a) * b)
          [] op = "mulxss" -> high(signed(a) * signed(b))
          [] op = "divu" -> a \div b
          [] op = "div" -> word(IF (signed(a) < 0) = (signed(b) < 0) THEN quotient ELSE -quotient)

\* alt_exception_muldiv.S:55-76: an emulated instruction has the effect of the
\* instruction and no other: its register holds the exact result, all others are
\* as before, and the program goes on behind it.  Beyond what lines 63-73 list,
\* an operand sp is read 136 too low, and a result in gp is lost as one in sp is.
\* Every other exception leaves all registers alone: an interrupt, which comes
\* first, and one whose handler asks for it go back to the instruction.
EmulatesInstructions ==
    done /\ job.call = "exception" /\ out.resume # "break" =>
        LET inst == job.inst
            emulated == ~job.pending /\ job.linked /\ inst.op \in {"div", "divu", "mul", "muli", "mulxuu", "mulxsu", "mulxss"}
            value(r) == (IF r = "sp" THEN job.regs[r] - 136 ELSE job.regs[r]) % Limit
            half == pow2[RegBits \div 2]
            a == value(inst.a)
            b == IF inst.op # "muli" THEN value(inst.b)
                 ELSE IF inst.imm < half \div 2 THEN inst.imm ELSE (inst.imm - half) % Limit
            dest == IF inst.op = "muli" THEN inst.b ELSE inst.c
            again == job.pending \/ job.handler = "NIOS2_EXCEPTION_RETURN_REISSUE_INST"
        IN  IF emulated
            THEN /\ out.resume = "next"
                 /\ \A r \in DOMAIN job.regs \ {dest} : out.regs[r] = job.regs[r]
                 /\ IF dest \in {"zero", "gp", "sp"} THEN out.regs[dest] = job.regs[dest]
                    ELSE Undefined(inst.op, a, b) \/ out.regs[dest] = Exact(inst.op, a, b)
            ELSE out.regs = job.regs /\ (out.resume = "this" <=> again)
=============================================================================
