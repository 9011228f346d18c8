---------------------------- MODULE AltTime ----------------------------
(***************************************************************************)
(* Wall-clock time and delays of the board support package.  A time is a   *)
(* pair of seconds and microseconds.  Words are modulo WordLimit, a second *)
(* has US microseconds, and rate is the number of ticks in a second, zero  *)
(* when the system has no clock (as this one has).                         *)
(***************************************************************************)
EXTENDS Integers, Sequences

CONSTANTS
    WordLimit,     \* 2^32 in the code
    US,            \* ALT_US, 10^6 in the code
    PerUs          \* ALT_CPU_FREQ / (cycles_per_loop * 10^6), 5 in this system

ASSUME TimeAssumption ==
    /\ WordLimit \in Nat /\ WordLimit % 2 = 0
    /\ US \in Nat \ {0}
    /\ PerUs \in Nat \ {0} /\ PerUs < WordLimit \div 2

IntMax == WordLimit \div 2 - 1

Time(sec, usec) == [sec |-> sec, usec |-> usec]

\* The answer of both calls: none without a system clock, where they fail
NoClock == << >>
Answer(t) == <<t>>

\* settimeofday: the time of reset.  The product is one of 32-bit words.
ALT_SETTIMEOFDAY(t, nticks, rate) ==
    IF rate = 0 THEN NoClock
    ELSE Answer(Time(t.sec - (nticks \div rate),
                     t.usec - (((nticks * (US \div rate)) % WordLimit) % US)))

\* Fault: microseconds below zero are not borrowed from the seconds
Normal_oneway(t) ==
    IF t.usec < 0 THEN t ELSE Time(t.sec + (t.usec \div US), t.usec % US)

\* The loops that bring the microseconds into their range; a time before zero
\* becomes zero
Normal(t) ==
    LET total == t.sec * US + t.usec
    IN  IF t.usec < 0 /\ total < 0 THEN Time(0, 0)
        ELSE Time(total \div US, total % US)

\* gettimeofday: here the product has 64 bits
ALT_GETTIMEOFDAY(reset, nticks, rate) ==
    IF rate = 0 THEN NoClock
    ELSE Answer(Normal(Time(reset.sec + (nticks \div rate),
                            reset.usec + ((nticks * (US \div rate)) % US))))

-----------------------------------------------------------------------------
\* Turns of the loop "addi -1; bne": a count of zero goes round through all words
turnsBne(n) == IF n % WordLimit = 0 THEN WordLimit ELSE n % WordLimit

\* Turns of the loop "addi -1; bgt": at least one
turnsBgt(n) == IF n > 1 THEN n ELSE 1

\* The microseconds that one long loop stands for
BigLoop == IntMax \div PerUs

\* alt_busy_sleep: how many turns of its loops a delay of us microseconds takes
alt_busy_sleep(us) ==
    LET big_loops == us \div BigLoop
        left == us - big_loops * BigLoop
    IN  IF big_loops > 0
        THEN big_loops * turnsBne(IntMax) + turnsBne(left * PerUs)
        ELSE turnsBgt(left * PerUs)

ALT_USLEEP(us) == alt_busy_sleep(us)
=============================================================================
