---------------------------- MODULE AltCache ----------------------------
(***************************************************************************)
(* The cache functions of the board support package, for a processor that  *)
(* has caches: the addresses each function gives to the instruction that   *)
(* flushes or discards the line an address lies in.  An address is a word  *)
(* modulo AddressLimit.  On this system both cache sizes and line sizes    *)
(* are zero, and only alt_dcache_flush_no_writeback has any code.          *)
(***************************************************************************)
EXTENDS Integers

CONSTANTS
    AddressLimit,       \* 2^32 in the code
    LineSize,           \* NIOS2_DCACHE_LINE_SIZE, NIOS2_ICACHE_LINE_SIZE
    WordSize,           \* 4 in the code
    CacheSize           \* NIOS2_DCACHE_SIZE, NIOS2_ICACHE_SIZE

ASSUME CacheAssumption ==
    /\ LineSize \in Nat \ {0}
    /\ WordSize \in Nat \ {0}
    /\ LineSize % WordSize = 0
    /\ AddressLimit \in Nat
    /\ CacheSize \in Nat \ {0} /\ CacheSize < AddressLimit
    /\ CacheSize % LineSize = 0

Address == 0 .. AddressLimit - 1

\* How often the loop "for (i = start; i < end; i += LineSize)" runs.  The end
\* is an address too: it is taken modulo AddressLimit, as the pointer is.
end(start, len) == (start + len) % AddressLimit
rounds(start, len) ==
    IF start < end(start, len) THEN (end(start, len) - start + LineSize - 1) \div LineSize ELSE 0

\* When i wraps it is below the end again, and the loop never stops: the result
\* is a set that holds no address
NeverReturns == {-1}
wraps(start, len) == rounds(start, len) > 0 /\ start + rounds(start, len) * LineSize >= AddressLimit

\* Fault: the line that an unaligned region has left is forgotten
walk_short(start, len) ==
    IF wraps(start, len) THEN NeverReturns
    ELSE {start + k * LineSize : k \in 0 .. rounds(start, len) - 1}

\* The loop's addresses, and one more when the start is not aligned
walk(start, len) ==
    LET last == rounds(start, len) - (IF start % LineSize = 0 THEN 1 ELSE 0)
    IN  IF wraps(start, len) THEN NeverReturns
        ELSE {start + k * LineSize : k \in 0 .. last}

alt_dcache_flush(start, len) == walk(start, len)

alt_dcache_flush_no_writeback(start, len) == walk(start, len)

alt_dcache_flush_all == {k * LineSize : k \in 0 .. CacheSize \div LineSize - 1}

\* No more than the whole instruction cache is ever flushed
alt_icache_flush(start, len) == walk(start, IF len > CacheSize THEN CacheSize ELSE len)

alt_icache_flush_all == alt_icache_flush(0, CacheSize)

\* The start-up code initialises the caches from their size down to, and
\* without, zero: the instruction cache by lines, the data cache by lines or,
\* with parity bits (NIOS2_ECC_PRESENT), by words
downFrom(size, step) == {size - k * step : k \in 0 .. size \div step - 1}
crt0_initi == downFrom(CacheSize, LineSize)
crt0_initd(ecc) == downFrom(CacheSize, IF ecc THEN WordSize ELSE LineSize)
=============================================================================
