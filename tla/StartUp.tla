----------------------------- MODULE StartUp -----------------------------
(***************************************************************************)
(* From reset to alt_main: crt0.S and alt_load.c on the memory layout of   *)
(* linker.x, with the messages that ALT_LOG_ENABLE adds.  Memory is a      *)
(* function of word addresses.  A reset may come at any moment, of the     *)
(* program or of a start-up: it leaves in memory what is there.            *)
(* This system has no caches and no shadow register sets.                  *)
(***************************************************************************)
EXTENDS Integers, Sequences

\* The sections, from their sizes in words.  A section has a start, an end and
\* the place where its image is loaded; only .rwdata has one of its own.
\* Behind .bss come sections of the user, which nobody copies or clears.
rodata(size) == [start |-> 0, end |-> size.rodata, load |-> 0]

rwdata(size) ==
    LET start == rodata(size).load + size.rodata
    IN  [start |-> start, end |-> start + size.rwdata, load |-> start + size.rwdata]

\* Fault: .bss follows the data, not their image
bss_over_image(size) ==
    LET start == rwdata(size).end
    IN  [start |-> start, end |-> start + size.bss, load |-> start]

bss(size) ==
    LET start == rwdata(size).load + size.rwdata
    IN  [start |-> start, end |-> start + size.bss, load |-> start]

-----------------------------------------------------------------------------
\* The loop over .bss looks at its end after a word, so an empty section is
\* tested before
ClearBss(mem, s) == [a \in DOMAIN mem |-> IF s.start <= a /\ a < s.end THEN 0 ELSE mem[a]]

\* *to++ = *from++, word by word; a section that is where its image is stays
alt_load_section(mem, s) ==
    LET copy(m, k) == [m EXCEPT ![s.start + k - 1] = m[s.load + k - 1]]
        copied[k \in 0 .. s.end - s.start] ==
          IF k = 0 THEN mem ELSE CHOOSE next \in {copy(m, k) : m \in {copied[k - 1]}} : TRUE
    IN  IF s.start = s.load THEN mem ELSE copied[s.end - s.start]

\* Only the data have an image of their own: what alt_load does to .exceptions
\* it does to .rodata
alt_load(mem, size) == alt_load_section(alt_load_section(mem, rwdata(size)), rodata(size))

\* The first word of .rwdata is alt_log_boot_on_flag, the second one stands for
\* the text of the messages, which are variables with a value too
alt_log_boot_on_flag(size) == rwdata(size).start
alt_log_msg(size) == rwdata(size).start + 1

tx_log_str(mem, size) == <<mem[alt_log_msg(size)]>>

\* What a message prints, given the memory: nothing when the flag is zero
ALT_LOG_PUTS(mem, size) ==
    IF mem[alt_log_boot_on_flag(size)] = 0 THEN << >> ELSE tx_log_str(mem, size)

\* _start: messages about the caches, the stack and .bss, the sections, and a
\* message about alt_main; the memory and the messages alt_main finds
_start(mem, size, logging) ==
    LET cleared == ClearBss(mem, bss(size))
        loaded == alt_load(cleared, size)
        puts(m) == IF logging THEN ALT_LOG_PUTS(m, size) ELSE << >>
    IN  [mem |-> loaded, early |-> puts(mem) \o puts(mem) \o puts(mem), late |-> puts(loaded)]
=============================================================================
