-------------------------------- MODULE AltGmon --------------------------------
(***************************************************************************)
(* The heap and the profiler of the HAL: HAL/src/alt_sbrk.c, alt_gmon.c    *)
(* and alt_mcount.S under src/HashComp/software/Rs232Comm_bsp.  The        *)
(* compiler puts a call of mcount at the start of each function, and each  *)
(* counts the arc from its caller.  A handler runs such functions too,     *)
(* between any two instructions of an mcount that has interrupts enabled.  *)
(*                                                                         *)
(* One bucket of the hash table is modelled: the functions are those that  *)
(* share it.  Addresses and sizes are in bytes.                            *)
(***************************************************************************)
EXTENDS Integers, Sequences, FiniteSets

CONSTANTS
  Function, Caller,     \* what self_pc and from_pc can be
  NULL,
  heap_start, heap_limit,           \* __alt_heap_start, __alt_heap_limit
  MCOUNT_SLAB_INCREMENT,            \* 1020
  entrySize, arcSize,               \* of mcount_fn_entry and mcount_fn_arc: 12
  textSize,                         \* etext - stext
  MaxCalls                          \* bound: the calls that are made

ASSUME GmonAssumption ==
  /\ heap_start \in Nat /\ heap_limit \in Nat /\ heap_start <= heap_limit
  /\ {MCOUNT_SLAB_INCREMENT, textSize, MaxCalls} \subseteq Nat
  /\ {entrySize, arcSize} \subseteq 1..MCOUNT_SLAB_INCREMENT

VARIABLES
  heap_end,
  slab_ptr, slab_size,  \* mcount_slab_ptr, mcount_slab_size
  fn_head,      \* the list of function entries, each with its list of arcs
  clock,        \* there is a system clock
  need_init, s_pcsamples,   \* pcsample_need_init; -1 is what sbrk returns when it fails
  pc, self, from, entry, count, \* mcount in the program: its step, arguments and
                \* registers; entry counts from the end of the list
  sampled,      \* where the last sample was counted, and for which bucket
  taken,        \* history: the blocks handed out
  made,         \* history: the calls of mcount that have begun
  overlapped,   \* history: a handler counted the arc the program was counting
  started, raced    \* history: how often the sampler was started, and whether a
                \* handler called between the test of need_init and its reset

heap == <<heap_end, slab_ptr, slab_size, taken>>
sampler == <<need_init, s_pcsamples, clock, started>>
regs == <<pc, self, from, entry, count>>
past == <<made, overlapped, raced>>
vars == <<heap, sampler, fn_head, regs, sampled, past>>

Init ==
  /\ heap_end = heap_start /\ slab_ptr = 0 /\ slab_size = 0 /\ taken = {}
  /\ fn_head = <<>>
  /\ clock = FALSE /\ need_init = TRUE /\ s_pcsamples = 0
  /\ pc = "out" /\ self = NULL /\ from = NULL /\ entry = 0 /\ count = 0
  /\ sampled = [at |-> 0, bucket |-> 0]
  /\ made = 0 /\ overlapped = FALSE /\ started = 0 /\ raced = FALSE
-------------------------------------------------------------------------------
\* ALT_SBRK: the end of the heap is aligned to a word, and stays so if the block
\* does not fit; -1 is then the answer.
aligned(addr) == ((addr + 3) \div 4) * 4

sbrk(end, incr) ==
  LET start == aligned(end)
  IN  IF start + incr > heap_limit
        THEN [end |-> start, block |-> -1]
        ELSE [end |-> start + incr, block |-> start]

\* Fault: what is left of the slab is not looked at.
mcount_allocate_over(h, size) ==
  LET s == sbrk(h.end, MCOUNT_SLAB_INCREMENT)
      new == h.left = 0
      data == IF new THEN s.block ELSE h.ptr
  IN  [end |-> IF new THEN s.end ELSE h.end,
       ptr |-> data + size,
       left |-> (IF new THEN MCOUNT_SLAB_INCREMENT ELSE h.left) - size,
       blocks |-> h.blocks \cup {[at |-> data, size |-> size]}]

\* A block from the slab, or from a new slab; nobody looks whether there was one.
mcount_allocate(h, size) ==
  LET s == sbrk(h.end, MCOUNT_SLAB_INCREMENT)
      new == size > h.left
      data == IF new THEN s.block ELSE h.ptr
  IN  [end |-> IF new THEN s.end ELSE h.end,
       ptr |-> data + size,
       left |-> (IF new THEN MCOUNT_SLAB_INCREMENT ELSE h.left) - size,
       blocks |-> h.blocks \cup {[at |-> data, size |-> size]}]

h0 == [end |-> heap_end, ptr |-> slab_ptr, left |-> slab_size, blocks |-> taken]

SetHeap(h) ==
  /\ heap_end' = h.end /\ slab_ptr' = h.ptr /\ slab_size' = h.left
  /\ taken' = h.blocks
-------------------------------------------------------------------------------
\* mcount's search: the first entry of the function (0: there is none), from the
\* end of the list, whose head alone grows, and its arc from this caller.
places(list, Matches(_)) == {i \in DOMAIN list : Matches(list[i])}
least(S) == CHOOSE i \in S : \A j \in S : i <= j

entryOf(s) ==
  LET hits == places(fn_head, LAMBDA e : e.self_pc = s)
  IN  IF hits = {} THEN 0 ELSE Len(fn_head) + 1 - least(hits)

arcs(e) == fn_head[Len(fn_head) + 1 - e].arcs
arcOf(e, f) == places(arcs(e), LAMBDA a : a.from_pc = f)

\* Fault: the entry is taken by its place from the head.
withArc_shifted(list, e, f) == [list EXCEPT ![e].arcs = <<[from_pc |-> f, count |-> 1]>> \o @]

\* An arc is added at the head of the list of an entry.
withArc(list, e, f) ==
  [list EXCEPT ![Len(list) + 1 - e].arcs = <<[from_pc |-> f, count |-> 1]>> \o @]

\* The second half of __mcount_record, with interrupts disabled: a new entry if
\* the search found none, and a new arc.
record(h1, s, f, e) ==
  LET new == e = 0
      h   == IF new THEN mcount_allocate(h1, entrySize) ELSE h1
      fns == IF new THEN <<[self_pc |-> s, arcs |-> <<>>]>> \o fn_head ELSE fn_head
  IN  /\ SetHeap(mcount_allocate(h, arcSize))
      /\ fn_head' = withArc(fns, IF new THEN Len(fns) ELSE e, f)

\* The count of the first arc from f in an entry is set.
setCount(e, f, n) ==
  fn_head' = [fn_head EXCEPT ![Len(fn_head) + 1 - e].arcs[least(arcOf(e, f))].count = n]
-------------------------------------------------------------------------------
\* The program calls an instrumented function: mcount searches its arc,
Mcount(s, f) ==
  /\ pc = "out" /\ made < MaxCalls
  /\ made' = made + 1
  /\ self' = s /\ from' = f /\ entry' = entryOf(s)
  /\ pc' = IF entry' # 0 /\ arcOf(entry', f) # {} THEN "found" ELSE "test"
  /\ UNCHANGED <<heap, sampler, fn_head, count, sampled, overlapped, raced>>

\* and increments the one it has found, in three instructions;
goto(label) == pc' = label /\ UNCHANGED <<self, from, entry, sampled, past>>

FoundLoad ==
  /\ pc = "found"
  /\ count' = arcs(entry)[least(arcOf(entry, from))].count
  /\ goto("store")
  /\ UNCHANGED <<heap, sampler, fn_head>>

FoundStore ==
  /\ pc = "store"
  /\ setCount(entry, from, count + 1)
  /\ goto("out")
  /\ UNCHANGED <<heap, sampler, count>>

\* else __mcount_record, with interrupts still enabled, starts the sampler if
\* that is still to do: it tests and resets need_init
Test ==
  /\ pc = "test"
  /\ goto(IF need_init THEN "claim" ELSE "record")
  /\ UNCHANGED <<heap, sampler, fn_head, count>>

\* Fault: the flag is left for the return value to change.
Claim_late ==
  /\ pc = "claim"
  /\ goto("start")
  /\ UNCHANGED <<heap, sampler, fn_head, count>>

Claim ==
  /\ pc = "claim"
  /\ need_init' = FALSE
  /\ goto("start")
  /\ UNCHANGED <<heap, s_pcsamples, clock, started, fn_head, count>>

\* and allocates the histogram, a short for each whole 32 bytes of the text,
\* before it starts the alarm.
buckets == textSize \div 32

histogram(h) ==
  LET s == sbrk(h.end, buckets * 2)
  IN  [h EXCEPT !.end = s.end, !.blocks = @ \cup {[at |-> s.block, size |-> buckets * 2]}]

\* The heap is h afterwards; without a clock it is to be tried again.
nios2_pcsample_init(h) ==
  /\ need_init' = ~clock
  /\ IF clock
       THEN /\ h = histogram(h0)
            /\ s_pcsamples' = sbrk(heap_end, buckets * 2).block
            /\ started' = started + 1
       ELSE h = h0 /\ UNCHANGED <<s_pcsamples, started>>
  /\ UNCHANGED clock

StartSampler ==
  /\ pc = "start"
  /\ \E h \in {h0, histogram(h0)} : nios2_pcsample_init(h) /\ SetHeap(h)
  /\ goto("record")
  /\ UNCHANGED <<fn_head, count>>

Record ==
  /\ pc = "record"
  /\ record(h0, self, from, entry)
  /\ goto("out")
  /\ UNCHANGED <<sampler, count>>

\* A handler calls an instrumented function; nothing interrupts its mcount.
Interrupt(s, f) ==
  LET e == entryOf(s)
      known == e # 0 /\ arcOf(e, f) # {}
  IN  /\ made < MaxCalls
      /\ made' = made + 1
      /\ CASE known ->
                setCount(e, f, arcs(e)[least(arcOf(e, f))].count + 1)
                  /\ UNCHANGED <<heap, sampler>>
           [] ~known /\ ~need_init ->
                record(h0, s, f, e) /\ UNCHANGED sampler
           [] ~known /\ need_init ->
                \E h \in {h0, histogram(h0)} : nios2_pcsample_init(h) /\ record(h, s, f, e)
      /\ overlapped' = (overlapped \/ (pc = "store" /\ s = self /\ f = from))
      /\ raced' = (raced \/ (pc = "claim" /\ started' > started))
      /\ UNCHANGED <<regs, sampled>>

\* nios2_pcsample: the alarm counts the address it has interrupted.
Sample(addr) ==
  /\ started > 0
  /\ sampled' = [at |-> s_pcsamples + 2 * (addr \div 32), bucket |-> addr \div 32]
  /\ UNCHANGED <<heap, sampler, fn_head, regs, past>>

\* alt_sysclk_init, once the driver of the clock is up.
ClockStarts ==
  /\ ~clock
  /\ clock' = TRUE
  /\ UNCHANGED <<heap, need_init, s_pcsamples, started, fn_head, regs, sampled, past>>

Next ==
  \/ \E s \in Function, f \in Caller : Mcount(s, f) \/ Interrupt(s, f)
  \/ FoundLoad \/ FoundStore \/ Test \/ Claim \/ StartSampler \/ Record
  \/ \E addr \in 0..(textSize - 1) : addr % 16 = 0 /\ Sample(addr)
  \/ ClockStarts

Spec == Init /\ [][Next]_vars
-------------------------------------------------------------------------------
failed == \E b \in taken : b.at < heap_start

\* A sample of a whole bucket is counted in the histogram; the last bytes of the
\* text may make no whole bucket, and theirs is not.
SampleInHistogram ==
  sampled.at # 0 /\ sampled.bucket < buckets =>
    \E b \in taken : /\ b.size = 2 * buckets
                     /\ b.at <= sampled.at /\ sampled.at + 2 <= b.at + b.size

\* alt_gmon.c:133-148, alt_sbrk.c:66: until the heap is exhausted, every block is
\* in the heap, below its end, and shares no byte with another one, with slabs
\* and the histogram asked for in any order, handlers included; and what is
\* counted of the samples stays in the histogram (lines 259-267).  That the heap
\* ends at heap_limit is what alt_sbrk.c:78-92 does and the reverse of its comment
\* (lines 46-48), which has memory allocated past any bound.
BlocksApart ==
  ~failed =>
    /\ \A b \in taken : heap_start <= b.at /\ b.at + b.size <= heap_end
    /\ heap_end <= heap_limit
    /\ \A b, c \in taken : b # c => b.at + b.size <= c.at \/ c.at + c.size <= b.at
    /\ SampleInHistogram

\* A mark for each time an arc was counted: its entry and its place, both from
\* the end of their lists, and the number.
marks ==
  UNION {UNION {{<<e, Len(arcs(e)) + 1 - a, n>> : n \in 1..arcs(e)[a].count} :
                  a \in DOMAIN arcs(e)} : e \in DOMAIN fn_head}

counted == Cardinality(marks)

\* alt_gmon.c:177-180: an interrupted search may leave two copies of an arc or of
\* a function, but every call is counted in one of them, unless a handler counts
\* the arc between the load and the store of the program's own increment.
CallsCounted == ~overlapped => counted + (IF pc = "out" THEN 0 ELSE 1) = made

\* alt_gmon.c:164-171: the sampler is started once, although it is tried by every
\* call until there is a clock, handlers included, unless a handler calls between
\* the test of the flag and its reset; its alarm is then on the list twice.
OneSampler == ~raced => started <= 1
================================================================================
