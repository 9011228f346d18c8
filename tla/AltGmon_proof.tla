---------------------------- MODULE AltGmon_proof ----------------------------
(***************************************************************************)
(* For every heap, slab, text and set of functions, and for handlers that  *)
(* call at any point: until the heap is exhausted the blocks of the        *)
(* profiler lie in it and apart from one another, samples of whole buckets *)
(* stay in the histogram, the sampler is started once, and every call is   *)
(* counted once, but for the handlers that count the arc being counted.    *)
(*                                                                         *)
(* The last is a matter of sizes of lists of lists: each increment is a    *)
(* mark, named by entry and place from the end, where nothing moves, so    *)
(* that a step adds one mark to a set (OneMore) and nothing is summed.     *)
(***************************************************************************)
EXTENDS AltGmon, FiniteSetTheorems, TLAPS

USE GmonAssumption

-----------------------------------------------------------------------------
\* The end of the heap, the slab, and the blocks that were handed out.
Heaps == [end : Nat, ptr : Int, left : Nat, blocks : SUBSET [at : Int, size : Nat]]

Failed(h) == \E b \in h.blocks : b.at < heap_start

\* Two pieces of memory, one of them at p with n bytes, share nothing.
Apart(p, n, b) == p + n <= b.at \/ b.at + b.size <= p

\* Every block, and what is left of the slab, has its own part of the heap.
Sound(h) ==
    /\ heap_start <= h.end /\ h.end <= heap_limit
    /\ \A b \in h.blocks : heap_start <= b.at /\ b.at + b.size <= h.end
    /\ \A b, c \in h.blocks : b # c => Apart(b.at, b.size, c)
    /\ h.left > 0 => /\ heap_start <= h.ptr /\ h.ptr + h.left <= h.end
                     /\ \A b \in h.blocks : Apart(h.ptr, h.left, b)

HeapOK == h0 \in Heaps /\ (~Failed(h0) => Sound(h0))

\* The registers of the profiler and of the sampler.
StateOK ==
    /\ started \in Nat /\ s_pcsamples \in Int
    /\ need_init \in BOOLEAN /\ clock \in BOOLEAN /\ raced \in BOOLEAN

\* Once the sampler runs, its histogram is one of the blocks.
HistogramOK ==
    /\ started > 0 => \E b \in taken : b.at = s_pcsamples /\ b.size = 2 * buckets
    /\ SampleInHistogram

\* While the program starts the sampler the flag is down; where it was started
\* without a race the flag stays down and the program is past the test.
OnceOK ==
    /\ pc = "start" => ~need_init
    /\ ~raced => \/ started = 0
                 \/ started = 1 /\ ~need_init /\ pc \notin {"claim", "start"}

GmonInv == StateOK /\ HeapOK /\ HistogramOK /\ OnceOK

\* No address is moved down by the alignment.
LEMMA AlignedUp == \A addr \in Nat : aligned(addr) \in Nat /\ aligned(addr) >= addr
  BY DEF aligned

\* What the system break answers: a block at or above the end, or -1.
LEMMA SbrkBlock ==
  ASSUME NEW end \in Nat, NEW incr \in Nat
  PROVE  /\ sbrk(end, incr).end \in Nat /\ sbrk(end, incr).block \in Int
         /\ \/ sbrk(end, incr).block = -1
            \/ /\ end <= sbrk(end, incr).block
               /\ sbrk(end, incr).end = sbrk(end, incr).block + incr
               /\ sbrk(end, incr).end <= heap_limit
<1> DEFINE start == aligned(end)
<1>1. start \in Nat /\ start >= end
  BY AlignedUp
<1> HIDE DEF start
<1>2. sbrk(end, incr) = IF start + incr > heap_limit THEN [end |-> start, block |-> -1]
                        ELSE [end |-> start + incr, block |-> start]
  BY DEF sbrk, start
<1>3. CASE start + incr > heap_limit
  BY <1>1, <1>2, <1>3
<1>4. CASE ~(start + incr > heap_limit)
  BY <1>1, <1>2, <1>4
<1> QED BY <1>3, <1>4

\* A block from the slab that is left, or from a new one, lies apart.
LEMMA AllocateSound ==
  ASSUME NEW h \in Heaps, NEW size \in 1..MCOUNT_SLAB_INCREMENT, ~Failed(h) => Sound(h)
  PROVE  /\ mcount_allocate(h, size) \in Heaps
         /\ h.blocks \subseteq mcount_allocate(h, size).blocks
         /\ ~Failed(mcount_allocate(h, size)) => Sound(mcount_allocate(h, size))
<1> DEFINE s == sbrk(h.end, MCOUNT_SLAB_INCREMENT)
           new == size > h.left
           data == IF new THEN s.block ELSE h.ptr
           g == mcount_allocate(h, size)
           block == [at |-> data, size |-> size]
<1>0. /\ h.end \in Nat /\ h.ptr \in Int /\ h.left \in Nat
      /\ h.blocks \subseteq [at : Int, size : Nat]
  BY DEF Heaps
<1>1. /\ s.end \in Nat /\ s.block \in Int
      /\ \/ s.block = -1
         \/ h.end <= s.block /\ s.end = s.block + MCOUNT_SLAB_INCREMENT /\ s.end <= heap_limit
  BY <1>0, SbrkBlock
<1> HIDE DEF s
<1>2. g = [end |-> IF new THEN s.end ELSE h.end, ptr |-> data + size,
           left |-> (IF new THEN MCOUNT_SLAB_INCREMENT ELSE h.left) - size,
           blocks |-> h.blocks \cup {block}]
  BY DEF mcount_allocate, s
<1>3. data \in Int /\ block \in [at : Int, size : Nat] /\ block.at = data /\ block.size = size
  BY <1>0, <1>1
<1>4. /\ g.end = IF new THEN s.end ELSE h.end
      /\ g.ptr = data + size
      /\ g.left = (IF new THEN MCOUNT_SLAB_INCREMENT ELSE h.left) - size
      /\ g.blocks = h.blocks \cup {block}
  BY <1>2
<1>5. g \in Heaps
  BY <1>0, <1>1, <1>2, <1>3 DEF Heaps
<1> HIDE DEF g, block
<1>6. ASSUME ~Failed(g) PROVE Sound(g)
  <2>1. ~Failed(h) /\ Sound(h) /\ data >= heap_start
    BY <1>3, <1>4, <1>6 DEF Failed
  <2>2. CASE new
    <3>1. /\ data = s.block /\ g.end = s.end /\ h.end <= data
          /\ s.end = data + MCOUNT_SLAB_INCREMENT /\ s.end <= heap_limit
          /\ g.ptr = data + size /\ g.left = MCOUNT_SLAB_INCREMENT - size
      BY <1>1, <1>4, <2>1, <2>2
    <3>2. \A b \in h.blocks : b.at \in Int /\ b.size \in Nat
                              /\ heap_start <= b.at /\ b.at + b.size <= h.end
      BY <1>0, <2>1 DEF Sound
    <3>3. heap_start <= g.end /\ g.end <= heap_limit
      BY <1>0, <1>1, <1>3, <2>1, <3>1 DEF Sound
    <3>4. \A b \in g.blocks : heap_start <= b.at /\ b.at + b.size <= g.end
      BY <1>0, <1>3, <1>4, <2>1, <3>1, <3>2
    <3>5. \A b, c \in g.blocks : b # c => Apart(b.at, b.size, c)
      BY <1>0, <1>3, <1>4, <2>1, <3>1, <3>2 DEF Sound, Apart
    <3>6. /\ heap_start <= g.ptr /\ g.ptr + g.left <= g.end
          /\ \A b \in g.blocks : Apart(g.ptr, g.left, b)
      BY <1>0, <1>3, <1>4, <2>1, <3>1, <3>2 DEF Apart
    <3> QED BY <3>3, <3>4, <3>5, <3>6 DEF Sound
  <2>3. CASE ~new
    <3>1. /\ data = h.ptr /\ g.end = h.end /\ h.left >= size /\ h.left > 0
          /\ g.ptr = data + size /\ g.left = h.left - size
      BY <1>0, <1>4, <2>3
    <3>2. \A b \in h.blocks : /\ b.at \in Int /\ b.size \in Nat
                              /\ heap_start <= b.at /\ b.at + b.size <= h.end
                              /\ Apart(h.ptr, h.left, b)
      BY <1>0, <2>1, <3>1 DEF Sound
    <3>3. heap_start <= g.end /\ g.end <= heap_limit /\ h.ptr + h.left <= h.end
      BY <2>1, <3>1 DEF Sound
    <3>4. \A b \in g.blocks : heap_start <= b.at /\ b.at + b.size <= g.end
      BY <1>0, <1>3, <1>4, <2>1, <3>1, <3>2, <3>3
    <3>5. \A b, c \in g.blocks : b # c => Apart(b.at, b.size, c)
      BY <1>0, <1>3, <1>4, <2>1, <3>1, <3>2 DEF Sound, Apart
    <3>6. /\ heap_start <= g.ptr /\ g.ptr + g.left <= g.end
          /\ \A b \in g.blocks : Apart(g.ptr, g.left, b)
      BY <1>0, <1>3, <1>4, <2>1, <3>1, <3>2, <3>3 DEF Apart
    <3> QED BY <3>3, <3>4, <3>5, <3>6 DEF Sound
  <2> QED BY <2>2, <2>3
<1>7. h.blocks \subseteq g.blocks
  BY <1>4
<1> QED BY <1>5, <1>6, <1>7 DEF g

\* The histogram is a block beyond the end, and the slab stays as it is.
LEMMA HistogramSound ==
  ASSUME NEW h \in Heaps, ~Failed(h) => Sound(h)
  PROVE  /\ histogram(h) \in Heaps
         /\ h.blocks \subseteq histogram(h).blocks
         /\ \E b \in histogram(h).blocks :
               b.at = sbrk(h.end, buckets * 2).block /\ b.size = 2 * buckets
         /\ ~Failed(histogram(h)) => Sound(histogram(h))
<1> DEFINE size == buckets * 2
           s == sbrk(h.end, size)
           g == histogram(h)
           block == [at |-> s.block, size |-> size]
<1>0. /\ h.end \in Nat /\ h.ptr \in Int /\ h.left \in Nat
      /\ h.blocks \subseteq [at : Int, size : Nat]
  BY DEF Heaps
<1>1. size \in Nat /\ size = 2 * buckets
  BY DEF buckets
<1> HIDE DEF size
<1>2. /\ s.end \in Nat /\ s.block \in Int
      /\ \/ s.block = -1
         \/ h.end <= s.block /\ s.end = s.block + size /\ s.end <= heap_limit
  BY <1>0, <1>1, SbrkBlock
<1>3. g = [h EXCEPT !.end = s.end, !.blocks = @ \cup {block}]
  BY DEF histogram, size
<1>4. s.block = sbrk(h.end, buckets * 2).block
  BY DEF size
<1> HIDE DEF s, g
<1>5. block \in [at : Int, size : Nat] /\ block.at = s.block /\ block.size = size
  BY <1>1, <1>2
<1> HIDE DEF block
<1>6. /\ g.end = s.end /\ g.ptr = h.ptr /\ g.left = h.left
      /\ g.blocks = h.blocks \cup {block} /\ g \in Heaps
  BY <1>0, <1>2, <1>3, <1>5 DEF Heaps
<1>7. ASSUME ~Failed(g) PROVE Sound(g)
  <2>1. ~Failed(h) /\ Sound(h) /\ s.block >= heap_start
    BY <1>5, <1>6, <1>7 DEF Failed
  <2>2. h.end <= s.block /\ s.end = s.block + size /\ s.end <= heap_limit
    BY <1>2, <2>1
  <2>3. \A b \in h.blocks : b.at \in Int /\ b.size \in Nat
                            /\ heap_start <= b.at /\ b.at + b.size <= h.end
    BY <1>0, <2>1 DEF Sound
  <2>4. heap_start <= g.end /\ g.end <= heap_limit
    BY <1>0, <1>1, <1>2, <1>6, <2>1, <2>2 DEF Sound
  <2>5. \A b \in g.blocks : heap_start <= b.at /\ b.at + b.size <= g.end
    BY <1>0, <1>1, <1>2, <1>5, <1>6, <2>1, <2>2, <2>3
  <2>6. \A b, c \in g.blocks : b # c => Apart(b.at, b.size, c)
    BY <1>0, <1>1, <1>2, <1>5, <1>6, <2>1, <2>2, <2>3 DEF Sound, Apart
  <2>7. g.left > 0 => /\ heap_start <= g.ptr /\ g.ptr + g.left <= g.end
                      /\ \A b \in g.blocks : Apart(g.ptr, g.left, b)
    BY <1>0, <1>1, <1>2, <1>5, <1>6, <2>1, <2>2, <2>3 DEF Sound, Apart
  <2> QED BY <2>4, <2>5, <2>6, <2>7 DEF Sound
<1>8. \E b \in g.blocks : b.at = s.block /\ b.size = 2 * buckets
  BY <1>1, <1>5, <1>6
<1>9. h.blocks \subseteq g.blocks
  BY <1>6
<1> QED BY <1>4, <1>6, <1>7, <1>8, <1>9 DEF g

\* A step that stores a sound heap.
LEMMA StoreSound ==
  ASSUME NEW h \in Heaps, ~Failed(h) => Sound(h), SetHeap(h)
  PROVE  HeapOK' /\ taken' = h.blocks
<1>1. h0' = h
  BY DEF h0, SetHeap, Heaps
<1>2. HeapOK' <=> h0' \in Heaps /\ (~Failed(h0') => Sound(h0'))
  BY DEF HeapOK, Failed, Sound, Apart
<1> QED BY <1>1, <1>2 DEF SetHeap

\* The second half of __mcount_record, on a sound heap.
LEMMA RecordSound ==
  ASSUME NEW h \in Heaps, ~Failed(h) => Sound(h), NEW s, NEW f, NEW e, record(h, s, f, e)
  PROVE  HeapOK' /\ h.blocks \subseteq taken'
<1> DEFINE g == IF e = 0 THEN mcount_allocate(h, entrySize) ELSE h
           k == mcount_allocate(g, arcSize)
<1>1. g \in Heaps /\ h.blocks \subseteq g.blocks /\ (~Failed(g) => Sound(g))
  BY AllocateSound
<1>2. SetHeap(k)
  BY DEF record
<1> HIDE DEF g
<1>3. k \in Heaps /\ g.blocks \subseteq k.blocks /\ (~Failed(k) => Sound(k))
  BY <1>1, AllocateSound
<1> HIDE DEF k
<1>4. HeapOK' /\ taken' = k.blocks
  BY <1>2, <1>3, StoreSound
<1> QED BY <1>1, <1>3, <1>4

-----------------------------------------------------------------------------
\* The invariant holds before the first call,
LEMMA InvInit == Init => GmonInv
<1> SUFFICES ASSUME Init PROVE GmonInv
  OBVIOUS
<1>1. StateOK
  <2>1. started \in Nat /\ s_pcsamples \in Int
    BY DEF Init
  <2>2. need_init \in BOOLEAN /\ clock \in BOOLEAN /\ raced \in BOOLEAN
    BY DEF Init
  <2> QED BY <2>1, <2>2 DEF StateOK
<1>5. OnceOK
  BY DEF Init, OnceOK
<1>2. h0 = [end |-> heap_start, ptr |-> 0, left |-> 0, blocks |-> {}]
  BY DEF Init, h0
<1>3. HeapOK
  BY <1>2 DEF HeapOK, Heaps, Sound
<1>4. HistogramOK
  BY DEF Init, HistogramOK, SampleInHistogram
<1> QED BY <1>1, <1>3, <1>4, <1>5 DEF GmonInv

\* Nothing is ever taken back, so what was counted stays in the histogram.
LEMMA KeepHistogram ==
  ASSUME HistogramOK, taken \subseteq taken', UNCHANGED <<started, s_pcsamples, sampled>>
  PROVE  HistogramOK'
<1>1. started' > 0 => \E b \in taken' : b.at = s_pcsamples' /\ b.size = 2 * buckets
  BY DEF HistogramOK
<1>2. SampleInHistogram'
  BY DEF HistogramOK, SampleInHistogram
<1> QED BY <1>1, <1>2 DEF HistogramOK

\* A step that leaves the heap and the sampler alone.
LEMMA SameHeap ==
  ASSUME GmonInv, UNCHANGED heap
  PROVE  HeapOK' /\ taken \subseteq taken'
<1>1. h0' = h0
  BY DEF heap, h0
<1> QED BY <1>1 DEF GmonInv, HeapOK, heap, Failed, Sound, Apart

\* The sampler is started, if there is a clock: the heap h, before any other
\* block is taken from it, is sound and holds the histogram.
LEMMA SamplerStarts ==
  ASSUME GmonInv, NEW h \in {h0, histogram(h0)}, nios2_pcsample_init(h)
  PROVE  /\ h \in Heaps /\ (~Failed(h) => Sound(h)) /\ taken \subseteq h.blocks
         /\ started' \in Nat /\ s_pcsamples' \in Int /\ need_init' \in BOOLEAN
         /\ UNCHANGED clock
         /\ started' = started \/ (started' = started + 1 /\ ~need_init')
         /\ started' > 0 => \E b \in h.blocks : b.at = s_pcsamples' /\ b.size = 2 * buckets
<1>0. h0 \in Heaps /\ (~Failed(h0) => Sound(h0)) /\ heap_end \in Nat /\ h0.end = heap_end
      /\ h0.blocks = taken /\ StateOK /\ HistogramOK
  BY DEF GmonInv, HeapOK, h0, Heaps
<1>1. need_init' = ~clock /\ UNCHANGED clock
  BY DEF nios2_pcsample_init
<1>2. CASE clock
  <2>1. /\ h = histogram(h0) /\ started' = started + 1
        /\ s_pcsamples' = sbrk(h0.end, buckets * 2).block
    BY <1>0, <1>2 DEF nios2_pcsample_init
  <2>2. /\ h \in Heaps /\ (~Failed(h) => Sound(h)) /\ taken \subseteq h.blocks
        /\ \E b \in h.blocks : b.at = s_pcsamples' /\ b.size = 2 * buckets
    BY <1>0, <2>1, HistogramSound
  <2>3. s_pcsamples' \in Int
    BY <2>2 DEF Heaps
  <2>4. started' \in Nat
    BY <1>0, <2>1 DEF StateOK
  <2> QED BY <1>1, <1>2, <2>1, <2>2, <2>3, <2>4
<1>3. CASE ~clock
  <2>1. h = h0 /\ UNCHANGED <<s_pcsamples, started>>
    BY <1>3 DEF nios2_pcsample_init
  <2> QED BY <1>0, <1>1, <1>3, <2>1 DEF StateOK, HistogramOK
<1> QED BY <1>0, <1>2, <1>3 DEF StateOK

\* What the step of a handler does, once it is known which arc it counts.
LEMMA StepInterrupt ==
  ASSUME GmonInv, NEW s \in Function, NEW f \in Caller, Interrupt(s, f)
  PROVE  GmonInv'
<1> DEFINE e == entryOf(s)
           known == e # 0 /\ arcOf(e, f) # {}
<1>0. /\ StateOK /\ HeapOK /\ HistogramOK /\ OnceOK
      /\ h0 \in Heaps /\ (~Failed(h0) => Sound(h0)) /\ h0.blocks = taken
  BY DEF GmonInv, HeapOK, h0
<1>1. /\ raced' = (raced \/ (pc = "claim" /\ started' > started))
      /\ UNCHANGED <<regs, sampled>>
  BY DEF Interrupt
<1>2. raced' \in BOOLEAN /\ pc' = pc
  BY <1>0, <1>1 DEF StateOK, regs
<1>3. CASE UNCHANGED sampler /\ HeapOK' /\ taken \subseteq taken'
  <2>1. UNCHANGED <<need_init, s_pcsamples, clock, started>>
    BY <1>3 DEF sampler
  <2>2. raced' = raced
    BY <1>0, <1>1, <2>1 DEF StateOK
  <2>3. StateOK' /\ OnceOK'
    BY <1>0, <1>2, <2>1, <2>2 DEF StateOK, OnceOK
  <2>4. HistogramOK'
    BY <1>0, <1>1, <1>3, <2>1, KeepHistogram
  <2> QED BY <1>3, <2>3, <2>4 DEF GmonInv
<1>4. CASE known
  <2>1. UNCHANGED <<heap, sampler>>
    BY <1>4 DEF Interrupt
  <2> QED BY <1>3, <2>1, SameHeap
<1>5. CASE ~known /\ ~need_init
  <2>1. record(h0, s, f, e) /\ UNCHANGED sampler
    BY <1>5 DEF Interrupt
  <2> HIDE DEF e
  <2>2. HeapOK' /\ taken \subseteq taken'
    BY <1>0, <2>1, RecordSound
  <2> QED BY <1>3, <2>1, <2>2
<1>6. CASE ~known /\ need_init
  <2>1. PICK h \in {h0, histogram(h0)} : nios2_pcsample_init(h) /\ record(h, s, f, e)
    BY <1>6 DEF Interrupt
  <2> HIDE DEF e
  <2>2. /\ h \in Heaps /\ (~Failed(h) => Sound(h)) /\ taken \subseteq h.blocks
        /\ started' \in Nat /\ s_pcsamples' \in Int /\ need_init' \in BOOLEAN
        /\ UNCHANGED clock
        /\ started' = started \/ (started' = started + 1 /\ ~need_init')
        /\ started' > 0 => \E b \in h.blocks : b.at = s_pcsamples' /\ b.size = 2 * buckets
    BY <2>1, SamplerStarts
  <2>3. HeapOK' /\ h.blocks \subseteq taken'
    BY <2>1, <2>2, RecordSound
  <2>4. StateOK'
    BY <1>0, <1>2, <2>2 DEF StateOK
  <2>5. HistogramOK'
    BY <1>0, <1>1, <2>2, <2>3 DEF HistogramOK, SampleInHistogram
  <2>6. OnceOK'
    <3>1. pc # "start"
      BY <1>0, <1>6 DEF OnceOK
    <3>2. ASSUME ~raced' PROVE started' = 0 \/ (started' = 1 /\ ~need_init' /\ pc \notin {"claim", "start"})
      <4>1. ~raced /\ ~(pc = "claim" /\ started' > started)
        BY <1>1, <3>2
      <4>2. started = 0
        BY <1>0, <1>6, <4>1 DEF OnceOK
      <4> QED BY <2>2, <3>1, <4>1, <4>2
    <3> QED BY <1>2, <3>1, <3>2 DEF OnceOK
  <2> QED BY <2>3, <2>4, <2>5, <2>6 DEF GmonInv
<1> QED BY <1>4, <1>5, <1>6

\* The steps of the program: only the start of the sampler and the recording of
\* an arc touch the heap, and only the claim of the flag the sampler besides.
LEMMA StepProgram ==
  ASSUME GmonInv, \/ \E s \in Function, f \in Caller : Mcount(s, f)
                  \/ FoundLoad \/ FoundStore \/ Test \/ Claim \/ StartSampler \/ Record
  PROVE  GmonInv'
<1>0. /\ StateOK /\ HeapOK /\ HistogramOK /\ OnceOK
      /\ h0 \in Heaps /\ (~Failed(h0) => Sound(h0)) /\ h0.blocks = taken
  BY DEF GmonInv, HeapOK, h0
<1>1. UNCHANGED <<sampled, raced, clock>>
  BY DEF Mcount, FoundLoad, FoundStore, Test, Claim, StartSampler, Record, goto, past, sampler,
         nios2_pcsample_init
<1>2. CASE UNCHANGED sampler /\ HeapOK' /\ taken \subseteq taken' /\ pc' \notin {"start", "claim"}
  <2>1. UNCHANGED <<need_init, s_pcsamples, clock, started>>
    BY <1>2 DEF sampler
  <2>2. StateOK' /\ OnceOK'
    BY <1>0, <1>1, <1>2, <2>1 DEF StateOK, OnceOK
  <2>3. HistogramOK'
    BY <1>0, <1>1, <1>2, <2>1, KeepHistogram
  <2> QED BY <1>2, <2>2, <2>3 DEF GmonInv
<1>3. ASSUME NEW s \in Function, NEW f \in Caller, Mcount(s, f) PROVE GmonInv'
  BY <1>2, <1>3, SameHeap DEF Mcount
<1>4. CASE FoundLoad \/ FoundStore
  BY <1>2, <1>4, SameHeap DEF FoundLoad, FoundStore, goto
<1>5. CASE Test
  <2>1. /\ pc' = IF need_init THEN "claim" ELSE "record"
        /\ UNCHANGED <<heap, sampler, raced>>
    BY <1>5 DEF Test, goto, past
  <2>2. CASE need_init
    <3>1. UNCHANGED <<need_init, s_pcsamples, clock, started>>
      BY <2>1 DEF sampler
    <3>2. StateOK'
      BY <1>0, <2>1, <3>1 DEF StateOK
    <3>3. OnceOK'
      BY <1>0, <2>1, <2>2, <3>1 DEF OnceOK
    <3>4. HeapOK' /\ HistogramOK'
      BY <1>0, <1>1, <2>1, <3>1, SameHeap, KeepHistogram
    <3> QED BY <3>2, <3>3, <3>4 DEF GmonInv
  <2>3. CASE ~need_init
    BY <1>2, <2>1, <2>3, SameHeap
  <2> QED BY <2>2, <2>3
<1>6. CASE Claim
  <2>1. /\ pc = "claim" /\ pc' = "start" /\ need_init' = FALSE
        /\ UNCHANGED <<heap, s_pcsamples, started, raced>>
    BY <1>6 DEF Claim, goto, past
  <2>2. need_init' \in BOOLEAN /\ ~need_init'
    BY <2>1
  <2>3. StateOK'
    BY <1>0, <1>1, <2>1, <2>2 DEF StateOK
  <2>4. OnceOK'
    BY <1>0, <2>1, <2>2 DEF OnceOK, StateOK
  <2>5. HeapOK' /\ HistogramOK'
    BY <1>0, <1>1, <2>1, SameHeap, KeepHistogram
  <2> QED BY <2>3, <2>4, <2>5 DEF GmonInv
<1>7. CASE StartSampler
  <2>1. PICK h \in {h0, histogram(h0)} : nios2_pcsample_init(h) /\ SetHeap(h)
    BY <1>7 DEF StartSampler
  <2>2. /\ h \in Heaps /\ (~Failed(h) => Sound(h)) /\ taken \subseteq h.blocks
        /\ started' \in Nat /\ s_pcsamples' \in Int /\ need_init' \in BOOLEAN
        /\ started' = started \/ (started' = started + 1 /\ ~need_init')
        /\ started' > 0 => \E b \in h.blocks : b.at = s_pcsamples' /\ b.size = 2 * buckets
    BY <2>1, SamplerStarts
  <2>3. HeapOK' /\ taken' = h.blocks
    BY <2>1, <2>2, StoreSound
  <2>4. pc = "start" /\ pc' = "record"
    BY <1>7 DEF StartSampler, goto
  <2>5. StateOK'
    BY <1>0, <1>1, <2>2 DEF StateOK
  <2>6. OnceOK'
    BY <1>0, <1>1, <2>2, <2>4 DEF OnceOK
  <2>7. HistogramOK'
    BY <1>0, <1>1, <2>2, <2>3 DEF HistogramOK, SampleInHistogram
  <2> QED BY <2>3, <2>5, <2>6, <2>7 DEF GmonInv
<1>8. CASE Record
  <2>1. record(h0, self, from, entry) /\ UNCHANGED sampler /\ pc' = "out"
    BY <1>8 DEF Record, goto
  <2>2. HeapOK' /\ taken \subseteq taken'
    BY <1>0, <2>1, RecordSound
  <2> QED BY <1>2, <2>1, <2>2
<1> QED BY <1>3, <1>4, <1>5, <1>6, <1>7, <1>8

\* The alarm of the sampler: the bucket of an address that has a whole one is
\* inside the block of the histogram.
LEMMA StepSample ==
  ASSUME GmonInv, NEW addr \in 0..(textSize - 1), Sample(addr)
  PROVE  GmonInv'
<1>0. StateOK /\ HeapOK /\ HistogramOK /\ OnceOK
  BY DEF GmonInv
<1>1. /\ started > 0 /\ sampled' = [at |-> s_pcsamples + 2 * (addr \div 32), bucket |-> addr \div 32]
      /\ UNCHANGED <<heap, taken, need_init, s_pcsamples, clock, started, pc, raced>>
  BY DEF Sample, heap, sampler, regs, past
<1>2. HeapOK' /\ StateOK' /\ OnceOK'
  BY <1>0, <1>1, SameHeap DEF StateOK, OnceOK
<1>3. PICK b \in taken : b.at = s_pcsamples /\ b.size = 2 * buckets
  BY <1>0, <1>1 DEF HistogramOK
<1>4. addr \div 32 \in Nat /\ buckets \in Nat
  BY DEF buckets
<1>5. SampleInHistogram'
  BY <1>0, <1>1, <1>3, <1>4 DEF SampleInHistogram, StateOK
<1>6. HistogramOK'
  BY <1>0, <1>1, <1>5 DEF HistogramOK
<1> QED BY <1>2, <1>6 DEF GmonInv

\* and every step of the program, a handler, the alarm and the clock keeps it.
LEMMA InvStep == GmonInv /\ [Next]_vars => GmonInv'
<1> SUFFICES ASSUME GmonInv, [Next]_vars PROVE GmonInv'
  OBVIOUS
<1>1. CASE ClockStarts
  <2>1. /\ clock' = TRUE
        /\ UNCHANGED <<heap, need_init, s_pcsamples, started, pc, raced, sampled>>
    BY <1>1 DEF ClockStarts, regs, past
  <2> QED BY <2>1, SameHeap, KeepHistogram DEF GmonInv, StateOK, OnceOK
<1>2. CASE UNCHANGED vars
  <2>1. UNCHANGED <<heap, need_init, s_pcsamples, clock, started, pc, raced, sampled>>
    BY <1>2 DEF vars, sampler, regs, past
  <2> QED BY <2>1, SameHeap, KeepHistogram DEF GmonInv, StateOK, OnceOK
<1> QED BY <1>1, <1>2, StepInterrupt, StepProgram, StepSample DEF Next

-----------------------------------------------------------------------------
\* Until the heap is exhausted the blocks are in it and apart, and the samples of
\* whole buckets are counted in the histogram (alt_gmon.c:133-148, 259-267).
THEOREM HeapCorrect == Spec => []BlocksApart
<1>1. GmonInv => BlocksApart
  <2> SUFFICES ASSUME GmonInv, ~failed PROVE BlocksApart
    BY DEF BlocksApart
  <2>1. h0.blocks = taken /\ h0.end = heap_end
    BY DEF h0
  <2>2. Sound(h0)
    BY <2>1 DEF GmonInv, HeapOK, Failed, failed
  <2> QED BY <2>1, <2>2 DEF GmonInv, Sound, Apart, HistogramOK, BlocksApart
<1> QED BY <1>1, InvInit, InvStep, PTL DEF Spec

\* One sampler, unless a handler calls between the test of the flag and its
\* reset (alt_gmon.c:164-171).
THEOREM SamplerOnce == Spec => []OneSampler
<1>1. GmonInv => OneSampler
  BY DEF GmonInv, StateOK, OnceOK, OneSampler
<1> QED BY <1>1, InvInit, InvStep, PTL DEF Spec

-----------------------------------------------------------------------------
\* The lists of functions and of their arcs.
Arc == [from_pc : Caller, count : Nat]
Fn == [self_pc : Function, arcs : Seq(Arc)]

\* The arcs of an entry, and the marks, of any list of functions.
ArcsIn(list, e) == list[Len(list) + 1 - e].arcs

Marked(list, e, p, n) ==
    /\ e \in 1..Len(list) /\ p \in 1..Len(ArcsIn(list, e))
    /\ n \in 1..ArcsIn(list, e)[Len(ArcsIn(list, e)) + 1 - p].count

Marks(list) ==
    UNION {UNION {{<<e, Len(ArcsIn(list, e)) + 1 - a, n>> : n \in 1..ArcsIn(list, e)[a].count} :
                    a \in DOMAIN ArcsIn(list, e)} : e \in DOMAIN list}

\* The first place in a list where an arc is counted.
Hits(list, f) == {i \in DOMAIN list : list[i].from_pc = f}

\* What mcount knows of the list between its instructions: the entry it found is
\* there, and nobody but an overlapping handler changes the count it has loaded.
FoundOK ==
    /\ pc \in {"out", "found", "store", "test", "claim", "start", "record"}
    /\ count \in Nat
    /\ pc # "out" => self \in Function /\ from \in Caller /\ entry \in 0..Len(fn_head)
    /\ pc \in {"found", "store"} =>
         /\ entry # 0 /\ fn_head[Len(fn_head) + 1 - entry].self_pc = self
         /\ arcOf(entry, from) # {}
    /\ pc = "store" /\ ~overlapped => count = arcs(entry)[least(arcOf(entry, from))].count

\* Every call but the one mcount is busy with has its mark.
MarksOK ==
    ~overlapped => /\ IsFiniteSet(marks)
                   /\ counted + (IF pc = "out" THEN 0 ELSE 1) = made

CountInv ==
    /\ fn_head \in Seq(Fn) /\ made \in Nat /\ overlapped \in BOOLEAN
    /\ FoundOK /\ MarksOK

\* The first of a set of places.
LEMMA LeastIn ==
  ASSUME NEW S, S \subseteq Nat, S # {}
  PROVE  least(S) \in S /\ \A j \in S : least(S) <= j
<1> DEFINE R == {ss \in Nat \X Nat : ss[1] < ss[2]}
<1>1. IsWellFoundedOn(R, Nat)
  BY NatLessThanWellFounded DEF OpToRel
<1> HIDE DEF R
<1>2. PICK x \in S : \A y \in S : ~ (<<y, x>> \in R)
  BY <1>1, WFMin
<1>3. \A y \in S : ~ (y < x)
  BY <1>2 DEF R
<1>4. \A j \in S : x <= j
  BY <1>3
<1> QED BY <1>4 DEF least

\* A place before all the others is the first.
LEMMA LeastIs ==
  ASSUME NEW S, S \subseteq Nat, NEW i \in S, \A j \in S : i <= j
  PROVE  least(S) = i
<1>1. least(S) \in S /\ \A j \in S : least(S) <= j
  BY LeastIn
<1>2. least(S) \in Nat /\ i \in Nat /\ least(S) <= i /\ i <= least(S)
  BY <1>1
<1> QED BY <1>2

\* The marks, by entry, place and number.
LEMMA InMarks ==
  ASSUME NEW list \in Seq(Fn)
  PROVE  /\ \A t \in Marks(list) : \E e, p, n \in Nat : t = <<e, p, n>> /\ Marked(list, e, p, n)
         /\ \A e, p, n \in Nat : Marked(list, e, p, n) => <<e, p, n>> \in Marks(list)
         /\ \A e, p, n \in Nat : <<e, p, n>> \in Marks(list) => Marked(list, e, p, n)
<1>0. /\ DOMAIN list = 1..Len(list)
      /\ \A e \in 1..Len(list) : /\ ArcsIn(list, e) \in Seq(Arc)
                                 /\ DOMAIN ArcsIn(list, e) = 1..Len(ArcsIn(list, e))
  <2>1. \A e \in 1..Len(list) : Len(list) + 1 - e \in 1..Len(list)
    OBVIOUS
  <2>2. \A e \in 1..Len(list) : list[Len(list) + 1 - e] \in Fn
    BY <2>1
  <2> QED BY <2>2 DEF ArcsIn, Fn
<1> DEFINE Cell(e, a) == {<<e, Len(ArcsIn(list, e)) + 1 - a, n>> : n \in 1..ArcsIn(list, e)[a].count}
           Row(e) == UNION {Cell(e, a) : a \in DOMAIN ArcsIn(list, e)}
<1>4. Marks(list) = UNION {Row(e) : e \in DOMAIN list}
  BY DEF Marks
<1>5. \A t : t \in Marks(list) <=> \E e \in DOMAIN list : t \in Row(e)
  <2> HIDE DEF Row
  <2> QED BY <1>4
<1>6. \A e, t : t \in Row(e) <=> \E a \in DOMAIN ArcsIn(list, e) : t \in Cell(e, a)
  <2> HIDE DEF Cell
  <2> QED OBVIOUS
<1> HIDE DEF Row
<1>1. ASSUME NEW t \in Marks(list)
      PROVE  \E e, p, n \in Nat : t = <<e, p, n>> /\ Marked(list, e, p, n)
  <2> HIDE DEF Cell
  <2>0. PICK e \in 1..Len(list) : t \in Row(e)
    BY <1>0, <1>1, <1>5
  <2>1. PICK a \in 1..Len(ArcsIn(list, e)) : t \in Cell(e, a)
    <3>1. PICK a \in DOMAIN ArcsIn(list, e) : t \in Cell(e, a)
      BY <1>6, <2>0
    <3>2. DOMAIN ArcsIn(list, e) = 1..Len(ArcsIn(list, e))
      BY <1>0
    <3> QED BY <3>1, <3>2
  <2>4. PICK n \in 1..ArcsIn(list, e)[a].count : t = <<e, Len(ArcsIn(list, e)) + 1 - a, n>>
    BY <2>1 DEF Cell
  <2> DEFINE p == Len(ArcsIn(list, e)) + 1 - a
  <2>2. /\ e \in Nat /\ p \in Nat /\ n \in Nat /\ p \in 1..Len(ArcsIn(list, e))
        /\ Len(ArcsIn(list, e)) + 1 - p = a
    <3>1. ArcsIn(list, e) \in Seq(Arc)
      BY <1>0
    <3>2. ArcsIn(list, e)[a] \in Arc
      BY <3>1
    <3>3. ArcsIn(list, e)[a].count \in Nat
      BY <3>2 DEF Arc
    <3> QED BY <3>1, <3>3
  <2>3. Marked(list, e, p, n)
    BY <2>2 DEF Marked
  <2> QED BY <2>2, <2>3, <2>4
<1>2. ASSUME NEW e \in Nat, NEW p \in Nat, NEW n \in Nat, Marked(list, e, p, n)
      PROVE  <<e, p, n>> \in Marks(list)
  <2> DEFINE a == Len(ArcsIn(list, e)) + 1 - p
  <2>1. /\ e \in 1..Len(list) /\ a \in 1..Len(ArcsIn(list, e))
        /\ p = Len(ArcsIn(list, e)) + 1 - a
    BY <1>0, <1>2 DEF Marked
  <2>2. n \in 1..ArcsIn(list, e)[a].count
    BY <1>2 DEF Marked
  <2>3. <<e, p, n>> \in Cell(e, a)
    BY <2>1, <2>2
  <2> HIDE DEF a, Cell
  <2>4. a \in DOMAIN ArcsIn(list, e)
    BY <1>0, <2>1
  <2>5. <<e, p, n>> \in Row(e)
    BY <1>6, <2>3, <2>4
  <2>6. e \in DOMAIN list
    BY <1>0, <2>1
  <2> QED BY <1>5, <2>5, <2>6
<1>3. ASSUME NEW e \in Nat, NEW p \in Nat, NEW n \in Nat, <<e, p, n>> \in Marks(list)
      PROVE  Marked(list, e, p, n)
  <2>1. PICK f, q, m \in Nat : <<e, p, n>> = <<f, q, m>> /\ Marked(list, f, q, m)
    BY <1>1, <1>3
  <2> QED BY <2>1
<1> QED BY <1>1, <1>2, <1>3

\* A list with one more mark.
MarkAdded(old, list, e, p, n) ==
    /\ ~Marked(old, e, p, n)
    /\ \A f, q, m \in Nat : Marked(list, f, q, m)
         <=> Marked(old, f, q, m) \/ (f = e /\ q = p /\ m = n)

\* The marks are then one more.
LEMMA OneMore ==
  ASSUME NEW old \in Seq(Fn), NEW list \in Seq(Fn),
         NEW e \in Nat, NEW p \in Nat, NEW n \in Nat,
         MarkAdded(old, list, e, p, n), IsFiniteSet(Marks(old))
  PROVE  IsFiniteSet(Marks(list)) /\ Cardinality(Marks(list)) = Cardinality(Marks(old)) + 1
<1>1. Marks(list) \subseteq Marks(old) \cup {<<e, p, n>>}
  BY InMarks, SMTT(60) DEF MarkAdded
<1>2. Marks(old) \cup {<<e, p, n>>} \subseteq Marks(list)
  <2>1. <<e, p, n>> \in Marks(list)
    BY InMarks DEF MarkAdded
  <2>2. Marks(old) \subseteq Marks(list)
    BY InMarks, SMTT(60) DEF MarkAdded
  <2> QED BY <2>1, <2>2
<1>3. Marks(list) = Marks(old) \cup {<<e, p, n>>}
  BY <1>1, <1>2
<1>4. <<e, p, n>> \notin Marks(old)
  BY InMarks DEF MarkAdded
<1> QED BY <1>3, <1>4, FS_AddElement

-----------------------------------------------------------------------------
\* An entry of a list, by its number from the end.
LEMMA ArcsType ==
  ASSUME NEW list \in Seq(Fn), NEW e \in 1..Len(list)
  PROVE  /\ Len(list) + 1 - e \in 1..Len(list) /\ list[Len(list) + 1 - e] \in Fn
         /\ ArcsIn(list, e) \in Seq(Arc)
<1>1. Len(list) + 1 - e \in 1..Len(list)
  OBVIOUS
<1>2. list[Len(list) + 1 - e] \in Fn
  BY <1>1
<1> QED BY <1>1, <1>2 DEF ArcsIn, Fn

\* A list with a new entry at its head.
WithEntry(list, s) == <<[self_pc |-> s, arcs |-> <<>>]>> \o list

\* A new entry changes the number of no other one.
LEMMA NewEntry ==
  ASSUME NEW list \in Seq(Fn), NEW s \in Function
  PROVE  LET new == WithEntry(list, s)
         IN  /\ new \in Seq(Fn) /\ Len(new) = Len(list) + 1
             /\ \A e \in 1..Len(list) : new[Len(new) + 1 - e] = list[Len(list) + 1 - e]
             /\ ArcsIn(new, Len(new)) = <<>> /\ new[1].self_pc = s
             /\ Marks(new) = Marks(list)
<1> DEFINE fn == [self_pc |-> s, arcs |-> <<>>]
           new == <<fn>> \o list
<1>1. fn \in Fn /\ fn.arcs = <<>> /\ fn.self_pc = s
  BY DEF Fn
<1> HIDE DEF fn
<1>2. /\ new \in Seq(Fn) /\ Len(new) = Len(list) + 1 /\ new[1] = fn
      /\ \A i \in 1..Len(list) : new[i + 1] = list[i]
  BY <1>1
<1> HIDE DEF new
<1>3. ASSUME NEW e \in 1..Len(list)
      PROVE  new[Len(new) + 1 - e] = list[Len(list) + 1 - e]
  <2>1. Len(list) + 1 - e \in 1..Len(list)
    BY ArcsType
  <2>2. Len(new) + 1 - e = (Len(list) + 1 - e) + 1
    BY <1>2
  <2> QED BY <1>2, <2>1, <2>2
<1>4. ArcsIn(new, Len(new)) = <<>> /\ new[1].self_pc = s
  <2>1. Len(new) + 1 - Len(new) = 1
    BY <1>2
  <2> QED BY <1>1, <1>2, <2>1 DEF ArcsIn
<1>5. \A e, p, n \in Nat : Marked(new, e, p, n) <=> Marked(list, e, p, n)
  <2> TAKE e, p, n \in Nat
  <2>1. CASE e \in 1..Len(list)
    <3>1. ArcsIn(new, e) = ArcsIn(list, e)
      BY <1>3, <2>1 DEF ArcsIn
    <3>2. e \in 1..Len(new)
      BY <1>2, <2>1
    <3> QED BY <2>1, <3>1, <3>2 DEF Marked
  <2>2. CASE e = Len(list) + 1
    <3>1. e = Len(new) /\ Len(ArcsIn(new, e)) = 0 /\ e \notin 1..Len(list)
      BY <1>2, <1>4, <2>2
    <3> QED BY <3>1 DEF Marked
  <2>3. CASE e \notin 1..(Len(list) + 1)
    BY <1>2, <2>3 DEF Marked
  <2> QED BY <2>1, <2>2, <2>3
<1>6. Marks(new) = Marks(list)
  <2>1. Marks(new) \subseteq Marks(list)
    BY <1>2, <1>5, InMarks
  <2>2. Marks(list) \subseteq Marks(new)
    BY <1>2, <1>5, InMarks
  <2> QED BY <2>1, <2>2
<1> QED BY <1>2, <1>3, <1>4, <1>6 DEF new, fn, WithEntry

\* A new arc at the head of an entry leaves the others in their places, and
\* makes one mark.
LEMMA NewArc ==
  ASSUME NEW list \in Seq(Fn), NEW e \in 1..Len(list), NEW f \in Caller
  PROVE  LET new == withArc(list, e, f)
         IN  /\ new \in Seq(Fn) /\ Len(new) = Len(list)
             /\ \A g \in 1..Len(list) :
                  /\ new[Len(new) + 1 - g].self_pc = list[Len(list) + 1 - g].self_pc
                  /\ ArcsIn(new, g) = IF g = e THEN <<[from_pc |-> f, count |-> 1]>> \o ArcsIn(list, e)
                                      ELSE ArcsIn(list, g)
             /\ IsFiniteSet(Marks(list)) =>
                  IsFiniteSet(Marks(new)) /\ Cardinality(Marks(new)) = Cardinality(Marks(list)) + 1
<1> DEFINE arc == [from_pc |-> f, count |-> 1]
           new == withArc(list, e, f)
           i == Len(list) + 1 - e
           xs == ArcsIn(list, e)
           longer == <<arc>> \o xs
<1>1. arc \in Arc /\ arc.count = 1
  BY DEF Arc
<1>2. i \in 1..Len(list) /\ list[i] \in Fn /\ xs \in Seq(Arc) /\ xs = list[i].arcs
  BY ArcsType DEF ArcsIn
<1>3. new = [list EXCEPT ![i] = [list[i] EXCEPT !.arcs = <<arc>> \o xs]]
  BY <1>2 DEF withArc
<1> HIDE DEF arc, i, xs
<1>4. /\ longer \in Seq(Arc) /\ Len(longer) = Len(xs) + 1 /\ longer[1] = arc
      /\ \A a \in 1..Len(xs) : longer[a + 1] = xs[a]
  BY <1>1, <1>2
<1> HIDE DEF longer
<1>5. [list[i] EXCEPT !.arcs = longer] \in Fn
  BY <1>2, <1>4 DEF Fn
<1>6. /\ new \in Seq(Fn) /\ Len(new) = Len(list)
      /\ new[i].self_pc = list[i].self_pc /\ new[i].arcs = longer
      /\ \A j \in 1..Len(list) : j # i => new[j] = list[j]
  <2>1. new = [list EXCEPT ![i] = [list[i] EXCEPT !.arcs = longer]]
    BY <1>3 DEF longer
  <2>2. list[i] \in [self_pc : Function, arcs : Seq(Arc)]
    BY <1>2 DEF Fn
  <2> HIDE DEF new
  <2> QED BY <1>2, <1>5, <2>1, <2>2
<1> HIDE DEF new
<1>7. ASSUME NEW g \in 1..Len(list)
      PROVE  /\ new[Len(new) + 1 - g].self_pc = list[Len(list) + 1 - g].self_pc
             /\ ArcsIn(new, g) = IF g = e THEN longer ELSE ArcsIn(list, g)
  <2>1. Len(list) + 1 - g \in 1..Len(list) /\ (g # e => Len(list) + 1 - g # i)
    BY DEF i
  <2> QED BY <1>6, <2>1 DEF ArcsIn, i
<1>8. ASSUME IsFiniteSet(Marks(list))
      PROVE  IsFiniteSet(Marks(new)) /\ Cardinality(Marks(new)) = Cardinality(Marks(list)) + 1
  <2> DEFINE top == Len(xs) + 1
  <2>1. top \in Nat /\ ~Marked(list, e, top, 1)
    BY <1>2 DEF Marked, xs
  <2>2. ASSUME NEW g \in Nat, NEW q \in Nat, NEW m \in Nat
        PROVE  Marked(new, g, q, m) <=> Marked(list, g, q, m) \/ (g = e /\ q = top /\ m = 1)
    <3>1. CASE g # e
      BY <1>6, <1>7, <3>1 DEF Marked
    <3>2. CASE g = e
      <4>1. ArcsIn(new, g) = longer /\ ArcsIn(list, g) = xs /\ g \in 1..Len(list) /\ g \in 1..Len(new)
        BY <1>6, <1>7, <3>2 DEF xs
      <4>2. /\ Marked(new, g, q, m) <=> q \in 1..Len(longer) /\ m \in 1..longer[Len(longer) + 1 - q].count
            /\ Marked(list, g, q, m) <=> q \in 1..Len(xs) /\ m \in 1..xs[Len(xs) + 1 - q].count
        BY <4>1 DEF Marked
      <4>3. CASE q \in 1..Len(xs)
        <5>1. Len(xs) + 1 - q \in 1..Len(xs) /\ Len(longer) + 1 - q = (Len(xs) + 1 - q) + 1
          BY <1>2, <1>4, <4>3
        <5>2. longer[Len(longer) + 1 - q] = xs[Len(xs) + 1 - q]
          BY <1>4, <5>1
        <5>3. q # top /\ q \in 1..Len(longer)
          BY <1>2, <1>4, <4>3, SMTT(60)
        <5> QED BY <4>2, <4>3, <5>2, <5>3
      <4>4. CASE q = top
        <5>1. Len(longer) + 1 - q = 1 /\ q \in 1..Len(longer) /\ q \notin 1..Len(xs)
          BY <1>2, <1>4, <4>4, SMTT(60)
        <5>2. longer[Len(longer) + 1 - q].count = 1
          BY <1>1, <1>4, <5>1
        <5>3. m \in 1..1 <=> m = 1
          OBVIOUS
        <5> QED BY <3>2, <4>2, <4>4, <5>1, <5>2, <5>3
      <4>5. CASE q \notin 1..top
        <5>1. q \notin 1..Len(longer) /\ q \notin 1..Len(xs) /\ q # top
          BY <1>2, <1>4, <4>5, SMTT(60)
        <5> QED BY <4>2, <5>1
      <4>6. q \in 1..Len(xs) \/ q = top \/ q \notin 1..top
        <5>1. Len(xs) \in Nat
          BY <1>2
        <5>2. ASSUME NEW k \in Nat
              PROVE  q \in 1..k \/ q = k + 1 \/ q \notin 1..(k + 1)
          OBVIOUS
        <5> QED BY <5>1, <5>2
      <4> QED BY <4>3, <4>4, <4>5, <4>6
    <3> QED BY <3>1, <3>2
  <2> HIDE DEF top
  <2>3. e \in Nat /\ 1 \in Nat
    OBVIOUS
  <2>4. MarkAdded(list, new, e, top, 1) /\ new \in Seq(Fn)
    BY <1>6, <2>1, <2>2 DEF MarkAdded
  <2> QED BY <1>8, <2>1, <2>3, <2>4, OneMore
<1> QED BY <1>6, <1>7, <1>8 DEF new, longer, xs, arc

\* A list with the count of one arc set.
WithCount(list, e, a, n) == [list EXCEPT ![Len(list) + 1 - e].arcs[a].count = n]

OnlyCount(new, list, e, a, n) ==
    /\ new \in Seq(Fn) /\ Len(new) = Len(list)
    /\ \A g \in 1..Len(list) :
         /\ new[Len(new) + 1 - g].self_pc = list[Len(list) + 1 - g].self_pc
         /\ Len(ArcsIn(new, g)) = Len(ArcsIn(list, g))
         /\ \A b \in 1..Len(ArcsIn(list, g)) :
              /\ ArcsIn(new, g)[b].from_pc = ArcsIn(list, g)[b].from_pc
              /\ ArcsIn(new, g)[b].count = IF g = e /\ b = a THEN n
                                           ELSE ArcsIn(list, g)[b].count
    /\ n = ArcsIn(list, e)[a].count + 1 /\ IsFiniteSet(Marks(list)) =>
         IsFiniteSet(Marks(new)) /\ Cardinality(Marks(new)) = Cardinality(Marks(list)) + 1

\* Setting a count changes it alone, and to the next number makes one mark.
LEMMA NewCount ==
  ASSUME NEW list \in Seq(Fn), NEW e \in 1..Len(list), NEW a \in 1..Len(ArcsIn(list, e)),
         NEW n \in Nat
  PROVE  OnlyCount(WithCount(list, e, a, n), list, e, a, n)
<1> DEFINE new == WithCount(list, e, a, n)
           i == Len(list) + 1 - e
           xs == ArcsIn(list, e)
           arc == [xs[a] EXCEPT !.count = n]
           ys == [xs EXCEPT ![a] = arc]
           fn == [list[i] EXCEPT !.arcs = ys]
<1>2. i \in 1..Len(list) /\ list[i] \in Fn /\ xs \in Seq(Arc) /\ xs = list[i].arcs
  BY ArcsType DEF ArcsIn
<1>3. new = [list EXCEPT ![i] = fn]
  BY <1>2 DEF WithCount
<1>4. xs[a] \in [from_pc : Caller, count : Nat]
  <2>1. a \in 1..Len(xs)
    OBVIOUS
  <2> HIDE DEF xs
  <2>2. xs[a] \in Arc
    BY <1>2, <2>1
  <2> QED BY <2>2 DEF Arc
<1>5. arc \in Arc /\ arc.from_pc = xs[a].from_pc /\ arc.count = n
  BY <1>4 DEF Arc
<1> HIDE DEF arc, i, xs
<1>6. /\ ys \in Seq(Arc) /\ Len(ys) = Len(xs) /\ ys[a] = arc
      /\ \A b \in 1..Len(xs) : b # a => ys[b] = xs[b]
  BY <1>2, <1>5, SMTT(60) DEF xs
<1> HIDE DEF ys
<1>7. list[i] \in [self_pc : Function, arcs : Seq(Arc)]
  BY <1>2 DEF Fn
<1>8. fn \in Fn /\ fn.self_pc = list[i].self_pc /\ fn.arcs = ys
  BY <1>6, <1>7 DEF Fn
<1> HIDE DEF fn, new
<1>9. /\ new \in Seq(Fn) /\ Len(new) = Len(list) /\ new[i] = fn
      /\ \A j \in 1..Len(list) : j # i => new[j] = list[j]
  BY <1>2, <1>3, <1>8
<1>10. ASSUME NEW g \in 1..Len(list)
       PROVE  /\ new[Len(new) + 1 - g].self_pc = list[Len(list) + 1 - g].self_pc
              /\ ArcsIn(new, g) = IF g = e THEN ys ELSE ArcsIn(list, g)
  <2>1. Len(list) + 1 - g \in 1..Len(list) /\ (g # e => Len(list) + 1 - g # i)
    BY DEF i
  <2> QED BY <1>8, <1>9, <2>1 DEF ArcsIn, i
<1>11. ASSUME NEW g \in 1..Len(list)
       PROVE  /\ Len(ArcsIn(new, g)) = Len(ArcsIn(list, g))
              /\ \A b \in 1..Len(ArcsIn(list, g)) :
                   /\ ArcsIn(new, g)[b].from_pc = ArcsIn(list, g)[b].from_pc
                   /\ ArcsIn(new, g)[b].count = IF g = e /\ b = a THEN n
                                                ELSE ArcsIn(list, g)[b].count
  <2>1. CASE g # e
    BY <1>10, <2>1
  <2>2. CASE g = e
    <3>1. ArcsIn(new, g) = ys /\ ArcsIn(list, g) = xs
      BY <1>10, <2>2 DEF xs
    <3> QED BY <1>5, <1>6, <2>2, <3>1
  <2> QED BY <2>1, <2>2
<1>12. ASSUME n = ArcsIn(list, e)[a].count + 1, IsFiniteSet(Marks(list))
       PROVE  IsFiniteSet(Marks(new)) /\ Cardinality(Marks(new)) = Cardinality(Marks(list)) + 1
  <2> DEFINE p == Len(xs) + 1 - a
  <2>0. /\ Len(xs) \in Nat /\ a \in 1..Len(xs) /\ p \in 1..Len(xs) /\ Len(xs) + 1 - p = a
        /\ xs[a].count \in Nat
    <3>1. a \in 1..Len(xs)
      BY DEF xs
    <3>2. xs[a].count \in Nat
      BY <1>4
    <3>3. Len(xs) \in Nat
      BY <1>2
    <3> QED BY <3>1, <3>2, <3>3, SMTT(60)
  <2>1. ~Marked(list, e, p, n)
    <3> HIDE DEF p
    <3>1. n = xs[a].count + 1
      BY <1>12 DEF xs
    <3>2. n \notin 1..xs[a].count
      <4>1. ASSUME NEW k \in Nat PROVE k + 1 \notin 1..k
        OBVIOUS
      <4>2. xs[a].count \in Nat
        BY <2>0
      <4> QED BY <3>1, <4>1, <4>2
    <3>3. ArcsIn(list, e)[Len(ArcsIn(list, e)) + 1 - p] = xs[a]
      BY <2>0 DEF xs
    <3> QED BY <3>2, <3>3 DEF Marked
  <2>2. ASSUME NEW g \in Nat, NEW q \in Nat, NEW m \in Nat
        PROVE  Marked(new, g, q, m) <=> Marked(list, g, q, m) \/ (g = e /\ q = p /\ m = n)
    <3>1. CASE g # e
      BY <1>9, <1>10, <3>1 DEF Marked
    <3>2. CASE g = e
      <4>1. ArcsIn(new, g) = ys /\ ArcsIn(list, g) = xs /\ g \in 1..Len(list) /\ g \in 1..Len(new)
        BY <1>9, <1>10, <3>2 DEF xs
      <4>2. /\ Marked(new, g, q, m) <=> q \in 1..Len(xs) /\ m \in 1..ys[Len(xs) + 1 - q].count
            /\ Marked(list, g, q, m) <=> q \in 1..Len(xs) /\ m \in 1..xs[Len(xs) + 1 - q].count
        BY <1>6, <4>1 DEF Marked
      <4>3. CASE q = p
        <5>1. ys[Len(xs) + 1 - q].count = n /\ xs[Len(xs) + 1 - q].count + 1 = n
          BY <1>5, <1>6, <1>12, <2>0, <4>3 DEF xs
        <5>2. xs[Len(xs) + 1 - q].count \in Nat /\ q \in 1..Len(xs)
          BY <2>0, <4>3
        <5>3. ASSUME NEW k \in Nat PROVE m \in 1..(k + 1) <=> m \in 1..k \/ m = k + 1
          OBVIOUS
        <5>4. m \in 1..n <=> m \in 1..xs[Len(xs) + 1 - q].count \/ m = n
          BY <5>1, <5>2, <5>3
        <5> QED BY <3>2, <4>2, <4>3, <5>1, <5>2, <5>4
      <4>4. CASE q # p
        <5>1. q \in 1..Len(xs) => Len(xs) + 1 - q \in 1..Len(xs) /\ Len(xs) + 1 - q # a
          <6> SUFFICES ASSUME q \in 1..Len(xs)
                       PROVE  Len(xs) + 1 - q \in 1..Len(xs) /\ Len(xs) + 1 - q # a
            OBVIOUS
          <6>1. p = Len(xs) + 1 - a
            OBVIOUS
          <6> HIDE DEF p
          <6>2. q # Len(xs) + 1 - a
            BY <4>4, <6>1
          <6>3. ASSUME NEW k \in Nat, NEW x \in 1..k, NEW y \in 1..k, y # k + 1 - x
                PROVE  k + 1 - y \in 1..k /\ k + 1 - y # x
            <7>1. k + 1 - y = x => y = k + 1 - x
              OBVIOUS
            <7> QED BY <6>3, <7>1
          <6> QED BY <2>0, <6>2, <6>3
        <5> QED BY <1>6, <4>2, <4>4, <5>1
      <4> QED BY <4>3, <4>4
    <3> QED BY <3>1, <3>2
  <2> HIDE DEF p
  <2>3. e \in Nat /\ p \in Nat /\ IsFiniteSet(Marks(list))
    BY <1>12, <2>0, SMTT(60)
  <2>4. new \in Seq(Fn)
    BY <1>9
  <2>5. MarkAdded(list, new, e, p, n)
    BY <2>1, <2>2 DEF MarkAdded
  <2> QED BY <2>3, <2>4, <2>5, OneMore
<1> QED BY <1>9, <1>10, <1>11, <1>12 DEF new, OnlyCount

-----------------------------------------------------------------------------
\* The operators of the model on the list.
LEMMA ListOps ==
  /\ marks = Marks(fn_head) /\ counted = Cardinality(Marks(fn_head))
  /\ \A e : arcs(e) = ArcsIn(fn_head, e)
  /\ \A e, f : arcOf(e, f) = Hits(ArcsIn(fn_head, e), f)
  BY DEF marks, counted, Marks, arcs, ArcsIn, arcOf, places, Hits

\* The first hit is a hit.
LEMMA HitPlaces ==
  ASSUME NEW xs \in Seq(Arc), NEW f, Hits(xs, f) # {}
  PROVE  /\ least(Hits(xs, f)) \in 1..Len(xs) /\ xs[least(Hits(xs, f))].from_pc = f
         /\ \A i \in Hits(xs, f) : least(Hits(xs, f)) <= i
<1>1. Hits(xs, f) \subseteq Nat /\ \A i \in Hits(xs, f) : i \in 1..Len(xs) /\ xs[i].from_pc = f
  BY DEF Hits
<1>2. least(Hits(xs, f)) \in Hits(xs, f) /\ \A i \in Hits(xs, f) : least(Hits(xs, f)) <= i
  BY <1>1, LeastIn
<1> QED BY <1>1, <1>2

\* An arc from elsewhere at the head moves the first hit by one.
LEMMA HitMoves ==
  ASSUME NEW xs \in Seq(Arc), NEW arc \in Arc, NEW f, Hits(xs, f) # {}
  PROVE  LET ys == <<arc>> \o xs
         IN  /\ Hits(ys, f) # {}
             /\ arc.from_pc # f => ys[least(Hits(ys, f))] = xs[least(Hits(xs, f))]
<1> DEFINE ys == <<arc>> \o xs
           a == least(Hits(xs, f))
<1>1. a \in 1..Len(xs) /\ xs[a].from_pc = f /\ \A i \in Hits(xs, f) : a <= i
  BY HitPlaces
<1> HIDE DEF a
<1>2. /\ ys \in Seq(Arc) /\ Len(ys) = Len(xs) + 1 /\ ys[1] = arc
      /\ \A i \in 1..Len(xs) : ys[i + 1] = xs[i]
  OBVIOUS
<1> HIDE DEF ys
<1>3. a + 1 \in Hits(ys, f) /\ ys[a + 1] = xs[a]
  BY <1>1, <1>2 DEF Hits
<1>4. ASSUME arc.from_pc # f PROVE least(Hits(ys, f)) = a + 1
  <2>1. Hits(ys, f) \subseteq Nat
    BY <1>2 DEF Hits
  <2>2. ASSUME NEW i \in Hits(ys, f) PROVE a + 1 <= i
    <3>1. i \in 1..Len(ys) /\ ys[i].from_pc = f /\ i # 1
      BY <1>2, <1>4 DEF Hits
    <3>2. i - 1 \in 1..Len(xs) /\ ys[i] = xs[i - 1]
      <4>1. i - 1 \in 1..Len(xs) /\ i = (i - 1) + 1
        BY <1>2, <3>1
      <4> QED BY <1>2, <4>1
    <3>3. i - 1 \in Hits(xs, f)
      BY <3>1, <3>2 DEF Hits
    <3> QED BY <1>1, <3>1, <3>3
  <2> QED BY <1>3, <2>1, <2>2, LeastIs
<1> QED BY <1>3, <1>4 DEF ys, a

\* Only the callers decide where the hits are.
LEMMA HitsSame ==
  ASSUME NEW xs \in Seq(Arc), NEW ys \in Seq(Arc), NEW f, Len(xs) = Len(ys),
         \A i \in 1..Len(xs) : ys[i].from_pc = xs[i].from_pc
  PROVE  Hits(ys, f) = Hits(xs, f)
<1>1. DOMAIN xs = 1..Len(xs) /\ DOMAIN ys = 1..Len(xs)
  OBVIOUS
<1> QED BY <1>1 DEF Hits

\* The search for a function.
LEMMA EntryFound ==
  ASSUME fn_head \in Seq(Fn), NEW s
  PROVE  /\ entryOf(s) \in 0..Len(fn_head)
         /\ entryOf(s) # 0 => fn_head[Len(fn_head) + 1 - entryOf(s)].self_pc = s
<1> DEFINE hits == {i \in DOMAIN fn_head : fn_head[i].self_pc = s}
<1>1. entryOf(s) = IF hits = {} THEN 0 ELSE Len(fn_head) + 1 - least(hits)
  BY DEF entryOf, places
<1>2. hits \subseteq Nat /\ \A i \in hits : i \in 1..Len(fn_head) /\ fn_head[i].self_pc = s
  OBVIOUS
<1> HIDE DEF hits
<1>3. CASE hits = {}
  BY <1>1, <1>3
<1>4. CASE hits # {}
  <2>1. least(hits) \in hits
    BY <1>2, <1>4, LeastIn
  <2> DEFINE i == least(hits)
  <2>2. i \in 1..Len(fn_head) /\ fn_head[i].self_pc = s
    BY <1>2, <2>1
  <2>3. entryOf(s) = Len(fn_head) + 1 - i
    BY <1>1, <1>4
  <2> HIDE DEF i
  <2>4. Len(fn_head) + 1 - (Len(fn_head) + 1 - i) = i
    BY <2>2
  <2> QED BY <2>2, <2>3, <2>4
<1> QED BY <1>3, <1>4

\* How a call changes the list: a new arc for an entry (in a new one if e is 0),
\* or a new count for an arc; either way it makes one mark.
ArcAdded(e, f) ==
    /\ fn_head' \in Seq(Fn) /\ Len(fn_head') >= Len(fn_head)
    /\ \A g \in 1..Len(fn_head) :
         /\ fn_head'[Len(fn_head') + 1 - g].self_pc = fn_head[Len(fn_head) + 1 - g].self_pc
         /\ ArcsIn(fn_head', g) =
              IF g = e THEN <<[from_pc |-> f, count |-> 1]>> \o ArcsIn(fn_head, g)
              ELSE ArcsIn(fn_head, g)

CountChanged(e, f) ==
    /\ fn_head' \in Seq(Fn) /\ Len(fn_head') = Len(fn_head)
    /\ \A g \in 1..Len(fn_head) :
         LET xs == ArcsIn(fn_head, g)
             ys == ArcsIn(fn_head', g)
         IN  /\ fn_head'[Len(fn_head') + 1 - g].self_pc = fn_head[Len(fn_head) + 1 - g].self_pc
             /\ \A h : Hits(ys, h) = Hits(xs, h)
             /\ \A h : Hits(xs, h) # {} /\ ~(g = e /\ h = f) =>
                  ys[least(Hits(xs, h))].count = xs[least(Hits(xs, h))].count

OneMark ==
    IsFiniteSet(marks) => IsFiniteSet(marks') /\ counted' = counted + 1

\* __mcount_record adds an arc and makes one mark.
LEMMA RecordAdds ==
  ASSUME fn_head \in Seq(Fn), NEW h, NEW s \in Function, NEW f \in Caller,
         NEW e \in 0..Len(fn_head), record(h, s, f, e)
  PROVE  ArcAdded(e, f) /\ OneMark
<1> DEFINE n == Len(fn_head)
           fns == IF e = 0 THEN <<[self_pc |-> s, arcs |-> <<>>]>> \o fn_head ELSE fn_head
           k == IF e = 0 THEN Len(fns) ELSE e
<1>1. fn_head' = withArc(fns, k, f)
  BY DEF record
<1>2. /\ fns \in Seq(Fn) /\ Len(fns) >= n /\ k \in 1..Len(fns)
      /\ k = IF e = 0 THEN n + 1 ELSE e
      /\ \A g \in 1..n : fns[Len(fns) + 1 - g] = fn_head[n + 1 - g]
      /\ Marks(fns) = Marks(fn_head)
  <2>1. CASE e = 0
    <3> DEFINE new == WithEntry(fn_head, s)
    <3>1. /\ new \in Seq(Fn) /\ Len(new) = n + 1 /\ Marks(new) = Marks(fn_head)
          /\ \A g \in 1..n : new[Len(new) + 1 - g] = fn_head[n + 1 - g]
      BY NewEntry
    <3>2. fns = new /\ k = Len(new) /\ k = n + 1
      BY <2>1, <3>1 DEF WithEntry
    <3>3. n \in Nat
      OBVIOUS
    <3> HIDE DEF new, fns, k, n
    <3> QED BY <2>1, <3>1, <3>2, <3>3
  <2>2. CASE e # 0
    BY <2>2
  <2> QED BY <2>1, <2>2
<1> HIDE DEF fns, k
<1>3. /\ fn_head' \in Seq(Fn) /\ Len(fn_head') = Len(fns)
      /\ \A g \in 1..Len(fns) :
           /\ fn_head'[Len(fn_head') + 1 - g].self_pc = fns[Len(fns) + 1 - g].self_pc
           /\ ArcsIn(fn_head', g) = IF g = k THEN <<[from_pc |-> f, count |-> 1]>> \o ArcsIn(fns, k)
                                    ELSE ArcsIn(fns, g)
      /\ IsFiniteSet(Marks(fns)) =>
           IsFiniteSet(Marks(fn_head')) /\ Cardinality(Marks(fn_head')) = Cardinality(Marks(fns)) + 1
  <2>1. fns \in Seq(Fn) /\ k \in 1..Len(fns)
    BY <1>2
  <2> DEFINE new == withArc(fns, k, f)
  <2>2. /\ new \in Seq(Fn) /\ Len(new) = Len(fns)
        /\ \A g \in 1..Len(fns) :
             /\ new[Len(new) + 1 - g].self_pc = fns[Len(fns) + 1 - g].self_pc
             /\ ArcsIn(new, g) = IF g = k THEN <<[from_pc |-> f, count |-> 1]>> \o ArcsIn(fns, k)
                                ELSE ArcsIn(fns, g)
        /\ IsFiniteSet(Marks(fns)) =>
             IsFiniteSet(Marks(new)) /\ Cardinality(Marks(new)) = Cardinality(Marks(fns)) + 1
    BY <2>1, NewArc
  <2> HIDE DEF new
  <2>3. fn_head' = new
    BY <1>1 DEF new
  <2> QED BY <2>2, <2>3
<1>4. ASSUME NEW g \in 1..n
      PROVE  /\ g \in 1..Len(fns) /\ (g = k <=> g = e)
             /\ ArcsIn(fns, g) = ArcsIn(fn_head, g)
             /\ fns[Len(fns) + 1 - g].self_pc = fn_head[n + 1 - g].self_pc
  <2>1. n \in Nat /\ Len(fns) \in Nat
    BY <1>2
  <2>2. g \in 1..Len(fns) /\ (g = k <=> g = e)
    BY <1>2, <2>1
  <2> QED BY <1>2, <2>2 DEF ArcsIn
<1>5. ArcAdded(e, f)
  BY <1>2, <1>3, <1>4 DEF ArcAdded
<1>6. OneMark
  BY <1>2, <1>3 DEF OneMark, marks, counted, Marks, arcs, ArcsIn
<1> QED BY <1>5, <1>6

\* A handler that adds an arc leaves what the program has found.
LEMMA FoundArc ==
  ASSUME fn_head \in Seq(Fn), FoundOK, NEW s \in Function, NEW f \in Caller,
         NEW e \in 0..Len(fn_head), ArcAdded(e, f),
         e # 0 => fn_head[Len(fn_head) + 1 - e].self_pc = s,
         UNCHANGED regs,
         overlapped' = (overlapped \/ (pc = "store" /\ s = self /\ f = from))
  PROVE  FoundOK'
<1>1. UNCHANGED <<pc, self, from, entry, count>>
  BY DEF regs
<1>2. /\ Len(fn_head) \in Nat /\ Len(fn_head') \in Nat /\ Len(fn_head') >= Len(fn_head)
  BY DEF ArcAdded
<1>3. pc # "out" => entry \in 0..Len(fn_head')
  BY <1>2 DEF FoundOK
<1>4. ASSUME pc \in {"found", "store"}
      PROVE  /\ fn_head'[Len(fn_head') + 1 - entry].self_pc = self
             /\ arcOf(entry, from)' # {}
             /\ pc = "store" /\ ~overlapped'
                  => count = arcs(entry)'[least(arcOf(entry, from)')].count
  <2> DEFINE xs == ArcsIn(fn_head, entry)
             ys == ArcsIn(fn_head', entry)
             arc == [from_pc |-> f, count |-> 1]
  <2>1. /\ entry \in 1..Len(fn_head) /\ fn_head[Len(fn_head) + 1 - entry].self_pc = self
        /\ Hits(xs, from) # {}
        /\ pc = "store" /\ ~overlapped => count = xs[least(Hits(xs, from))].count
    BY <1>4, ListOps DEF FoundOK
  <2>2. xs \in Seq(Arc)
    BY <2>1, ArcsType
  <2>3. arcs(entry)' = ys /\ arcOf(entry, from)' = Hits(ys, from)
    BY <1>1 DEF arcs, ArcsIn, arcOf, places, Hits
  <2>4. /\ fn_head'[Len(fn_head') + 1 - entry].self_pc = self
        /\ ys = IF entry = e THEN <<arc>> \o xs ELSE xs
    BY <2>1 DEF ArcAdded
  <2>5. arc \in Arc /\ arc.from_pc = f
    BY DEF Arc
  <2>6. ~overlapped' => ~overlapped /\ ~(pc = "store" /\ s = self /\ f = from)
    OBVIOUS
  <2> HIDE DEF xs, ys, arc
  <2>7. CASE entry = e
    <3>1. ys = <<arc>> \o xs /\ s = self
      <4>1. e # 0 /\ e = entry
        BY <1>2, <2>1, <2>7
      <4>2. fn_head[Len(fn_head) + 1 - e].self_pc = s
        BY <4>1, Zenon
      <4>3. fn_head[Len(fn_head) + 1 - e].self_pc = self
        BY <2>1, <4>1, Zenon
      <4>4. ys = <<arc>> \o xs
        BY <2>4, <2>7, Zenon
      <4> QED BY <4>2, <4>3, <4>4, Zenon
    <3>2. /\ Hits(ys, from) # {}
          /\ f # from => ys[least(Hits(ys, from))] = xs[least(Hits(xs, from))]
      BY <2>1, <2>2, <2>5, <3>1, HitMoves
    <3> QED BY <2>1, <2>3, <2>4, <2>6, <3>1, <3>2
  <2>8. CASE entry # e
    BY <2>1, <2>3, <2>4, <2>6, <2>8
  <2> QED BY <2>7, <2>8
<1> QED BY <1>1, <1>3, <1>4 DEF FoundOK

\* The count of an arc that is on the list goes to the next number.
LEMMA CountSet ==
  ASSUME fn_head \in Seq(Fn), NEW e \in 1..Len(fn_head), NEW f, arcOf(e, f) # {},
         NEW n \in Nat, setCount(e, f, n)
  PROVE  /\ CountChanged(e, f)
         /\ arcs(e)[least(arcOf(e, f))].count \in Nat
         /\ n = arcs(e)[least(arcOf(e, f))].count + 1 => OneMark
<1> DEFINE xs == ArcsIn(fn_head, e)
           a == least(Hits(xs, f))
<1>1. arcOf(e, f) = Hits(xs, f) /\ arcs(e) = xs
  BY ListOps
<1>2. xs \in Seq(Arc)
  BY ArcsType
<1>3. a \in 1..Len(xs) /\ xs[a].from_pc = f
  BY <1>1, <1>2, HitPlaces
<1>4. fn_head' = [fn_head EXCEPT ![Len(fn_head) + 1 - e].arcs[a].count = n]
  BY <1>1 DEF setCount
<1> HIDE DEF a
<1>5. OnlyCount(fn_head', fn_head, e, a, n)
  <2>1. a \in 1..Len(ArcsIn(fn_head, e))
    BY <1>3
  <2>2. OnlyCount(WithCount(fn_head, e, a, n), fn_head, e, a, n)
    BY <2>1, NewCount
  <2> QED BY <1>4, <2>2 DEF WithCount
<1>6. ASSUME NEW g \in 1..Len(fn_head), NEW h
      PROVE  /\ Hits(ArcsIn(fn_head', g), h) = Hits(ArcsIn(fn_head, g), h)
             /\ Hits(ArcsIn(fn_head, g), h) # {} /\ ~(g = e /\ h = f) =>
                  ArcsIn(fn_head', g)[least(Hits(ArcsIn(fn_head, g), h))].count
                    = ArcsIn(fn_head, g)[least(Hits(ArcsIn(fn_head, g), h))].count
  <2> DEFINE ys == ArcsIn(fn_head, g)
             zs == ArcsIn(fn_head', g)
             b == least(Hits(ys, h))
  <2>1. ys \in Seq(Arc) /\ zs \in Seq(Arc)
    <3>1. g \in 1..Len(fn_head')
      BY <1>5 DEF OnlyCount
    <3> QED BY <1>5, <3>1, ArcsType DEF OnlyCount
  <2>2. /\ Len(zs) = Len(ys)
        /\ \A i \in 1..Len(ys) : zs[i].from_pc = ys[i].from_pc
                                 /\ zs[i].count = IF g = e /\ i = a THEN n ELSE ys[i].count
    BY <1>5 DEF OnlyCount
  <2> HIDE DEF ys, zs
  <2>3. Hits(zs, h) = Hits(ys, h)
    BY <2>1, <2>2, HitsSame
  <2>4. ASSUME Hits(ys, h) # {}, ~(g = e /\ h = f)
        PROVE  zs[b].count = ys[b].count
    <3>1. b \in 1..Len(ys) /\ ys[b].from_pc = h
      BY <2>1, <2>4, HitPlaces
    <3> HIDE DEF b
    <3>2. ~(g = e /\ b = a)
      BY <1>3, <2>4, <3>1 DEF ys
    <3> QED BY <2>2, <3>1, <3>2
  <2> QED BY <2>3, <2>4 DEF b, ys, zs
<1>7. xs[a].count \in Nat
  <2> HIDE DEF xs
  <2>1. xs[a] \in Arc
    BY <1>2, <1>3
  <2> QED BY <2>1 DEF Arc
<1>8. n = xs[a].count + 1 => OneMark
  BY <1>5 DEF OnlyCount, OneMark, marks, counted, Marks, arcs, ArcsIn
<1> HIDE DEF xs
<1>9. arcs(e)[least(arcOf(e, f))].count = xs[a].count
  BY <1>1 DEF a
<1> QED BY <1>5, <1>6, <1>7, <1>8, <1>9 DEF OnlyCount, CountChanged

\* A handler that counts an arc leaves what the program has found, but for the
\* count of the same arc.
LEMMA FoundCount ==
  ASSUME fn_head \in Seq(Fn), FoundOK, NEW s, NEW f, NEW e \in 1..Len(fn_head),
         fn_head[Len(fn_head) + 1 - e].self_pc = s,
         CountChanged(e, f), UNCHANGED regs,
         overlapped' = (overlapped \/ (pc = "store" /\ s = self /\ f = from))
  PROVE  FoundOK'
<1>1. UNCHANGED <<pc, self, from, entry, count>>
  BY DEF regs
<1>2. Len(fn_head') = Len(fn_head)
  BY DEF CountChanged
<1>3. ASSUME pc \in {"found", "store"}
      PROVE  /\ fn_head'[Len(fn_head') + 1 - entry].self_pc = self
             /\ arcOf(entry, from)' # {}
             /\ pc = "store" /\ ~overlapped'
                  => count = arcs(entry)'[least(arcOf(entry, from)')].count
  <2> DEFINE xs == ArcsIn(fn_head, entry)
             ys == ArcsIn(fn_head', entry)
  <2>1. /\ entry \in 1..Len(fn_head) /\ fn_head[Len(fn_head) + 1 - entry].self_pc = self
        /\ Hits(xs, from) # {}
        /\ pc = "store" /\ ~overlapped => count = xs[least(Hits(xs, from))].count
    BY <1>3, ListOps DEF FoundOK
  <2>2. arcs(entry)' = ys /\ arcOf(entry, from)' = Hits(ys, from)
    BY <1>1 DEF arcs, ArcsIn, arcOf, places, Hits
  <2>3. /\ fn_head'[Len(fn_head') + 1 - entry].self_pc = self
        /\ Hits(ys, from) = Hits(xs, from)
        /\ ~(entry = e /\ from = f) =>
             ys[least(Hits(xs, from))].count = xs[least(Hits(xs, from))].count
    BY <2>1 DEF CountChanged
  <2>4. ~overlapped' => ~overlapped /\ ~(pc = "store" /\ s = self /\ f = from)
    OBVIOUS
  <2> HIDE DEF xs, ys
  <2>5. pc = "store" /\ ~overlapped' => ~(entry = e /\ from = f)
    BY <2>1, <2>4
  <2> QED BY <2>1, <2>2, <2>3, <2>4, <2>5
<1> QED BY <1>1, <1>2, <1>3 DEF FoundOK

-----------------------------------------------------------------------------
\* The program's steps and the handler's call keep the count.
LEMMA CountKept ==
  ASSUME CountInv, UNCHANGED <<fn_head, pc, self, from, entry, count, past>>
  PROVE  CountInv'
<1>1. UNCHANGED <<marks, counted, made, overlapped>>
  BY DEF marks, counted, past, arcs
<1>2. FoundOK'
  <2>1. UNCHANGED <<arcs(entry), arcOf(entry, from)>>
    BY DEF arcs, arcOf, places
  <2> QED BY <1>1, <2>1 DEF CountInv, FoundOK
<1>3. MarksOK'
  BY <1>1 DEF CountInv, MarksOK
<1> QED BY <1>1, <1>2, <1>3 DEF CountInv

\* A call that begins has no mark yet.
LEMMA CountMcount ==
  ASSUME CountInv, NEW s \in Function, NEW f \in Caller, Mcount(s, f)
  PROVE  CountInv'
<1>1. /\ pc = "out" /\ made' = made + 1 /\ self' = s /\ from' = f /\ entry' = entryOf(s)
      /\ UNCHANGED <<fn_head, count, overlapped>>
      /\ pc' = IF entry' # 0 /\ arcOf(entry', f) # {} THEN "found" ELSE "test"
  BY DEF Mcount
<1>2. fn_head \in Seq(Fn) /\ made \in Nat /\ overlapped \in BOOLEAN /\ count \in Nat
  BY DEF CountInv, FoundOK
<1>3. marks' = marks /\ counted' = counted
  BY <1>1 DEF marks, counted, arcs
<1>4. FoundOK'
  <2>1. entry' \in 0..Len(fn_head') /\ (entry' # 0 => fn_head'[Len(fn_head') + 1 - entry'].self_pc = self')
    BY <1>1, <1>2, EntryFound
  <2>2. pc' = "found" => entry' # 0 /\ arcOf(entry, from)' # {}
    <3>1. arcOf(entry, from)' = arcOf(entry', f)
      BY <1>1 DEF arcOf, places, arcs
    <3> QED BY <1>1, <3>1
  <2> QED BY <1>1, <1>2, <2>1, <2>2 DEF FoundOK
<1>5. MarksOK'
  <2>1. ASSUME ~overlapped PROVE IsFiniteSet(marks') /\ counted' + 1 = made'
    <3>1. IsFiniteSet(marks) /\ counted + 0 = made
      BY <1>1, <2>1 DEF CountInv, MarksOK
    <3>2. counted \in Nat
      BY <3>1, FS_CardinalityType DEF counted
    <3> QED BY <1>1, <1>3, <3>1, <3>2
  <2> QED BY <1>1, <2>1 DEF MarksOK
<1> QED BY <1>1, <1>2, <1>4, <1>5 DEF CountInv

\* A mark more, with a call more made or one less under way.
LEMMA MarkMade ==
  ASSUME CountInv, OneMark, overlapped => overlapped',
         \/ pc' = pc /\ made' = made + 1
         \/ pc # "out" /\ pc' = "out" /\ made' = made
  PROVE  MarksOK'
<1> SUFFICES ASSUME ~overlapped'
             PROVE  IsFiniteSet(marks') /\ counted' + (IF pc' = "out" THEN 0 ELSE 1) = made'
  BY DEF MarksOK
<1>1. IsFiniteSet(marks) /\ counted + (IF pc = "out" THEN 0 ELSE 1) = made
  BY DEF CountInv, MarksOK
<1>2. counted \in Nat
  BY <1>1, FS_CardinalityType DEF counted
<1>3. made \in Nat
  BY DEF CountInv
<1>4. IsFiniteSet(marks') /\ counted' = counted + 1
  BY <1>1 DEF OneMark
<1>5. CASE pc' = pc /\ made' = made + 1 /\ pc = "out"
  <2>1. counted + 0 = made
    BY <1>1, <1>5
  <2>2. counted' + 0 = made'
    BY <1>2, <1>3, <1>4, <1>5, <2>1
  <2> QED BY <1>4, <1>5, <2>2
<1>6. CASE pc' = pc /\ made' = made + 1 /\ pc # "out"
  <2>1. counted + 1 = made
    BY <1>1, <1>6
  <2>2. counted' + 1 = made'
    BY <1>2, <1>3, <1>4, <1>6, <2>1
  <2> QED BY <1>4, <1>6, <2>2
<1>7. CASE pc # "out" /\ pc' = "out" /\ made' = made
  <2>1. counted + 1 = made
    BY <1>1, <1>7
  <2>2. counted' + 0 = made'
    BY <1>2, <1>3, <1>4, <1>7, <2>1
  <2> QED BY <1>4, <1>7, <2>2
<1> QED BY <1>5, <1>6, <1>7

\* The program's own increment makes its mark.
LEMMA CountStore ==
  ASSUME CountInv, FoundStore
  PROVE  CountInv'
<1>1. /\ pc = "store" /\ pc' = "out" /\ UNCHANGED <<count, made, overlapped>>
      /\ setCount(entry, from, count + 1)
  BY DEF FoundStore, goto, past
<1>2. /\ fn_head \in Seq(Fn) /\ made \in Nat /\ overlapped \in BOOLEAN /\ count \in Nat
      /\ entry \in 1..Len(fn_head) /\ arcOf(entry, from) # {}
      /\ ~overlapped => count = arcs(entry)[least(arcOf(entry, from))].count
  BY <1>1 DEF CountInv, FoundOK
<1>3. /\ CountChanged(entry, from)
      /\ count + 1 = arcs(entry)[least(arcOf(entry, from))].count + 1 => OneMark
  BY <1>1, <1>2, CountSet
<1>4. FoundOK'
  BY <1>1, <1>2 DEF FoundOK
<1>5. MarksOK'
  <2>1. CASE overlapped
    BY <1>1, <2>1 DEF MarksOK
  <2>2. CASE ~overlapped
    <3>1. OneMark
      BY <1>2, <1>3, <2>2
    <3> QED BY <1>1, <3>1, MarkMade
  <2> QED BY <2>1, <2>2
<1> QED BY <1>1, <1>2, <1>3, <1>4, <1>5 DEF CountInv, CountChanged

\* So does its new arc.
LEMMA CountRecord ==
  ASSUME CountInv, Record
  PROVE  CountInv'
<1>1. /\ pc = "record" /\ pc' = "out" /\ UNCHANGED <<count, made, overlapped>>
      /\ record(h0, self, from, entry)
  BY DEF Record, goto, past
<1>2. /\ fn_head \in Seq(Fn) /\ made \in Nat /\ overlapped \in BOOLEAN /\ count \in Nat
      /\ self \in Function /\ from \in Caller /\ entry \in 0..Len(fn_head)
  BY <1>1 DEF CountInv, FoundOK
<1>3. ArcAdded(entry, from) /\ OneMark
  BY <1>1, <1>2, RecordAdds
<1>4. FoundOK'
  BY <1>1, <1>2 DEF FoundOK
<1>5. MarksOK'
  BY <1>1, <1>3, MarkMade
<1> QED BY <1>1, <1>2, <1>3, <1>4, <1>5 DEF CountInv, ArcAdded

\* A handler's call makes its mark at once.
LEMMA CountInterrupt ==
  ASSUME CountInv, NEW s \in Function, NEW f \in Caller, Interrupt(s, f)
  PROVE  CountInv'
<1> DEFINE e == entryOf(s)
           known == e # 0 /\ arcOf(e, f) # {}
<1>1. /\ made' = made + 1 /\ UNCHANGED regs
      /\ overlapped' = (overlapped \/ (pc = "store" /\ s = self /\ f = from))
      /\ known => setCount(e, f, arcs(e)[least(arcOf(e, f))].count + 1)
      /\ ~known => \E h : record(h, s, f, e)
  BY DEF Interrupt
<1>2. fn_head \in Seq(Fn) /\ made \in Nat /\ overlapped \in BOOLEAN /\ FoundOK
  BY DEF CountInv
<1>3. e \in 0..Len(fn_head) /\ (e # 0 => fn_head[Len(fn_head) + 1 - e].self_pc = s)
  BY <1>2, EntryFound
<1>4. pc' = pc /\ (overlapped => overlapped') /\ overlapped' \in BOOLEAN /\ made' \in Nat
  BY <1>1, <1>2 DEF regs
<1> HIDE DEF e
<1>5. CASE known
  <2> DEFINE n == arcs(e)[least(arcOf(e, f))].count + 1
  <2>1. e \in 1..Len(fn_head) /\ arcOf(e, f) # {}
    BY <1>3, <1>5
  <2>2. arcs(e)[least(arcOf(e, f))].count \in Nat
    <3>1. arcs(e) = ArcsIn(fn_head, e) /\ arcOf(e, f) = Hits(ArcsIn(fn_head, e), f)
      BY ListOps
    <3>2. ArcsIn(fn_head, e) \in Seq(Arc)
      BY <1>2, <2>1, ArcsType
    <3>3. least(arcOf(e, f)) \in 1..Len(ArcsIn(fn_head, e))
      BY <2>1, <3>1, <3>2, HitPlaces
    <3>4. arcs(e)[least(arcOf(e, f))] \in Arc
      BY <3>1, <3>2, <3>3
    <3> QED BY <3>4 DEF Arc
  <2>3. n \in Nat /\ setCount(e, f, n)
    BY <1>1, <1>5, <2>2
  <2>4. CountChanged(e, f) /\ (n = arcs(e)[least(arcOf(e, f))].count + 1 => OneMark)
    <3> HIDE DEF n
    <3> QED BY <1>2, <2>1, <2>3, CountSet
  <2>5. FoundOK'
    BY <1>1, <1>2, <1>3, <1>5, <2>1, <2>4, FoundCount
  <2>6. MarksOK'
    BY <1>1, <1>4, <2>4, MarkMade
  <2> QED BY <1>4, <2>4, <2>5, <2>6 DEF CountInv, CountChanged
<1>6. CASE ~known
  <2>1. PICK h : record(h, s, f, e)
    BY <1>1, <1>6
  <2>2. ArcAdded(e, f) /\ OneMark
    BY <1>2, <1>3, <2>1, RecordAdds
  <2>3. FoundOK'
    BY <1>1, <1>2, <1>3, <2>2, FoundArc
  <2>4. MarksOK'
    BY <1>1, <1>4, <2>2, MarkMade
  <2> QED BY <1>4, <2>2, <2>3, <2>4 DEF CountInv, ArcAdded
<1> QED BY <1>5, <1>6

\* The steps within a call, which leave the list alone.
LEMMA CountGoto ==
  ASSUME CountInv, FoundLoad \/ Test \/ Claim \/ StartSampler
  PROVE  CountInv'
<1>1. UNCHANGED <<fn_head, self, from, entry, made, overlapped>>
  BY DEF FoundLoad, Test, Claim, StartSampler, goto, past
<1>2. /\ pc # "out" /\ pc' \in {"store", "claim", "start", "record"}
      /\ pc' = "store" => pc = "found" /\ count' = arcs(entry)[least(arcOf(entry, from))].count
      /\ pc' # "store" => count' = count
  BY DEF FoundLoad, Test, Claim, StartSampler, goto
<1>3. UNCHANGED <<marks, counted, arcs(entry), arcOf(entry, from)>>
  BY <1>1 DEF marks, counted, arcs, arcOf, places
<1>4. MarksOK'
  BY <1>1, <1>2, <1>3 DEF CountInv, MarksOK
<1>5. pc' = "store" => count' \in Nat
  <2> SUFFICES ASSUME pc' = "store"
               PROVE  arcs(entry)[least(arcOf(entry, from))].count \in Nat
    BY <1>2
  <2>1. fn_head \in Seq(Fn) /\ entry \in 1..Len(fn_head) /\ arcOf(entry, from) # {}
    BY <1>2 DEF CountInv, FoundOK
  <2>2. /\ arcs(entry) = ArcsIn(fn_head, entry)
        /\ arcOf(entry, from) = Hits(ArcsIn(fn_head, entry), from)
    BY ListOps
  <2>3. ArcsIn(fn_head, entry) \in Seq(Arc)
    BY <2>1, ArcsType
  <2>4. least(arcOf(entry, from)) \in 1..Len(ArcsIn(fn_head, entry))
    BY <2>1, <2>2, <2>3, HitPlaces
  <2>5. arcs(entry)[least(arcOf(entry, from))] \in Arc
    BY <2>2, <2>3, <2>4
  <2> QED BY <2>5 DEF Arc
<1>6. FoundOK'
  BY <1>1, <1>2, <1>3, <1>5 DEF CountInv, FoundOK
<1> QED BY <1>1, <1>4, <1>6 DEF CountInv

\* Nothing has been counted at first.
LEMMA CountInit == Init => CountInv
<1> SUFFICES ASSUME Init PROVE CountInv
  OBVIOUS
<1>1. fn_head = <<>> /\ pc = "out" /\ made = 0 /\ overlapped = FALSE /\ count = 0
  BY DEF Init
<1>2. marks = {}
  <2>1. DOMAIN fn_head = {}
    BY <1>1
  <2> QED BY <2>1 DEF marks
<1>3. MarksOK
  BY <1>1, <1>2, FS_EmptySet DEF MarksOK, counted
<1>4. fn_head \in Seq(Fn)
  BY <1>1
<1>5. FoundOK
  BY <1>1 DEF FoundOK
<1> QED BY <1>1, <1>3, <1>4, <1>5 DEF CountInv

\* No step breaks the invariant.
LEMMA CountStep == CountInv /\ [Next]_vars => CountInv'
<1> SUFFICES ASSUME CountInv, [Next]_vars PROVE CountInv'
  OBVIOUS
<1>1. ASSUME NEW s \in Function, NEW f \in Caller, Mcount(s, f) PROVE CountInv'
  BY <1>1, CountMcount
<1>2. ASSUME NEW s \in Function, NEW f \in Caller, Interrupt(s, f) PROVE CountInv'
  BY <1>2, CountInterrupt
<1>3. CASE FoundStore
  BY <1>3, CountStore
<1>4. CASE Record
  BY <1>4, CountRecord
<1>5. CASE FoundLoad \/ Test \/ Claim \/ StartSampler
  BY <1>5, CountGoto
<1>6. ASSUME NEW addr \in 0..(textSize - 1), Sample(addr) PROVE CountInv'
  BY <1>6, CountKept DEF Sample, regs
<1>7. CASE ClockStarts
  BY <1>7, CountKept DEF ClockStarts, regs
<1>8. CASE UNCHANGED vars
  BY <1>8, CountKept DEF vars, regs
<1> QED BY <1>1, <1>2, <1>3, <1>4, <1>5, <1>6, <1>7, <1>8 DEF Next

\* CallsCounted: every call is counted once, whatever handlers do between the
\* search and the new arc, but for those that count the arc under way.
THEOREM CallsKept == Spec => []CallsCounted
<1>1. CountInv => CallsCounted
  BY DEF CountInv, MarksOK, CallsCounted
<1> QED BY <1>1, CountInit, CountStep, PTL DEF Spec
===============================================================================
