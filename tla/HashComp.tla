------------------------------- MODULE HashComp -------------------------------
(***************************************************************************)
(* src/HashComp/HashComp.vhd: the compression engine.  One action is one   *)
(* clock edge (or the asynchronous reset); an edge on which nothing        *)
(* changes, such as an idle edge without newData, is a stuttering step.    *)
(*                                                                         *)
(* The environment is free: it may pulse reset at any moment and may       *)
(* change the input bus between any two edges, because the engine does not *)
(* latch the bus: every BUSY edge samples it again.                        *)
(*                                                                         *)
(* regs is the eight registers a..h.  They are assigned together by every  *)
(* statement, and a sum with one undefined operand is undefined, so they   *)
(* are all defined or all undefined: Undef stands for the second case.     *)
(* T1, T2, K and inputTemp are written before they are read on every edge  *)
(* and carry nothing from one edge to the next.                            *)
(***************************************************************************)
EXTENDS Compression

CONSTANT MaxBlocks      \* bound: blocks accepted in one behaviour

ASSUME MaxBlocksAssumption == MaxBlocks \in Nat

VARIABLES
  state,        \* IDLE, BUSY or FINAL
  Counter,      \* index of the round to come, 6 bits wide in the source
  regs,         \* a..h
  output,       \* h0..h7, the concatenation on the output port
  \* History, read by no action:
  job,          \* the block on the bus when newData was accepted
  from,         \* the value of Counter when job was accepted
  started,      \* how many blocks were accepted since power-up
  finished,     \* a block has reached FINAL since power-up
  primed,       \* reset was asserted since the last block was accepted
  clean         \* job was accepted primed, its bus held, no reset came since

hwVars  == <<state, Counter, regs, output>>
history == <<job, from, started, finished, primed, clean>>
vars    == <<hwVars, history>>

Init ==
  /\ state = "IDLE"
  /\ Counter = 0
  /\ regs = Undef
  /\ output = Undef
  /\ job = NoBlock
  /\ from = 0
  /\ started = 0
  /\ finished = FALSE
  /\ primed = FALSE
  /\ clean = FALSE

ready == state = "IDLE"

\* Fault: reset clears the output registers as well.
Reset_clearsOutput ==
  /\ regs' = InitRegs
  /\ state' = "IDLE"
  /\ output' = InitRegs
  /\ primed' = TRUE
  /\ clean' = (clean /\ ready)
  /\ UNCHANGED <<Counter, job, from, started, finished>>

\* reset = '1': neither Counter nor h0..h7 is among the signals it assigns.
Reset ==
  /\ regs' = InitRegs
  /\ state' = "IDLE"
  /\ primed' = TRUE
  /\ clean' = (clean /\ ready)
  /\ UNCHANGED <<Counter, output, job, from, started, finished>>

\* Fault: accepting a block clears the output registers.
Accept_clearsOutput(in) ==
  /\ state = "IDLE"
  /\ started < MaxBlocks
  /\ state' = "BUSY"
  /\ output' = InitRegs
  /\ job' = in
  /\ from' = Counter
  /\ started' = started + 1
  /\ primed' = FALSE
  /\ clean' = primed
  /\ UNCHANGED <<Counter, regs, finished>>

\* A clock edge in IDLE that sees newData = '1' while the bus carries in.
Accept(in) ==
  /\ state = "IDLE"
  /\ started < MaxBlocks
  /\ state' = "BUSY"
  /\ job' = in
  /\ from' = Counter
  /\ started' = started + 1
  /\ primed' = FALSE
  /\ clean' = primed
  /\ UNCHANGED <<Counter, regs, output, finished>>

\* The registers after one round on the word w.
NextRegs(r, w) ==
  LET T1 == r.h ++ ep1(r.e) ++ Ch(r.e, r.f, r.g) ++ constants[Counter] ++ w
      T2 == ep0(r.a) ++ Maj(r.a, r.b, r.c)
  IN  [h |-> r.g, g |-> r.f, f |-> r.e, e |-> r.d ++ T1,
       d |-> r.c, c |-> r.b, b |-> r.a, a |-> T1 ++ T2]

\* Fault: the last round is taken for one earlier.
LastRound_early == Counter = Rounds - 2

\* The comparison of Counter with its largest value.
LastRound == Counter = Rounds - 1

\* A clock edge in BUSY while the bus carries in: one round.
Compress(in) ==
  /\ state = "BUSY"
  /\ regs' = IF regs = Undef THEN Undef ELSE NextRegs(regs, in[Counter])
  /\ IF ~LastRound
       THEN Counter' = Counter + 1 /\ UNCHANGED state
       ELSE state' = "FINAL" /\ UNCHANGED Counter
  /\ clean' = (clean /\ in[Counter] = job[Counter])
  /\ UNCHANGED <<output, job, from, started, finished, primed>>

\* What FINAL assigns to h0..h7.
hashWords(r) ==
  [a |-> r.a ++ INIT_A, b |-> r.b ++ INIT_B, c |-> r.c ++ INIT_C,
   d |-> r.d ++ INIT_D, e |-> r.e ++ INIT_E, f |-> r.f ++ INIT_F,
   g |-> r.g ++ INIT_G, h |-> r.h ++ INIT_H]

\* Faults: FINAL rewinds the counter, or forgets to return to IDLE.
Finalise_rewinds ==
  /\ state = "FINAL"
  /\ output' = IF regs = Undef THEN Undef ELSE hashWords(regs)
  /\ state' = "IDLE"
  /\ Counter' = 0
  /\ finished' = TRUE
  /\ UNCHANGED <<regs, job, from, started, primed, clean>>

Finalise_stays ==
  /\ state = "FINAL"
  /\ output' = IF regs = Undef THEN Undef ELSE hashWords(regs)
  /\ finished' = TRUE
  /\ UNCHANGED <<state, Counter, regs, job, from, started, primed, clean>>

\* The clock edge in FINAL.
Finalise ==
  /\ state = "FINAL"
  /\ output' = IF regs = Undef THEN Undef ELSE hashWords(regs)
  /\ state' = "IDLE"
  /\ finished' = TRUE
  /\ UNCHANGED <<Counter, regs, job, from, started, primed, clean>>

Edge(in) == Accept(in) \/ Compress(in) \/ Finalise

Next == Reset \/ \E in \in Blocks : Edge(in)

\* The clock is free-running; reset, newData and the bus belong to the user.
Fairness == WF_vars(\E in \in Blocks : Compress(in) \/ Finalise)

Behaviour == Init /\ [][Next]_vars

Spec == Behaviour /\ Fairness
-------------------------------------------------------------------------------
\* Every register, the counter and the history have their types.
TypeOK ==
  /\ state \in {"IDLE", "BUSY", "FINAL"}
  /\ Counter \in 0 .. Rounds - 1
  /\ regs \in Regs \cup {Undef}
  /\ output \in Regs \cup {Undef}
  /\ job \in Blocks \cup {NoBlock}
  /\ from \in 0 .. Rounds - 1
  /\ started \in 0 .. MaxBlocks
  /\ finished \in BOOLEAN
  /\ primed \in BOOLEAN
  /\ clean \in BOOLEAN

\* job ran to its end the way the header comment of newData describes: reset
\* before it, the bus held during it, ready again after it.
Served == clean /\ ready

\* A block that starts at round 0 gets its digest (HashComp.vhd:73-119): if
\* reset preceded it, the bus was held for all its rounds and nothing aborted
\* it, then the output port shows the SHA-256 digest of that block and of no
\* other as soon as ready returns, and keeps showing it until a later block
\* ends, whatever was aborted before it and however often reset is pulsed after.
FreshDigest == Served /\ from = 0 => output = Digest(job)

\* The counter rests at its last round once a block has ended: neither reset
\* (HashComp.vhd:57-70) nor FINAL (109-119) rewinds it.  Every later block is
\* therefore accepted at the last round and runs that round alone, although
\* HashComp.vhd:13 announces "Ready to process the next block".
LaterBlocksOneRound ==
  finished => /\ Counter = Rounds - 1
              /\ ~ready => from = Rounds - 1

\* The digest of a block stays on the output port, whatever the user does with
\* reset, newData and the bus, until the final edge of a later block.
OutputHeld ==
  [][output' # output => state = "FINAL" /\ ready']_vars

\* The engine never stays busy: ready returns after every accepted block,
\* whatever the bus carries and however often the user resets it.
ReadyAgain == ~ready ~> ready
===============================================================================
