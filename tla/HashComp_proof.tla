---------------------------- MODULE HashComp_proof ----------------------------
(***************************************************************************)
(* For every width of a word, every number of rounds, every set of blocks  *)
(* and every bound on their number: the compression engine is type-correct *)
(* and gives every block that starts at round 0 its SHA-256 digest. Driven *)
(* by its test bench it implements the one-step digest service, and the    *)
(* assertion at the end of the bench holds.                                *)
(***************************************************************************)
EXTENDS HashCompTB, NaturalsInduction, TLAPS

USE RoundsAssumption, MaxBlocksAssumption

\* Every operator on words returns a word, whatever its arguments.
LEMMA WordOps == ASSUME NEW x, NEW y PROVE x ++ y \in Word
<1>1. \A a, b : sum(a, b) \subseteq Bit
  BY DEF sum
<1>2. x ++ y \subseteq Bit
  BY <1>1 DEF ++
<1> QED
  BY <1>2 DEF Word

\* A hexadecimal literal is a word.
LEMMA HexWord == ASSUME NEW hi, NEW lo PROVE Hex(hi, lo) \in Word
  BY DEF Hex, Word

\* The initial registers are registers.
LEMMA InitRegsType == InitRegs \in Regs
  BY HexWord DEF InitRegs, Regs, INIT_A, INIT_B, INIT_C, INIT_D, INIT_E,
                 INIT_F, INIT_G, INIT_H

\* So are registers to which the initial ones were added.
LEMMA HashWordsType == ASSUME NEW r PROVE hashWords(r) \in Regs
  BY WordOps DEF hashWords, Regs

\* One round turns registers into registers.
LEMMA NextRegsType ==
  ASSUME NEW r \in Regs, NEW w PROVE NextRegs(r, w) \in Regs
  BY WordOps DEF NextRegs, Regs

\* The assignments of the BUSY state are one round of the compression.
LEMMA NextRegsRound ==
  ASSUME NEW r, NEW w PROVE NextRegs(r, w) = Round(r, constants[Counter], w)
  BY DEF NextRegs, Round

-------------------------------------------------------------------------------
\* No step leaves the types.
LEMMA TypeStep == TypeOK /\ [Next]_vars => TypeOK'
<1> SUFFICES ASSUME TypeOK, [Next]_vars PROVE TypeOK'
  OBVIOUS
<1> USE DEF TypeOK
<1>1. CASE Reset
  BY <1>1, InitRegsType DEF Reset, ready
<1>2. ASSUME NEW in \in Blocks, Accept(in) PROVE TypeOK'
  <2>1. started' \in 0 .. MaxBlocks
    BY <1>2 DEF Accept
  <2>2. clean' \in BOOLEAN
    BY <1>2 DEF Accept
  <2> QED BY <1>2, <2>1, <2>2 DEF Accept
<1>3. ASSUME NEW in \in Blocks, Compress(in) PROVE TypeOK'
  <2>1. regs' \in Regs \cup {Undef}
    BY <1>3, NextRegsType DEF Compress
  <2>2. Counter' \in 0 .. Rounds - 1 /\ state' \in {"IDLE", "BUSY", "FINAL"}
    BY <1>3 DEF Compress, LastRound
  <2>3. clean' \in BOOLEAN
    BY <1>3 DEF Compress
  <2> QED BY <1>3, <2>1, <2>2, <2>3 DEF Compress
<1>4. CASE Finalise
  BY <1>4, HashWordsType DEF Finalise
<1>5. CASE UNCHANGED vars
  BY <1>5 DEF vars, hwVars, history
<1> QED BY <1>1, <1>2, <1>3, <1>4, <1>5 DEF Next, Edge

\* The types hold initially.
LEMMA TypeInit == Init => TypeOK
<1>1. 0 \in 0 .. Rounds - 1 /\ 0 \in 0 .. MaxBlocks
  OBVIOUS
<1> QED BY <1>1 DEF Init, TypeOK

\* Type correctness: no action of the engine or of its user leaves the types,
\* and the 6-bit counter never runs past the last round (HashComp.vhd:98-104).
THEOREM TypeCorrect == Spec => []TypeOK
  BY TypeInit, TypeStep, PTL DEF Spec, Behaviour
-------------------------------------------------------------------------------
\* A reset since the last block means an idle engine with initial registers.
PrimedInit == primed => ready /\ regs = InitRegs

\* Through a clean block that began at round 0 the registers follow the
\* compression of that block round by round, and the digest follows them.
CleanRun ==
  clean /\ from = 0 =>
    /\ job \in Blocks
    /\ ~ready => regs \in Regs
    /\ state = "BUSY"  => regs = Compression[job][Counter]
    /\ state = "FINAL" => regs = Compression[job][Rounds]
    /\ ready => output = Digest(job)

\* The inductive invariant behind FreshDigest.
DigestInv == TypeOK /\ PrimedInit /\ CleanRun

\* The recursion that defines Compression, the reference the engine is held
\* against, is one: before the first round there are the initial registers, and
\* each round is one Round step.
LEMMA CompressionDefined ==
  ASSUME NEW b \in Blocks
  PROVE  IsCompression(Compression[b], b, Rounds)
<1> DEFINE F(r, k, w) == CHOOSE next \in {Round(q, k, w) : q \in {r}} : TRUE
           Def(v, t)  == F(v, constants[t - 1], b[t - 1])
           R          == CHOOSE g : g = [t \in 0 .. Rounds |->
                                           IF t = 0 THEN InitRegs ELSE Def(g[t - 1], t)]
<1>1. Compression[b] = R
  BY DEF Compression, RoundsOf
<1>2. \A r, k, w : F(r, k, w) = Round(r, k, w)
  OBVIOUS
<1> HIDE DEF F
<1>3. FiniteNatInductiveDefHypothesis(R, InitRegs, Def, 0, Rounds)
  BY DEF FiniteNatInductiveDefHypothesis
<1> HIDE DEF R, Def
<1>4. FiniteNatInductiveDefConclusion(R, InitRegs, Def, 0, Rounds)
  BY <1>3, FiniteNatInductiveDef
<1>5. R = [t \in 0 .. Rounds |-> IF t = 0 THEN InitRegs ELSE Def(R[t - 1], t)]
  BY <1>4 DEF FiniteNatInductiveDefConclusion
<1>6. R[0] = InitRegs
  BY <1>5
<1>7. ASSUME NEW t \in 0 .. Rounds - 1
      PROVE  R[t + 1] = Round(R[t], constants[t], b[t])
  <2>1. t + 1 \in 0 .. Rounds /\ t + 1 # 0 /\ (t + 1) - 1 = t
    OBVIOUS
  <2>2. R[t + 1] = Def(R[t], t + 1)
    BY <1>5, <2>1
  <2> QED BY <1>2, <2>1, <2>2 DEF Def
<1> QED BY <1>1, <1>6, <1>7 DEF IsCompression

\* The same, step by step.
LEMMA CompressionSteps ==
  ASSUME NEW b \in Blocks
  PROVE  /\ Compression[b][0] = InitRegs
         /\ \A t \in 0 .. Rounds - 1 :
              Compression[b][t + 1] = Round(Compression[b][t], constants[t], b[t])
  BY CompressionDefined DEF IsCompression

\* DigestInv holds initially.
LEMMA DigestInit == Init => DigestInv
<1> SUFFICES ASSUME Init PROVE DigestInv
  OBVIOUS
<1>1. TypeOK
  BY TypeInit
<1> QED BY <1>1 DEF Init, DigestInv, PrimedInit, CleanRun

\* Every step preserves it.
LEMMA DigestStep == DigestInv /\ [Next]_vars => DigestInv'
<1> SUFFICES ASSUME DigestInv, [Next]_vars PROVE DigestInv'
  OBVIOUS
<1>0. TypeOK'
  BY TypeStep DEF DigestInv
<1> USE DEF DigestInv
<1>1. CASE Reset
  BY <1>0, <1>1 DEF Reset, PrimedInit, CleanRun, ready
<1>2. ASSUME NEW in \in Blocks, Accept(in) PROVE DigestInv'
  <2>1. PrimedInit'
    BY <1>2 DEF Accept, PrimedInit
  <2>2. ASSUME clean', from' = 0 PROVE regs' = InitRegs /\ Counter' = 0
    BY <1>2, <2>2 DEF Accept, PrimedInit
  <2>3. CleanRun'
    BY <1>2, <2>2, CompressionSteps, InitRegsType DEF Accept, CleanRun, ready
  <2> QED BY <1>0, <2>1, <2>3
<1>3. ASSUME NEW in \in Blocks, Compress(in) PROVE DigestInv'
  <2>1. PrimedInit'
    BY <1>3 DEF Compress, PrimedInit, ready
  <2>2. ASSUME clean', from' = 0 
        PROVE  /\ job' \in Blocks
               /\ regs' \in Regs
               /\ regs' = Compression[job][Counter + 1]
    <3>1. /\ clean /\ from = 0 /\ state = "BUSY" /\ job' = job
          /\ in[Counter] = job[Counter]
      BY <1>3, <2>2 DEF Compress
    <3>2. /\ job \in Blocks /\ regs \in Regs
          /\ regs = Compression[job][Counter]
      BY <3>1 DEF CleanRun, ready
    <3>3. regs' = NextRegs(regs, job[Counter])
      BY <1>3, <3>1, <3>2, UndefAssumption DEF Compress
    <3>4. regs' = Round(Compression[job][Counter], constants[Counter], job[Counter])
      BY <3>2, <3>3, NextRegsRound
    <3>5. Counter \in 0 .. Rounds - 1
      BY DEF TypeOK
    <3>6. regs' = Compression[job][Counter + 1]
      BY <3>2, <3>4, <3>5, CompressionSteps
    <3> QED BY <3>1, <3>2, <3>3, <3>6, NextRegsType
  <2>3. CASE Counter # Rounds - 1
    <3>1. state' = "BUSY" /\ Counter' = Counter + 1
      BY <1>3, <2>3 DEF Compress, LastRound
    <3> QED BY <1>0, <1>3, <2>1, <2>2, <3>1 DEF Compress, CleanRun, ready
  <2>4. CASE Counter = Rounds - 1
    <3>1. state' = "FINAL" /\ Counter + 1 = Rounds
      BY <1>3, <2>4 DEF Compress, LastRound
    <3> QED BY <1>0, <1>3, <2>1, <2>2, <3>1 DEF Compress, CleanRun, ready
  <2> QED BY <2>3, <2>4
<1>4. CASE Finalise
  <2>1. PrimedInit'
    BY <1>4 DEF Finalise, PrimedInit, ready
  <2>2. CleanRun'
    BY <1>4, UndefAssumption DEF Finalise, CleanRun, ready, Digest, hashWords, AddInit
  <2> QED BY <1>0, <2>1, <2>2
<1>5. CASE UNCHANGED vars
  BY <1>0, <1>5 DEF vars, hwVars, history, PrimedInit, CleanRun, ready
<1> QED BY <1>1, <1>2, <1>3, <1>4, <1>5 DEF Next, Edge

\* A block that starts at round 0 gets its SHA-256 digest.
THEOREM DigestCorrect == Spec => []FreshDigest
<1>1. DigestInv => FreshDigest
  BY DEF DigestInv, CleanRun, FreshDigest, Served
<1> QED BY <1>1, DigestInit, DigestStep, PTL DEF Spec, Behaviour
-------------------------------------------------------------------------------
\* The counter is at the last round in FINAL and, once a block has ended, for
\* ever: the inductive invariant behind LaterBlocksOneRound.
CounterInv ==
  /\ TypeOK
  /\ state = "FINAL" => Counter = Rounds - 1
  /\ LaterBlocksOneRound

\* After the first block that ends, every block runs one round, the last.
THEOREM CounterStuck == Spec => []LaterBlocksOneRound
<1>1. Init => CounterInv
  BY TypeInit DEF Init, CounterInv, LaterBlocksOneRound
<1>2. CounterInv /\ [Next]_vars => CounterInv'
  <2> SUFFICES ASSUME CounterInv, [Next]_vars PROVE CounterInv'
    OBVIOUS
  <2>0. TypeOK'
    BY TypeStep DEF CounterInv
  <2> USE DEF CounterInv, LaterBlocksOneRound, ready
  <2>1. CASE Reset
    BY <2>0, <2>1 DEF Reset
  <2>2. ASSUME NEW in \in Blocks, Accept(in) PROVE CounterInv'
    BY <2>0, <2>2 DEF Accept
  <2>3. ASSUME NEW in \in Blocks, Compress(in) PROVE CounterInv'
    <3>1. CASE Counter # Rounds - 1
      BY <2>0, <2>3, <3>1 DEF Compress, LastRound
    <3>2. CASE Counter = Rounds - 1
      BY <2>0, <2>3, <3>2 DEF Compress, LastRound
    <3> QED BY <3>1, <3>2
  <2>4. CASE Finalise
    BY <2>0, <2>4 DEF Finalise
  <2>5. CASE UNCHANGED vars
    BY <2>0, <2>5 DEF vars, hwVars, history
  <2> QED BY <2>1, <2>2, <2>3, <2>4, <2>5 DEF Next, Edge
<1>3. CounterInv => LaterBlocksOneRound
  BY DEF CounterInv
<1> QED BY <1>1, <1>2, <1>3, PTL DEF Spec, Behaviour
-------------------------------------------------------------------------------
\* The output port changes in one place only, on the edge that ends a block.
THEOREM OutputStable == Spec => OutputHeld
<1>1. [Next]_vars => [output' # output => state = "FINAL" /\ ready']_vars
  <2> SUFFICES ASSUME Next, output' # output PROVE state = "FINAL" /\ ready'
    OBVIOUS
  <2>1. ~Reset
    BY DEF Reset
  <2>2. \A in \in Blocks : ~Accept(in) /\ ~Compress(in)
    BY DEF Accept, Compress
  <2>3. Finalise
    BY <2>1, <2>2 DEF Next, Edge
  <2> QED BY <2>3 DEF Finalise, ready
<1> QED BY <1>1, PTL DEF Spec, Behaviour, OutputHeld
-------------------------------------------------------------------------------
\* No block was accepted yet: the engine is as it was at power-up, but reset.
Untouched == started = 0 /\ ready /\ Counter = 0 /\ ~finished

\* The block on the bus is being processed, or was, the way the bench asks for.
Underway == started = 1 /\ clean /\ from = 0 /\ job = bus /\ (finished <=> ready)

\* Where the bench stands tells what the engine has been through.
BenchInv ==
  /\ bus \in Blocks
  /\ edgeDue \in BOOLEAN
  /\ pc = "stimulate" => Untouched /\ ~reset /\ ~newData /\ ~edgeDue
  /\ pc = "release"   => Untouched /\ reset /\ ~newData /\ primed
  /\ pc = "start"     => Untouched /\ ~reset /\ ~newData /\ primed
  /\ pc = "lower"     => /\ ~reset /\ newData
                         /\ edgeDue  => Untouched /\ primed
                         /\ ~edgeDue => Underway /\ ~ready
  /\ pc = "wait"      => ~reset /\ ~newData /\ Underway /\ ~ready
  /\ pc \in {"check", "stopped"} => Underway /\ ready /\ ~edgeDue
  /\ pc \in {"stimulate", "release", "start", "lower", "wait", "check", "stopped"}

\* The inductive invariant of the bench and its engine.
TBInv == DigestInv /\ BenchInv

\* Every step of the bench is a step of the engine or leaves it alone.
LEMMA EngineStep == BenchInv /\ [NextTB]_<<vars, tbVars>> => [Next]_vars
  BY DEF NextTB, Stimulate, Release, Start, Lower, Rise, Check, Next, Edge,
         vars, BenchInv

\* TBInv holds initially.
LEMMA TBInit == InitTB => TBInv
  BY DigestInit DEF InitTB, TBInv, BenchInv, Init, Untouched, ready

\* A rising edge preserves BenchInv.
LEMMA RiseStep == TBInv /\ Rise => BenchInv'
<1> SUFFICES ASSUME TBInv, Rise PROVE BenchInv'
  OBVIOUS
<1> USE DEF TBInv, BenchInv, Untouched, Underway, ready
<1>1. CASE reset /\ Reset
  BY <1>1 DEF Rise, Reset
<1>2. CASE ~reset /\ newData /\ Accept(bus)
  <2>1. pc = "lower" /\ edgeDue /\ pc' = "lower" /\ edgeDue' = FALSE
    BY <1>2 DEF Rise, Accept
  <2>2. started' = 1 /\ from' = 0 /\ job' = bus' /\ ~ready'
    BY <1>2, <2>1 DEF Rise, Accept
  <2>3. clean' /\ ~finished'
    BY <1>2, <2>1 DEF Rise, Accept
  <2>4. ~reset' /\ newData' /\ bus' \in Blocks
    BY <1>2 DEF Rise
  <2>5. Underway'
    BY <2>2, <2>3
  <2> QED BY <2>1, <2>2, <2>4, <2>5
<1>3. CASE ~reset /\ Compress(bus)
  <2>1. pc = "lower" \/ pc = "wait"
    BY <1>3 DEF Rise, Compress
  <2>2. pc = "wait" /\ pc' = "wait" /\ state' # "IDLE"
    BY <1>3, <2>1 DEF Rise, Compress
  <2> QED BY <1>3, <2>2 DEF Rise, Compress
<1>4. CASE ~reset /\ Finalise
  <2>1. pc = "wait" /\ pc' = "check"
    BY <1>4 DEF Rise, Finalise
  <2> QED BY <1>4, <2>1 DEF Rise, Finalise
<1>5. CASE ~reset /\ ~newData /\ ready /\ UNCHANGED vars
  BY <1>5 DEF Rise, vars, hwVars, history
<1> QED BY <1>1, <1>2, <1>3, <1>4, <1>5 DEF Rise

\* Every step preserves TBInv.
LEMMA TBStep == TBInv /\ [NextTB]_<<vars, tbVars>> => TBInv'
<1> SUFFICES ASSUME TBInv, [NextTB]_<<vars, tbVars>> PROVE TBInv'
  OBVIOUS
<1>0. DigestInv'
  BY EngineStep, DigestStep DEF TBInv
<1> USE DEF TBInv, BenchInv, Untouched, ready
<1>1. CASE Stimulate
  BY <1>0, <1>1 DEF Stimulate, Period, Reset
<1>2. CASE Release
  BY <1>0, <1>2 DEF Release, Period, vars, hwVars, history
<1>3. CASE Start
  BY <1>0, <1>3 DEF Start, Period, vars, hwVars, history
<1>4. CASE Lower
  BY <1>0, <1>4 DEF Lower, Period, vars, hwVars, history, Underway
<1>5. CASE Rise
  BY <1>0, <1>5, RiseStep
<1>6. CASE Check
  BY <1>0, <1>6 DEF Check, vars, hwVars, history, Underway
<1>7. CASE UNCHANGED <<vars, tbVars>>
  BY <1>0, <1>7 DEF vars, hwVars, history, tbVars, Underway
<1> QED BY <1>1, <1>2, <1>3, <1>4, <1>5, <1>6, <1>7 DEF NextTB

\* The bench's last assertion holds: when ready returns, the output is the
\* digest of the words on the bus (HashCompTB.vhd:149-151).
THEOREM AssertionHolds == SpecTB => []DigestOnReady
<1>1. TBInv => DigestOnReady
  BY DEF TBInv, BenchInv, Underway, DigestInv, CleanRun, DigestOnReady, ready
<1> QED BY <1>1, TBInit, TBStep, PTL DEF SpecTB, BehaviourTB

\* The engine driven by its bench implements the service that loads a block in
\* one step and answers it with its digest in another, and never abandons it.
THEOREM DigestService == SpecTB => ImplementsService
<1>1. InitTB => Service!Init
  BY DEF InitTB, Init, Service!Init, ready
<1>2. TBInv /\ [NextTB]_<<vars, tbVars>> => [Service!Reliable]_(Service!vars)
  <2> SUFFICES ASSUME TBInv, [NextTB]_<<vars, tbVars>>
               PROVE  [Service!Reliable]_(Service!vars)
    OBVIOUS
  <2>0. DigestInv'
    BY EngineStep, DigestStep DEF TBInv
  <2> USE DEF Service!Reliable, Service!vars, ready
  <2>1. CASE Stimulate
    BY <2>1 DEF Stimulate, Period, Reset, TBInv, BenchInv, Untouched
  <2>2. CASE Release \/ Start \/ Lower \/ Check
    BY <2>2 DEF Release, Start, Lower, Check, vars, hwVars, history
  <2>3. CASE Rise /\ reset /\ Reset
    BY <2>3 DEF Rise, Reset, TBInv, BenchInv, Untouched, Underway
  <2>4. CASE Rise /\ Accept(bus)
    BY <2>4 DEF Accept, Service!Load, TBInv, BenchInv
  <2>5. CASE Rise /\ Compress(bus)
    BY <2>5 DEF Compress
  <2>6. CASE Rise /\ ~reset /\ Finalise
    <3>1. state = "FINAL" /\ state' = "IDLE" /\ finished' /\ job' = job
      BY <2>6 DEF Finalise
    <3>2. clean' /\ from' = 0
      BY <2>6, <3>1 DEF TBInv, BenchInv, Untouched, Underway, Finalise
    <3>3. output' = Digest(job)
      BY <2>0, <3>1, <3>2 DEF DigestInv, CleanRun, Digest
    <3> QED BY <3>1, <3>3 DEF Service!Answer, IsDigest
  <2>7. CASE UNCHANGED vars
    BY <2>7 DEF vars, hwVars, history
  <2>8. CASE UNCHANGED <<vars, tbVars>>
    BY <2>7, <2>8
  <2> QED BY <2>1, <2>2, <2>3, <2>4, <2>5, <2>6, <2>7, <2>8 DEF NextTB, Rise
<1> QED BY <1>1, <1>2, TBInit, TBStep, PTL
        DEF SpecTB, BehaviourTB, ImplementsService, Service!ReliableBehaviour
===============================================================================
