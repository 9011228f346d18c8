----------------------------- MODULE deComp_proof -----------------------------
(***************************************************************************)
(* For every width of a word, every even schedule length above 16, every   *)
(* set of blocks and every bound on their number: the block decomposition  *)
(* is type-correct, publishes nothing but the schedule of the block loaded *)
(* last, and implements its one-step service.                              *)
(***************************************************************************)
EXTENDS deComp, TLAPS

USE LengthAssumption, MaxBlocksAssumption

\* A sum is a word, whatever its operands.
LEMMA SumWord == ASSUME NEW x, NEW y PROVE x ++ y \in Word
<1>1. \A a, b : sum(a, b) \subseteq Bit
  BY DEF sum
<1>2. x ++ y \subseteq Bit
  BY <1>1 DEF ++
<1> QED
  BY <1>2 DEF Word

\* A slice of the input port is a word.
LEMMA InWord == ASSUME NEW inData, NEW t PROVE inWord(inData, t) \in Word
  BY DEF inWord, Word

\* The types hold initially.
LEMMA TypeInit == Init => TypeOK
<1> SUFFICES ASSUME Init PROVE TypeOK
  OBVIOUS
<1>1. 0 \in 0 .. MaxBlocks /\ 16 \in 16 .. Length - 1 /\ 16 % 2 = 0
  OBVIOUS
<1> QED BY <1>1 DEF Init, TypeOK

\* No step leaves the types.
LEMMA TypeStep == TypeOK /\ [Next]_vars => TypeOK'
<1> SUFFICES ASSUME TypeOK, [Next]_vars PROVE TypeOK'
  OBVIOUS
<1> USE DEF TypeOK
<1>0. 16 \in 16 .. Length - 1 /\ 16 % 2 = 0
  OBVIOUS
<1>1. CASE Reset
  <2>1. aborted' \in BOOLEAN
    BY <1>1 DEF Reset
  <2> QED BY <1>0, <1>1, <2>1 DEF Reset
<1>2. ASSUME NEW inData \in Blocks, Update(inData) PROVE TypeOK'
  <2>1. started' \in 0 .. MaxBlocks
    BY <1>2 DEF Update
  <2>2. tempBlock' \in [Index -> {Undef} \cup Word]
    BY <1>2, InWord DEF Update
  <2> QED BY <1>2, <2>1, <2>2 DEF Update
<1>3. CASE Work
  <2>1. tempBlock' \in [Index -> {Undef} \cup Word]
    BY <1>3, SumWord DEF Work, step
  <2>2. counter' \in 16 .. Length - 1 /\ counter' % 2 = 0
    BY <1>0, <1>3 DEF Work, step
  <2>3. state' \in {"IDLE", "WORKING", "DONE"}
    BY <1>3 DEF Work, step
  <2> QED BY <1>3, <2>1, <2>2, <2>3 DEF Work, step
<1>4. CASE Done
  BY <1>4 DEF Done
<1>5. CASE UNCHANGED vars
  BY <1>5 DEF vars
<1> QED BY <1>1, <1>2, <1>3, <1>4, <1>5 DEF Next

\* Type correctness; in particular the integer range 16 to 65 of the counter
\* (deComp.vhd:27) is never left and its value stays even.
THEOREM TypeCorrect == Spec => []TypeOK
  BY TypeInit, TypeStep, PTL DEF Spec, Behaviour
-------------------------------------------------------------------------------
\* The first n words of w follow the recurrence of the schedule of block b.
Prefix(w, b, n) ==
  /\ \A t \in 0 .. 15 : w[t] = MessageWords(b)[t]
  /\ \A t \in 16 .. n - 1 :
        w[t] = sig1(w[t - 2]) ++ w[t - 7] ++ sig0(w[t - 15]) ++ w[t - 16]

\* While a block is worked on, tempBlock is its schedule up to counter, however
\* much an earlier block left behind above it; once finished is up, outData is
\* the whole schedule.
ScheduleInv ==
  /\ TypeOK
  /\ ~ready => finished = "0" /\ started > 0 /\ ~aborted
  /\ state # "WORKING" => counter = 16
  /\ state = "WORKING" => Prefix(tempBlock, job, counter)
  /\ state = "DONE" => IsScheduleOf(tempBlock, job)
  /\ FinishedIsSchedule
  /\ ReadyMeansFinished

\* A prefix as long as the schedule is the schedule.
LEMMA PrefixWhole ==
  ASSUME NEW w, NEW b, Prefix(w, b, Length) PROVE IsScheduleOf(w, b)
  BY DEF Prefix, IsScheduleOf, IsSchedule

\* ScheduleInv holds initially.
LEMMA ScheduleInit == Init => ScheduleInv
  BY TypeInit DEF Init, ScheduleInv, ready, FinishedIsSchedule, ReadyMeansFinished

\* Working extends the prefix by the two words it computes.
LEMMA WorkExtends ==
  ASSUME TypeOK, Work, Prefix(tempBlock, job, counter)
  PROVE  Prefix(tempBlock', job, counter + 2)
<1> DEFINE c == counter
           w == tempBlock
           v == tempBlock'
<1>1. c \in 16 .. Length - 2 /\ w \in [Index -> {Undef} \cup Word]
  BY DEF TypeOK
<1>2. \A t \in Index \ {c, c + 1} : v[t] = w[t]
  BY <1>1 DEF Work, Index
<1>3. /\ v[c]     = sig1(w[c - 2]) ++ w[c - 7] ++ sig0(w[c - 15]) ++ w[c - 16]
      /\ v[c + 1] = sig1(w[c - 1]) ++ w[c - 6] ++ sig0(w[c - 14]) ++ w[c - 15]
  BY <1>1 DEF Work, Index, o0, o1, sig0, sig1
<1>4. \A t \in 0 .. c - 1 : v[t] = w[t]
  BY <1>1, <1>2 DEF Index
<1> HIDE DEF c, w, v
<1>5. \A t \in 0 .. 15 : v[t] = MessageWords(job)[t]
  BY <1>1, <1>4 DEF Prefix, w, c
<1>6. ASSUME NEW t \in 16 .. c + 1
      PROVE  v[t] = sig1(v[t - 2]) ++ v[t - 7] ++ sig0(v[t - 15]) ++ v[t - 16]
  <2>0. /\ t - 2 \in 0 .. c - 1 /\ t - 7 \in 0 .. c - 1
        /\ t - 15 \in 0 .. c - 1 /\ t - 16 \in 0 .. c - 1
    BY <1>1
  <2>1. CASE t \in 16 .. c - 1
    <3>1. w[t] = sig1(w[t - 2]) ++ w[t - 7] ++ sig0(w[t - 15]) ++ w[t - 16]
      BY <2>1 DEF Prefix, w, c
    <3>2. t \in 0 .. c - 1
      BY <2>1
    <3> QED BY <1>4, <2>0, <3>1, <3>2
  <2>2. CASE t = c
    BY <1>3, <1>4, <2>0, <2>2
  <2>3. CASE t = c + 1
    <3>1. t - 2 = c - 1 /\ t - 7 = c - 6 /\ t - 15 = c - 14 /\ t - 16 = c - 15
      BY <1>1, <2>3
    <3> QED BY <1>3, <1>4, <2>0, <2>3, <3>1
  <2> QED BY <1>1, <2>1, <2>2, <2>3
<1>7. c + 1 = (c + 2) - 1
  BY <1>1
<1> QED BY <1>5, <1>6, <1>7 DEF Prefix, v, c

\* Every step preserves ScheduleInv.
LEMMA ScheduleStep == ScheduleInv /\ [Next]_vars => ScheduleInv'
<1> SUFFICES ASSUME ScheduleInv, [Next]_vars PROVE ScheduleInv'
  OBVIOUS
<1>0. TypeOK'
  BY TypeStep DEF ScheduleInv
<1> USE DEF ScheduleInv, FinishedIsSchedule, ReadyMeansFinished, ready
<1>1. CASE Reset
  BY <1>0, <1>1 DEF Reset
<1>2. ASSUME NEW inData \in Blocks, Update(inData) PROVE ScheduleInv'
  <2>1. Prefix(tempBlock', inData, 16)
    BY <1>2 DEF Update, Prefix, inWord, MessageWords, Index
  <2>2. state' = "WORKING" /\ counter' = 16 /\ job' = inData /\ finished' = "0"
    BY <1>2 DEF Update
  <2>3. started' > 0 /\ ~aborted'
    BY <1>2 DEF Update, TypeOK
  <2> QED BY <1>0, <2>1, <2>2, <2>3
<1>3. CASE Work
  <2>1. Prefix(tempBlock', job, counter + 2)
    BY <1>3, WorkExtends DEF Work, step
  <2>2. CASE counter + 2 > Length - 1
    <3>1. counter + 2 = Length
      BY <2>2 DEF TypeOK
    <3>2. IsScheduleOf(tempBlock', job)
      BY <2>1, <3>1, PrefixWhole
    <3> QED BY <1>0, <1>3, <2>2, <3>2 DEF Work, step
  <2>3. CASE ~(counter + 2 > Length - 1)
    BY <1>0, <1>3, <2>1, <2>3 DEF Work, step
  <2> QED BY <2>2, <2>3
<1>4. CASE Done
  BY <1>0, <1>4 DEF Done
<1>5. CASE UNCHANGED vars
  BY <1>0, <1>5 DEF vars
<1> QED BY <1>1, <1>2, <1>3, <1>4, <1>5 DEF Next

\* While finished is up, the output port holds the schedule of the last block.
THEOREM FinishedCorrect == Spec => []FinishedIsSchedule
<1>1. ScheduleInv => FinishedIsSchedule
  BY DEF ScheduleInv
<1> QED BY <1>1, ScheduleInit, ScheduleStep, PTL DEF Spec, Behaviour

\* Without a reset in between, ready means finished.
THEOREM ReadyCorrect == Spec => []ReadyMeansFinished
<1>1. ScheduleInv => ReadyMeansFinished
  BY DEF ScheduleInv
<1> QED BY <1>1, ScheduleInit, ScheduleStep, PTL DEF Spec, Behaviour
-------------------------------------------------------------------------------
\* outData is only ever written by the edge that raises finished.
THEOREM PublishedCorrect == Spec => PublishedStable
<1>1. ScheduleInv /\ [Next]_vars
        => [finished = "1" /\ finished' = "1" => outData' = outData]_vars
  BY DEF ScheduleInv, Next, Reset, Update, Work, Done, ready, vars
<1> QED BY <1>1, ScheduleInit, ScheduleStep, PTL
        DEF Spec, Behaviour, PublishedStable

\* The edge-by-edge design implements the service that loads, answers and
\* abandons whole blocks: two words at a time is invisible to its user.
THEOREM ServiceImplemented == Spec => ImplementsService
<1>1. Init => Service!Init
  BY DEF Init, Service!Init, ready
<1>2. ScheduleInv /\ [Next]_vars => [Service!Next]_(Service!vars)
  <2> SUFFICES ASSUME ScheduleInv, [Next]_vars
               PROVE  [Service!Next]_(Service!vars)
    OBVIOUS
  <2> USE DEF Service!Next, Service!vars, ready
  <2>1. CASE Reset
    <3>1. CASE ready
      BY <2>1, <3>1 DEF Reset
    <3>2. CASE ~ready
      BY <2>1, <3>2 DEF Reset, Service!Abandon
    <3> QED BY <3>1, <3>2
  <2>2. ASSUME NEW inData \in Blocks, Update(inData)
        PROVE  [Service!Next]_(Service!vars)
    BY <2>2 DEF Update, Service!Load
  <2>3. CASE Work
    BY <2>3 DEF Work, step
  <2>4. CASE Done
    <3>1. IsScheduleOf(outData', job)
      BY <2>4 DEF Done, ScheduleInv
    <3> QED BY <2>4, <3>1 DEF Done, Service!Answer
  <2>5. CASE UNCHANGED vars
    BY <2>5 DEF vars
  <2> QED BY <2>1, <2>2, <2>3, <2>4, <2>5 DEF Next
<1> QED BY <1>1, <1>2, ScheduleInit, ScheduleStep, PTL
        DEF Spec, Behaviour, ImplementsService, Service!Behaviour
===============================================================================
