-------------------------------- MODULE deComp --------------------------------
(***************************************************************************)
(* src/BlockDecomp/deComp.vhd: the block decomposition, which expands a    *)
(* block into its message schedule, two words per clock edge.  One action  *)
(* is one clock edge or the asynchronous reset; the edges that change      *)
(* nothing are stuttering steps.  reset may come at any moment, and update *)
(* with any block at any edge.                                             *)
(***************************************************************************)
EXTENDS Schedule, shaFunctions

CONSTANTS
  Undef,        \* the value 'U' of a word nothing was assigned to
  MaxBlocks     \* bound: blocks loaded in one behaviour

ASSUME MaxBlocksAssumption == MaxBlocks \in Nat

VARIABLES
  state,        \* IDLE, WORKING or DONE
  counter,      \* index of the next word to compute
  tempBlock,    \* the schedule under construction
  finished,     \* "U" until the first block, then the level of the port
  outData,      \* the schedule on the output port
  \* History, read by no action:
  job,          \* the block loaded last
  started,      \* how many blocks were loaded since power-up
  aborted       \* reset cut job short

vars == <<state, counter, tempBlock, finished, outData, job, started, aborted>>

Index == 0 .. Length - 1

Init ==
  /\ state = "IDLE"
  /\ counter = 16
  /\ tempBlock = [t \in Index |-> Undef]
  /\ finished = "U"
  /\ outData = [t \in Index |-> Undef]
  /\ job = NoBlock
  /\ started = 0
  /\ aborted = FALSE

ready == state = "IDLE"

\* Fault: reset does not rewind the counter.
Reset_keepsCounter ==
  /\ state' = "IDLE"
  /\ aborted' = (aborted \/ ~ready)
  /\ UNCHANGED <<counter, tempBlock, finished, outData, job, started>>

\* reset = '1' leaves finished, tempBlock and outData as they are.
Reset ==
  /\ counter' = 16
  /\ state' = "IDLE"
  /\ aborted' = (aborted \/ ~ready)
  /\ UNCHANGED <<tempBlock, finished, outData, job, started>>

\* Word t of the port inData, whose leftmost bits are word 0.
inWord(inData, t) == {i \in Bit : (15 - t) * WordBits + i \in inData}

\* Fault: loading a block leaves finished up.
Update_keepsFinished(inData) ==
  /\ state = "IDLE"
  /\ started < MaxBlocks
  /\ tempBlock' = [t \in Index |-> IF t <= 15 THEN inWord(inData, t) ELSE tempBlock[t]]
  /\ state' = "WORKING"
  /\ job' = inData
  /\ started' = started + 1
  /\ aborted' = FALSE
  /\ UNCHANGED <<counter, finished, outData>>

\* A clock edge in IDLE with update = '1'.
Update(inData) ==
  /\ state = "IDLE"
  /\ started < MaxBlocks
  /\ tempBlock' = [t \in Index |-> IF t <= 15 THEN inWord(inData, t) ELSE tempBlock[t]]
  /\ finished' = "0"
  /\ state' = "WORKING"
  /\ job' = inData
  /\ started' = started + 1
  /\ aborted' = FALSE
  /\ UNCHANGED <<counter, outData>>

\* Fault: the end of the block is never found.
step_endless ==
  IF counter + 2 > Length - 1
    THEN counter' = 16 /\ UNCHANGED state
    ELSE counter' = counter + 2 /\ UNCHANGED state

\* The counter moves on by two, and past the last word the state does.
step ==
  IF counter + 2 > Length - 1
    THEN state' = "DONE" /\ counter' = 16
    ELSE counter' = counter + 2 /\ UNCHANGED state

\* A clock edge in WORKING: two words, both from the old value of tempBlock.
Work ==
  /\ state = "WORKING"
  /\ tempBlock' =
       [tempBlock EXCEPT
          ![counter] = o1(tempBlock[counter - 2]) ++ tempBlock[counter - 7]
                         ++ o0(tempBlock[counter - 15]) ++ tempBlock[counter - 16],
          ![counter + 1] = o1(tempBlock[counter - 1]) ++ tempBlock[counter - 6]
                         ++ o0(tempBlock[counter - 14]) ++ tempBlock[counter - 15]]
  /\ step
  /\ UNCHANGED <<finished, outData, job, started, aborted>>

\* Fault: the block is published without raising finished.
Done_silent ==
  /\ state = "DONE"
  /\ outData' = tempBlock
  /\ state' = "IDLE"
  /\ UNCHANGED <<counter, tempBlock, finished, job, started, aborted>>

\* The clock edge in DONE.
Done ==
  /\ state = "DONE"
  /\ outData' = tempBlock
  /\ finished' = "1"
  /\ state' = "IDLE"
  /\ UNCHANGED <<counter, tempBlock, job, started, aborted>>

Next == Reset \/ (\E inData \in Blocks : Update(inData)) \/ Work \/ Done

Behaviour == Init /\ [][Next]_vars

\* The clock is free-running; reset and update belong to the user.
Spec == Behaviour /\ WF_vars(Work \/ Done)
-------------------------------------------------------------------------------
\* Every signal, the counter and the history have their types; the counter is
\* even, so the pair of words it points at never straddles the end.
TypeOK ==
  /\ state \in {"IDLE", "WORKING", "DONE"}
  /\ counter \in 16 .. Length - 1 /\ counter % 2 = 0
  /\ tempBlock \in [Index -> {Undef} \cup Word]
  /\ finished \in {"U", "0", "1"}
  /\ outData \in [Index -> {Undef} \cup Word]
  /\ job \in Blocks \cup {NoBlock}
  /\ started \in 0 .. MaxBlocks
  /\ aborted \in BOOLEAN

\* Whenever finished is up, outData is the complete message schedule of the
\* block loaded last (deComp.vhd:35-69), whatever resets and aborted blocks
\* came before it and whatever a cut-short block left in tempBlock.
FinishedIsSchedule == finished = "1" => IsScheduleOf(outData, job)

\* A user that waits for ready instead of finished, as tb_deComp.vhd:76 does,
\* finds a complete schedule unless it has pulsed reset in between: ready is
\* down from the edge that loads a block until the edge that publishes it.
ReadyMeansFinished == ready /\ started > 0 /\ ~aborted => finished = "1"

\* A schedule that has been published does not change while finished is up:
\* outData is written as a whole, on the edge on which finished rises.
PublishedStable == [][finished = "1" /\ finished' = "1" => outData' = outData]_vars

\* The decomposition implements its one-step service: a load that is either
\* answered by a whole schedule or abandoned at a reset.
Service ==
  INSTANCE BlockService
    WITH IsAnswer <- IsScheduleOf, busy <- ~ready, block <- job,
         answered <- finished = "1", answer <- outData

ImplementsService == Service!Behaviour

\* A block that was loaded is dealt with: ready returns.
ReadyAgain == Service!Prompt
===============================================================================
