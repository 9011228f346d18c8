------------------------------ MODULE HashCompTB ------------------------------
(***************************************************************************)
(* src/HashComp/HashCompTB.vhd: the test bench around the engine, the only *)
(* user of it in the repository and the definition of how it is meant to   *)
(* be driven.  stim_proc acts when the clock falls, the engine when it     *)
(* rises; `wait until ready' needs an EVENT on ready, not its level.       *)
(*                                                                         *)
(* Composed with that user the engine implements BlockService, and never   *)
(* abandons a block.                                                       *)
(***************************************************************************)
EXTENDS HashComp

VARIABLES
  pc,           \* the statement stim_proc executes next
  reset,        \* the signals stim_proc drives
  newData,
  bus,          \* the signal input
  edgeDue       \* stim_proc waits for clkPeriod: the clock rises next

tbVars == <<pc, reset, newData, bus, edgeDue>>

InitTB ==
  /\ Init
  /\ pc = "stimulate"
  /\ reset = FALSE
  /\ newData = FALSE
  /\ bus \in Blocks
  /\ edgeDue = FALSE

\* stim_proc runs to its next `wait for clkPeriod'.
Period(from_, to) ==
  /\ pc = from_ /\ ~edgeDue
  /\ pc' = to
  /\ edgeDue' = TRUE

\* The input words and reset <= '1', which acts on the engine at once.
Stimulate ==
  /\ Period("stimulate", "release")
  /\ reset' = TRUE
  /\ Reset
  /\ UNCHANGED <<newData, bus>>

Release ==
  /\ Period("release", "start")
  /\ reset' = FALSE
  /\ UNCHANGED <<newData, bus, vars>>

\* The first assertion, then newData <= '1'.
Start ==
  /\ Period("start", "lower")
  /\ newData' = TRUE
  /\ UNCHANGED <<reset, bus, vars>>

\* newData <= '0', and on to `wait until ready'.
Lower ==
  /\ Period("lower", "wait")
  /\ newData' = FALSE
  /\ UNCHANGED <<reset, bus, vars>>

\* A rising edge of clk.
Rise ==
  /\ edgeDue \/ pc = "wait"
  /\ edgeDue' = FALSE
  /\ \/ reset /\ Reset
     \/ ~reset /\ newData /\ Accept(bus)
     \/ ~reset /\ (Compress(bus) \/ Finalise)
     \/ ~reset /\ ~newData /\ ready /\ UNCHANGED vars
  /\ pc' = IF pc = "wait" /\ ~ready /\ ready' THEN "check" ELSE pc
  /\ UNCHANGED <<reset, newData, bus>>

\* The last assertion and the failure that ends the simulation.
Check ==
  /\ pc = "check"
  /\ pc' = "stopped"
  /\ UNCHANGED <<reset, newData, bus, edgeDue, vars>>

NextTB == Stimulate \/ Release \/ Start \/ Lower \/ Rise \/ Check

BehaviourTB == InitTB /\ [][NextTB]_<<vars, tbVars>>

\* Simulated time goes on as long as something is scheduled.
SpecTB == BehaviourTB /\ WF_<<vars, tbVars>>(NextTB)
-------------------------------------------------------------------------------
\* The assertion of HashCompTB.vhd:151 for any block: when `wait until ready'
\* returns, the output is the digest of the words on the bus.
DigestOnReady == pc \in {"check", "stopped"} => output = Digest(bus)

\* The wait for ready ends: the bench reaches its last assertion.
BenchEnds == <>(pc = "stopped")

\* The bench and the engine implement the one-step service: the edge that sees
\* newData loads the block, the final edge answers it with its digest, and the
\* reset and the rounds are invisible.
IsDigest(a, b) == a = Digest(b)

Service ==
  INSTANCE BlockService
    WITH IsAnswer <- IsDigest, busy <- ~ready, block <- job,
         answered <- finished /\ ready, answer <- output

ImplementsService == Service!ReliableBehaviour
===============================================================================
