----------------------------- MODULE BlockService -----------------------------
(***************************************************************************)
(* What a block-processing component promises its user, whatever it        *)
(* computes: a block loaded while the service is idle is answered in one   *)
(* step, or abandoned when the user resets the component.  An answer is    *)
(* withdrawn by the next load, so an answer that is there belongs to the   *)
(* block loaded last.  The schedule (deComp) and the digest (HashComp, as  *)
(* its bench uses it) are two instances.                                   *)
(***************************************************************************)
CONSTANTS
  Blocks,           \* the blocks a user may load
  NoBlock,          \* no block was loaded yet
  IsAnswer(_, _)    \* IsAnswer(a, b): a is the right answer for block b

VARIABLES
  busy,         \* a block is being worked on
  block,        \* the block loaded last
  answered,     \* answer belongs to block
  answer

vars == <<busy, block, answered, answer>>

Init ==
  /\ busy = FALSE
  /\ block = NoBlock
  /\ answered = FALSE

Load(b) ==
  /\ ~busy
  /\ busy' = TRUE
  /\ block' = b
  /\ answered' = FALSE
  /\ UNCHANGED answer

Answer ==
  /\ busy
  /\ busy' = FALSE
  /\ answered' = TRUE
  /\ IsAnswer(answer', block)
  /\ UNCHANGED block

Abandon ==
  /\ busy
  /\ busy' = FALSE
  /\ UNCHANGED <<block, answered, answer>>

\* With a user that may reset the component, and with one that does not.
Next     == (\E b \in Blocks : Load(b)) \/ Answer \/ Abandon
Reliable == (\E b \in Blocks : Load(b)) \/ Answer

Behaviour         == Init /\ [][Next]_vars
ReliableBehaviour == Init /\ [][Reliable]_vars

\* The service does not stay busy.
Prompt == busy ~> ~busy
===============================================================================
