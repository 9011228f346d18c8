------------------------------ MODULE padding_tb ------------------------------
(***************************************************************************)
(* src/Padding Block/padding_tb.vhd: the test bench of padding, for any    *)
(* stimuli where the bench has two literals.  Its statement `wait until    *)
(* ready = '1'' needs an event on ready.  Beside it, anyone may go on      *)
(* driving the inputs.                                                     *)
(***************************************************************************)
EXTENDS padding

VARIABLE tb     \* where StimuliProcess waits: "reset", "ready" or "assert"

InitTB == Init /\ tb = "reset"

\* Fault: a bench that goes on when ready is up already.
StimulateTB_level ==
  /\ tb = "reset"
  /\ \E str \in Strings, len \in Lengths : Drive(str, len)
  /\ tb' = IF ready = "1" THEN "assert" ELSE "ready"

\* At 20 ns reset rises: the process drives the inputs and waits for ready.
StimulateTB ==
  /\ tb = "reset"
  /\ \E str \in Strings, len \in Lengths : Drive(str, len)
  /\ tb' = "ready"

\* padProc runs; an event that raises ready wakes a bench that waits for it.
padProcTB ==
  /\ padProc
  /\ tb' = IF tb = "ready" /\ ready # "1" /\ ready' = "1" THEN "assert" ELSE tb

\* Further stimuli, which the bench does not have.
MoreStimuli ==
  /\ tb # "reset"
  /\ \E str \in Strings, len \in Lengths : Drive(str, len)
  /\ UNCHANGED tb

NextTB == StimulateTB \/ padProcTB \/ MoreStimuli

SpecTB == InitTB /\ [][NextTB]_<<vars, tb>>

\* The bench waits for the rise of a signal that is up before it looks: ready
\* rises at time zero, the bench begins to wait for it at 20 ns, and nothing
\* lowers it (padding_tb.vhd:60), so the assertion of padding_tb.vhd:61 is
\* never reached.
BenchWaits ==
  /\ tb # "assert"
  /\ tb = "ready" => ready = "1"
===============================================================================
