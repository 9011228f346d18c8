--------------------------------- MODULE Timer ---------------------------------
(***************************************************************************)
(* What the alarms of the HAL promise to callers that keep its rules: each *)
(* counts the ticks that are left, and its callback runs when none is,     *)
(* before the next tick is counted.                                        *)
(***************************************************************************)
EXTENDS Integers

CONSTANTS Alarm, Ticks, Off
VARIABLES left, broken

Init == left = [a \in Alarm |-> Off] /\ broken = FALSE

running == {a \in Alarm : left[a] # Off}

Start(a) == left[a] = Off /\ \E n \in Ticks : left' = [left EXCEPT ![a] = n + 1]
Stop(a) == left' = [left EXCEPT ![a] = Off]

Tick ==
  /\ \A a \in running : left[a] > 0
  /\ left' = [a \in Alarm |-> IF a \in running THEN left[a] - 1 ELSE Off]

\* The callback returns how many ticks are left until the next one.
Fire(a) ==
  /\ left[a] = 0
  /\ \E n \in Ticks : left' = [left EXCEPT ![a] = IF n = 0 THEN Off ELSE n]

\* A caller that breaks a rule ends the promise.
Next ==
  \/ broken' = FALSE /\ (Tick \/ \E a \in Alarm : Start(a) \/ Stop(a) \/ Fire(a))
  \/ broken' = TRUE

Behaviour == Init /\ [][Next]_<<left, broken>>
================================================================================
